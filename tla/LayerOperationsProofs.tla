------------------------- MODULE LayerOperationsProofs -------------------------
(***************************************************************************)
(* Proofs about LayerOperations for every level, every links and positions *)
(* of its nodes and every width: what a search finds, what a selection     *)
(* keeps, and the order the cursor walks in.                               *)
(***************************************************************************)
EXTENDS LayerOperations, IndexGraphProofs, SequenceTheorems

Reach == Reachable(nd, call.seeds, QueryNode)

Seeds == call.seeds \ QueryNode

\* e is a result, or ef others at least as near are.
Settled(e) ==
  \/ e \in results
  \/ Cardinality(results) >= call.ef /\ \A f \in results : Distance(f) <= Distance(e)

\* What the search has seen.
SeenOK ==
  /\ visited \subseteq Reach \cup QueryNode
  /\ Seeds \cup QueryNode \subseteq visited
  /\ results \cup candidates \cup todo \subseteq visited \ QueryNode
  /\ results \cap todo = {}
  /\ todo # {} => phase = "search"
  /\ call.by = "shrink" => phase # "search"

\* The result set never shrinks, and grows beyond ef only with the seeds.
SizeOK ==
  /\ Cardinality(results) >= Cardinality(Seeds)
  /\ Cardinality(results) <= call.ef \/ Cardinality(results) = Cardinality(Seeds)

\* Whatever was seen and looked at is settled.
SettledOK == \A e \in visited \ (QueryNode \cup todo) : Settled(e)

\* The links of a result have been followed, or will be.
ExpandedOK ==
  call.by # "shrink" =>
    \A r \in results :
      \/ nd[r].out \subseteq visited
      \/ phase = "search" /\ r \in candidates

SearchInv == SeenOK /\ SizeOK /\ SettledOK /\ ExpandedOK

\* The selection while it is made: nearest first, diverse, and what was passed
\* over is dominated.
SelectInv ==
  /\ phase \notin {"select", "selected"} => selected = {}
  /\ phase \in {"select", "selected"} =>
       /\ selected \cup candidates \subseteq results
       /\ selected \cap candidates = {}
       /\ Cardinality(selected) <= Limit
       /\ selected = {} => candidates = results
       /\ \A r \in selected, c \in candidates : Distance(r) <= Distance(c)
       /\ \A a, b \in selected : a # b => Gap(at[a], at[b]) >= Distance(a)
       /\ \A e \in results \ (selected \cup candidates) :
            \E r \in selected : /\ Distance(r) <= Distance(e)
                                /\ Gap(at[r], at[e]) < Distance(e)
  /\ phase = "selected" => candidates = {} \/ Cardinality(selected) = Limit

\* s holds different results in the order of their distances, and none that it
\* leaves out is nearer.
Ranked(s) ==
  /\ \A i \in 1 .. Len(s) : s[i] \in results
  /\ \A i, j \in 1 .. Len(s) :
       i < j => s[i] # s[j] /\ Distance(s[i]) <= Distance(s[j])
  /\ \A e \in results :
       \/ \E i \in 1 .. Len(s) : s[i] = e
       \/ \A i \in 1 .. Len(s) : Distance(s[i]) <= Distance(e)

ScanInv ==
  /\ call.by = "knn" => QueryNode = {}
  /\ phase = "scan" => call.by = "knn" /\ Ranked(nearest)

LayerInv == TypeOK /\ SearchInv /\ SelectInv /\ ScanInv

-------------------------------------------------------------------------------
(* Distances, and what no step changes.                                    *)

LEMMA FiniteElements ==
  ASSUME NEW S \in SUBSET Elements
  PROVE  IsFiniteSet(S) /\ Cardinality(S) \in Nat
  BY GraphAssumption, FS_Subset, FS_CardinalityType

LEMMA GapType ==
  ASSUME NEW a \in Int, NEW b \in Int
  PROVE  Gap(a, b) \in Nat /\ Gap(a, b) = Gap(b, a)
  BY DEF Gap

LEMMA DistanceType ==
  ASSUME TypeOK, NEW e \in Elements
  PROVE  Distance(e) \in Nat /\ at[e] \in Int
<1>1. at \in [Elements -> Int] /\ call.query \in Elements \cup {Nil}
  BY LayerAssumption DEF TypeOK, CallType
<1>2. at[e] \in Int /\ (IF call.query = Nil THEN 0 ELSE at[call.query]) \in Int
  BY <1>1
<1> QED
  BY <1>2, GapType DEF Distance

LEMMA CallOK ==
  ASSUME TypeOK
  PROVE  /\ call.seeds \in SUBSET Elements /\ call.ef \in Nat \ {0}
         /\ QueryNode \in SUBSET Elements /\ Limit \in Nat \ {0}
         /\ nd \in LevelType /\ \A e \in Elements : nd[e].out \in SUBSET Elements
         /\ Seeds \in SUBSET Elements
<1>1. /\ call.seeds \in SUBSET Elements /\ call.ef \in Nat \ {0}
      /\ QueryNode \in SUBSET Elements
  BY LayerAssumption DEF TypeOK, CallType, QueryNode
<1>2. Limit \in Nat \ {0}
  BY GraphAssumption DEF Limit, MaxNeighbours
<1>3. nd \in LevelType /\ \A e \in Elements : nd[e].out \in SUBSET Elements
  BY DEF TypeOK, LevelType, NodeRec
<1> QED
  BY <1>1, <1>2, <1>3 DEF Seeds

\* The links, the positions and the call are those of one search.
LEMMA GraphFixed ==
  ASSUME UNCHANGED graph
  PROVE  /\ \A e : Distance(e)' = Distance(e)
         /\ Reach' = Reach /\ Seeds' = Seeds /\ QueryNode' = QueryNode
         /\ Limit' = Limit /\ nd' = nd /\ at' = at /\ call' = call
  BY DEF graph, Distance, Reach, Seeds, QueryNode, Limit

LEMMA NextFixed ==
  ASSUME [Next]_vars
  PROVE  UNCHANGED graph
  BY DEF Next, Step, vars, graph, StopSearch, Expand, Consider, Exhaust,
         BeginSelect, Select, EndSelect, Begin, Advance, End

-------------------------------------------------------------------------------
(* Type correctness.                                                       *)

LEMMA TypeInit ==
  ASSUME Init
  PROVE  TypeOK
<1>1. PICK out \in [Elements -> {S \in SUBSET Elements : Cardinality(S) <= M}] :
        /\ call \in Calls(out)
        /\ nd = [e \in Elements |->
                   [out |-> out[e], inc |-> {}, ovf |-> {}, lower |-> FALSE,
                    marked |-> FALSE]]
  BY DEF Init
<1>2. nd \in [Elements -> NodeRec]
  BY <1>1 DEF NodeRec
<1>3. call \in CallType
  BY <1>1 DEF Calls
<1>4. call.seeds \in SUBSET Elements /\ QueryNode \subseteq Elements
  BY <1>3, LayerAssumption DEF CallType, QueryNode
<1> QED
  BY <1>2, <1>3, <1>4 DEF Init, TypeOK, EOF_POS

\* What consume_simple and the cursor get: the results in order, cut at k.
LEMMA BeginResult ==
  ASSUME TypeOK, NEW s \in AscendingResults, NEW k \in 1 .. call.ef
  PROVE  LET n == Min({k, Len(s)})
             q == SubSeq(s, 1, n)
         IN  /\ s \in Seq(results) /\ Len(s) = Cardinality(results)
             /\ n \in 0 .. Len(s) /\ q \in Seq(results) /\ Len(q) = n
             /\ \A i \in 1 .. n : q[i] = s[i]
<1>1. Cardinality(results) \in Nat
  BY FiniteElements DEF TypeOK
<1>2. s \in [1 .. Cardinality(results) -> results]
  BY DEF AscendingResults
<1>3. s \in Seq(results) /\ Len(s) = Cardinality(results)
  BY <1>1, <1>2
<1>4. k \in Nat
  BY CallOK
<1>5. Min({k, Len(s)}) \in 0 .. Len(s)
  BY <1>1, <1>3, <1>4, MinOfTwo
<1> DEFINE n == Min({k, Len(s)})
           q == SubSeq(s, 1, n)
<1> HIDE DEF n
<1>6. n \in 0 .. Len(s)
  BY <1>5 DEF n
<1>7. q \in Seq(results) /\ Len(q) = n /\ \A i \in 1 .. n : q[i] = s[i]
  BY <1>3, <1>6, SubSeqProperties
<1> QED
  BY <1>3, <1>6, <1>7 DEF n

LEMMA TypeStep ==
  ASSUME TypeOK, [Next]_vars
  PROVE  TypeOK'
<1>1. UNCHANGED graph
  BY NextFixed
<1>2. nd' \in [Elements -> NodeRec] /\ at' \in Layouts /\ call' \in CallType
  BY <1>1 DEF TypeOK, graph
<1>3. \A e \in Elements : nd[e].out \in SUBSET Elements
  BY CallOK
<1> USE DEF TypeOK
<1>4. CASE StopSearch
  BY <1>2, <1>4 DEF StopSearch
<1>5. CASE Expand
  BY <1>2, <1>3, <1>5 DEF Expand, Top
<1>6. CASE Consider
  BY <1>2, <1>6 DEF Consider
<1>7. CASE Exhaust
  BY <1>2, <1>7 DEF Exhaust
<1>8. CASE BeginSelect
  BY <1>2, <1>8 DEF BeginSelect
<1>9. CASE Select
  BY <1>2, <1>9 DEF Select, Top
<1>10. CASE EndSelect
  BY <1>2, <1>10 DEF EndSelect
<1>11. CASE Begin
  <2>1. PICK s \in AscendingResults, k \in 1 .. call.ef :
          nearest' = SubSeq(s, 1, Min({k, Len(s)}))
    BY <1>11 DEF Begin
  <2>2. nearest' \in Seq(results)
    BY <2>1, BeginResult
  <2>3. nearest' \in Seq(Elements)
    BY <2>2
  <2>4. pos' \in 0 .. Len(nearest')
    BY <1>11, <2>3 DEF Begin, EOF_POS
  <2> QED
    BY <1>2, <1>11, <2>3, <2>4 DEF Begin
<1>12. CASE Advance
  BY <1>2, <1>12 DEF Advance, EOF_POS
<1>13. CASE End
  BY <1>2, <1>13 DEF End, EOF_POS
<1>14. CASE UNCHANGED vars
  BY <1>2, <1>14 DEF vars
<1> QED
  BY <1>4, <1>5, <1>6, <1>7, <1>8, <1>9, <1>10, <1>11, <1>12, <1>13, <1>14
  DEF Next, Step

-------------------------------------------------------------------------------
(* The search.                                                             *)

LEMMA SearchInit ==
  ASSUME Init, TypeOK
  PROVE  SearchInv
<1>1. /\ visited = call.seeds \cup QueryNode /\ candidates = Seeds
      /\ results = Seeds /\ todo = {}
      /\ phase = IF call.by = "shrink" THEN "consume" ELSE "search"
  BY DEF Init, Seeds, Visible
<1>2. Seeds \subseteq Reach
  BY CallOK, ReachableClosed DEF Reach, Seeds
<1>3. SeenOK
  BY <1>1, <1>2 DEF SeenOK, Seeds
<1>4. SizeOK
  BY <1>1, CallOK, FiniteElements DEF SizeOK
<1>5. SettledOK
  BY <1>1 DEF SettledOK, Settled, Seeds
<1>6. ExpandedOK
  BY <1>1 DEF ExpandedOK
<1> QED
  BY <1>3, <1>4, <1>5, <1>6 DEF SearchInv

\* Once the results are there they do not change.
LEMMA SearchKept ==
  ASSUME TypeOK, SearchInv, UNCHANGED <<graph, visited, results, todo>>,
         phase # "search", phase' # "search", todo = {},
         candidates' \subseteq results \cup candidates
  PROVE  SearchInv'
<1>1. SeenOK'
  BY GraphFixed DEF SearchInv, SeenOK
<1>2. SizeOK'
  BY GraphFixed DEF SearchInv, SizeOK
<1>3. SettledOK'
  BY GraphFixed DEF SearchInv, SettledOK, Settled
<1>4. ExpandedOK'
  BY GraphFixed DEF SearchInv, ExpandedOK
<1> QED
  BY <1>1, <1>2, <1>3, <1>4 DEF SearchInv

\* The search ends when the links of every result have been followed: a
\* candidate that is left is beyond all results, and so are the others.
LEMMA SearchEnds ==
  ASSUME TypeOK, SearchInv, StopSearch \/ Exhaust
  PROVE  SearchInv'
<1>1. /\ UNCHANGED <<graph, visited, results, todo>> /\ phase' = "consume"
      /\ todo = {} /\ candidates' \subseteq candidates
  BY DEF StopSearch, Exhaust
<1>2. results \cap candidates = {}
  <2>1. CASE Exhaust
    BY <2>1 DEF Exhaust
  <2>2. CASE StopSearch
    <3>1. PICK c \in Top(candidates) : BeyondResults(c)
      BY <2>2 DEF StopSearch
    <3>2. \A f \in candidates : Distance(c) <= Distance(f)
      BY <3>1 DEF Top
    <3>3. \A f \in results : Distance(f) < Distance(c)
      BY <3>1 DEF BeyondResults
    <3>4. c \in Elements /\ Distance(c) \in Nat
          /\ \A f \in results : Distance(f) \in Nat
      BY <3>1, DistanceType DEF Top, TypeOK
    <3> QED
      BY <3>2, <3>3, <3>4
  <2> QED
    BY <2>1, <2>2
<1>3. SeenOK'
  BY <1>1, GraphFixed DEF SearchInv, SeenOK
<1>4. SizeOK'
  BY <1>1, GraphFixed DEF SearchInv, SizeOK
<1>5. SettledOK'
  BY <1>1, GraphFixed DEF SearchInv, SettledOK, Settled
<1>6. ExpandedOK'
  BY <1>1, <1>2, GraphFixed DEF SearchInv, ExpandedOK
<1> QED
  BY <1>3, <1>4, <1>5, <1>6 DEF SearchInv

LEMMA SearchExpands ==
  ASSUME TypeOK, SearchInv, Expand
  PROVE  SearchInv'
<1>1. PICK c \in Top(candidates) :
        /\ candidates' = candidates \ {c}
        /\ todo' = nd[c].out \ visited
        /\ visited' = visited \cup nd[c].out
  BY DEF Expand
<1>2. /\ UNCHANGED <<graph, results, phase>> /\ phase = "search" /\ todo = {}
  BY DEF Expand
<1>3. c \in candidates /\ c \in Elements /\ c \in Reach
  BY <1>1 DEF Top, TypeOK, SearchInv, SeenOK
<1>4. Exists(nd, c)
  BY <1>3, NodeAssumption DEF Exists, TypeOK
<1>5. nd[c].out \ QueryNode \subseteq Reach
  BY <1>3, <1>4, CallOK, ReachableClosed DEF Reach, Closed
<1>6. SeenOK'
  <2>1. visited' \subseteq Reach' \cup QueryNode'
    BY <1>1, <1>2, <1>5, GraphFixed DEF SearchInv, SeenOK
  <2>2. results \cup candidates' \cup todo' \subseteq visited' \ QueryNode
    BY <1>1, <1>2 DEF SearchInv, SeenOK
  <2> QED
    BY <1>1, <1>2, <2>1, <2>2, GraphFixed DEF SearchInv, SeenOK
<1>7. SizeOK'
  BY <1>2, GraphFixed DEF SearchInv, SizeOK
<1>8. SettledOK'
  BY <1>1, <1>2, GraphFixed DEF SearchInv, SettledOK, Settled
<1>9. ExpandedOK'
  BY <1>1, <1>2, GraphFixed DEF SearchInv, ExpandedOK
<1> QED
  BY <1>6, <1>7, <1>8, <1>9 DEF SearchInv

\* What one neighbour e does to the results R: it joins them when there is room,
\* takes the place of a furthest one when it is nearer, and is left out, being
\* no nearer than any of them, when it is not.
Joins(e, R) ==
  \/ Cardinality(results) < call.ef /\ R = results \cup {e}
  \/ /\ Cardinality(results) >= call.ef
     /\ \E f \in results \cup {e} :
          /\ R = (results \cup {e}) \ {f}
          /\ \A g \in results \cup {e} : Distance(g) <= Distance(f)

LEMMA ConsiderJoins ==
  ASSUME TypeOK, SearchInv, Consider
  PROVE  \E e \in todo :
           /\ todo' = todo \ {e}
           /\ candidates' = candidates \/ candidates' = candidates \cup {e}
           /\ Joins(e, results')
           /\ e \in results' => e \in candidates'
<1>1. PICK e \in todo :
        /\ todo' = todo \ {e}
        /\ IF Cardinality(results) < call.ef \/ NearerThanResults(e)
           THEN /\ candidates' = candidates \cup {e}
                /\ IF Cardinality(results) < call.ef
                   THEN results' = results \cup {e}
                   ELSE \E f \in Bottom(results \cup {e}) :
                          results' = (results \cup {e}) \ {f}
           ELSE UNCHANGED <<candidates, results>>
  BY DEF Consider, Visible
<1>2. /\ Cardinality(results) \in Nat /\ call.ef \in Nat \ {0}
      /\ e \in Elements /\ results \cup {e} \in SUBSET Elements
      /\ e \notin results
  BY CallOK, FiniteElements DEF TypeOK, SearchInv, SeenOK
<1>3. CASE Cardinality(results) < call.ef
  BY <1>1, <1>2, <1>3 DEF Joins
<1>4. CASE ~(Cardinality(results) < call.ef) /\ NearerThanResults(e)
  <2>1. PICK f \in Bottom(results \cup {e}) : results' = (results \cup {e}) \ {f}
    BY <1>1, <1>4
  <2>2. \A g \in results \cup {e} : Distance(g) <= Distance(f)
    <3>1. \A g \in results \cup {e} : Distance(f) >= Distance(g)
      BY <2>1 DEF Bottom
    <3>2. f \in Elements /\ Distance(f) \in Nat
      BY <1>2, <2>1, DistanceType DEF Bottom
    <3>3. \A g \in results \cup {e} : Distance(g) \in Nat
      BY <1>2, DistanceType
    <3> QED
      BY <3>1, <3>2, <3>3
  <2>3. f \in results \cup {e}
    BY <2>1 DEF Bottom
  <2>4. Joins(e, results')
    BY <1>2, <1>4, <2>1, <2>2, <2>3 DEF Joins
  <2> QED
    BY <1>1, <1>4, <2>4
<1>5. CASE ~(Cardinality(results) < call.ef) /\ ~NearerThanResults(e)
  <2>1. UNCHANGED <<candidates, results>>
    BY <1>1, <1>5
  <2>2. PICK f \in Bottom(results) : ~(Distance(e) < Distance(f))
    BY <1>5 DEF NearerThanResults
  <2>3. /\ Distance(e) \in Nat /\ f \in results
        /\ \A g \in results : Distance(g) \in Nat /\ Distance(f) >= Distance(g)
    BY <1>2, <2>2, DistanceType DEF Bottom, TypeOK
  <2>4. \A g \in results \cup {e} : Distance(g) <= Distance(e)
    BY <2>2, <2>3
  <2>5. results = (results \cup {e}) \ {e}
    BY <1>2
  <2>6. Joins(e, results')
    BY <1>2, <1>5, <2>1, <2>4, <2>5 DEF Joins
  <2> QED
    BY <1>1, <1>2, <2>1, <2>6
<1> QED
  BY <1>3, <1>4, <1>5

\* However e joins, whatever was settled still is.
LEMMA JoinsSettles ==
  ASSUME TypeOK, NEW e \in Elements, e \notin results, NEW R, Joins(e, R)
  PROVE  /\ R \subseteq results \cup {e}
         /\ Cardinality(R) \in Nat /\ Cardinality(R) >= Cardinality(results)
         /\ Cardinality(R) <= call.ef \/ Cardinality(R) = Cardinality(results)
         /\ \A x \in Elements :
              Settled(x) \/ x = e =>
                \/ x \in R
                \/ Cardinality(R) >= call.ef /\ \A f \in R : Distance(f) <= Distance(x)
<1>1. /\ IsFiniteSet(results) /\ Cardinality(results) \in Nat
      /\ call.ef \in Nat \ {0} /\ results \subseteq Elements
  BY CallOK, FiniteElements DEF TypeOK
<1>2. /\ IsFiniteSet(results \cup {e})
      /\ Cardinality(results \cup {e}) = Cardinality(results) + 1
  BY <1>1, FS_AddElement
<1>3. CASE Cardinality(results) < call.ef /\ R = results \cup {e}
  BY <1>1, <1>2, <1>3 DEF Settled
<1>4. CASE Cardinality(results) >= call.ef /\ R # results \cup {e}
  <2>1. PICK f \in results \cup {e} :
          /\ R = (results \cup {e}) \ {f}
          /\ \A g \in results \cup {e} : Distance(g) <= Distance(f)
    BY <1>1, <1>4 DEF Joins
  <2>2. Cardinality(R) = Cardinality(results)
    <3>1. Cardinality((results \cup {e}) \ {f}) = Cardinality(results \cup {e}) - 1
      BY <1>2, FS_RemoveElement
    <3> QED
      BY <1>1, <1>2, <2>1, <3>1
  <2>3. \A g \in results \cup {e} : Distance(g) \in Nat
    BY <1>1, DistanceType
  <2>4. ASSUME NEW x \in Elements, Settled(x) \/ x = e, x \notin R
        PROVE  \A g \in R : Distance(g) <= Distance(x)
    <3>1. CASE x = f
      BY <2>1, <3>1
    <3>2. CASE x # f
      <4>1. x \notin results /\ x # e
        BY <2>1, <2>4, <3>2
      <4>2. \A g \in results : Distance(g) <= Distance(x)
        BY <2>4, <4>1 DEF Settled
      <4>3. Distance(x) \in Nat
        BY DistanceType
      <4>4. CASE f = e
        BY <2>1, <4>2, <4>4
      <4>5. CASE f # e
        BY <2>1, <2>3, <4>2, <4>3, <4>5
      <4> QED
        BY <4>4, <4>5
    <3> QED
      BY <3>1, <3>2
  <2> QED
    BY <1>1, <1>4, <2>1, <2>2, <2>4
<1> QED
  BY <1>1, <1>3, <1>4 DEF Joins

LEMMA SearchConsiders ==
  ASSUME TypeOK, SearchInv, Consider
  PROVE  SearchInv'
<1>1. PICK e \in todo :
        /\ todo' = todo \ {e}
        /\ candidates' = candidates \/ candidates' = candidates \cup {e}
        /\ Joins(e, results')
        /\ e \in results' => e \in candidates'
  BY ConsiderJoins
<1>2. UNCHANGED <<graph, visited, phase>> /\ phase = "search"
  BY <1>1 DEF Consider, SearchInv, SeenOK
<1>3. /\ Cardinality(results) \in Nat /\ call.ef \in Nat \ {0}
      /\ e \in Elements /\ e \notin results /\ e \in visited \ QueryNode
      /\ Cardinality(Seeds) \in Nat /\ visited \subseteq Elements
  BY CallOK, FiniteElements DEF TypeOK, SearchInv, SeenOK
<1>4. SeenOK' /\ ExpandedOK'
  <2>1. results' \subseteq results \cup {e}
        /\ (e \in results' => e \in candidates')
    BY <1>1, <1>3, JoinsSettles
  <2>2. SeenOK'
    BY <1>1, <1>2, <1>3, <2>1, GraphFixed DEF SearchInv, SeenOK
  <2>3. ExpandedOK'
    BY <1>1, <1>2, <1>3, <2>1, GraphFixed DEF SearchInv, ExpandedOK
  <2> QED
    BY <2>2, <2>3
<1>5. SizeOK'
  <2>1. /\ Cardinality(results') \in Nat
        /\ Cardinality(results') >= Cardinality(results)
        /\ \/ Cardinality(results') <= call.ef
           \/ Cardinality(results') = Cardinality(results)
    BY <1>1, <1>3, JoinsSettles
  <2> QED
    BY <1>2, <1>3, <2>1, GraphFixed DEF SearchInv, SizeOK
<1>6. SettledOK'
  <2> SUFFICES ASSUME NEW x \in visited \ (QueryNode \cup todo')
               PROVE  Settled(x)'
    BY <1>2, GraphFixed DEF SettledOK
  <2>1. x \in Elements /\ (x = e \/ Settled(x))
    BY <1>1, <1>3 DEF SearchInv, SettledOK
  <2>2. \/ x \in results'
        \/ /\ Cardinality(results') >= call.ef
           /\ \A f \in results' : Distance(f) <= Distance(x)
    BY <1>1, <1>3, <2>1, JoinsSettles
  <2> QED
    BY <1>2, <2>2, GraphFixed DEF Settled
<1> QED
  BY <1>4, <1>5, <1>6 DEF SearchInv

LEMMA SearchStep ==
  ASSUME TypeOK, SearchInv, [Next]_vars
  PROVE  SearchInv'
<1>1. CASE StopSearch \/ Exhaust
  BY <1>1, SearchEnds
<1>2. CASE Expand
  BY <1>2, SearchExpands
<1>3. CASE Consider
  BY <1>3, SearchConsiders
<1>4. CASE BeginSelect
  BY <1>4, SearchKept DEF BeginSelect, SearchInv, SeenOK
<1>5. CASE Select
  <2>1. candidates' \subseteq candidates
    BY <1>5 DEF Select
  <2> QED
    BY <1>5, <2>1, SearchKept DEF Select, SearchInv, SeenOK
<1>6. CASE EndSelect
  BY <1>6, SearchKept DEF EndSelect, SearchInv, SeenOK
<1>7. CASE Begin
  BY <1>7, SearchKept DEF Begin, SearchInv, SeenOK
<1>8. CASE Advance
  BY <1>8, SearchKept DEF Advance, SearchInv, SeenOK
<1>9. CASE End
  BY <1>9, SearchKept DEF End, SearchInv, SeenOK
<1>10. CASE UNCHANGED vars
  <2>1. UNCHANGED <<graph, visited, candidates, results, todo, phase>>
    BY <1>10 DEF vars, graph
  <2> QED
    BY <2>1, GraphFixed
    DEF SearchInv, SeenOK, SizeOK, SettledOK, Settled, ExpandedOK
<1> QED
  BY <1>1, <1>2, <1>3, <1>4, <1>5, <1>6, <1>7, <1>8, <1>9, <1>10 DEF Next, Step

-------------------------------------------------------------------------------
(* The selection.                                                          *)

\* One candidate: it is no nearer than what is selected, so that it is selected
\* when no selected node is nearer to it than the query is.
LEMMA SelectPicks ==
  ASSUME TypeOK, SelectInv, Select
  PROVE  SelectInv'
<1>1. PICK e \in Top(candidates) :
        /\ candidates' = candidates \ {e}
        /\ selected' = IF IsDominated(e) THEN selected ELSE selected \cup {e}
  BY DEF Select
<1>2. /\ UNCHANGED <<graph, results, phase>> /\ phase = "select"
      /\ Cardinality(selected) < Limit
  BY DEF Select
<1>3. /\ selected \cup candidates \subseteq results
      /\ selected \cap candidates = {} /\ (selected = {} => candidates = results)
      /\ \A r \in selected, c \in candidates : Distance(r) <= Distance(c)
      /\ \A a, b \in selected : a # b => Gap(at[a], at[b]) >= Distance(a)
      /\ \A x \in results \ (selected \cup candidates) :
           \E r \in selected : /\ Distance(r) <= Distance(x)
                               /\ Gap(at[r], at[x]) < Distance(x)
  BY <1>2 DEF SelectInv
<1>4. e \in candidates /\ \A c \in candidates : Distance(e) <= Distance(c)
  BY <1>1 DEF Top
<1>5. /\ results \subseteq Elements /\ selected \subseteq Elements
      /\ candidates \subseteq Elements
      /\ IsFiniteSet(selected) /\ Cardinality(selected) \in Nat
      /\ Limit \in Nat \ {0}
  BY CallOK, FiniteElements DEF TypeOK
<1>6. \A x \in Elements : /\ Distance(x) \in Nat
                          /\ \A y \in Elements : /\ Gap(at[x], at[y]) \in Nat
                                                  /\ Gap(at[x], at[y]) = Gap(at[y], at[x])
  BY DistanceType, GapType
<1>7. CASE IsDominated(e)
  <2>1. PICK r \in selected : Gap(at[e], at[r]) < Distance(e)
    BY <1>7 DEF IsDominated
  <2>2. Distance(r) <= Distance(e) /\ Gap(at[r], at[e]) < Distance(e)
    BY <1>3, <1>4, <1>5, <1>6, <2>1
  <2>3. \A x \in results \ (selected \cup candidates') :
          \E q \in selected : /\ Distance(q) <= Distance(x)
                              /\ Gap(at[q], at[x]) < Distance(x)
    BY <1>1, <1>3, <2>1, <2>2
  <2> QED
    BY <1>1, <1>2, <1>3, <1>7, <2>1, <2>3, GraphFixed DEF SelectInv
<1>8. CASE ~IsDominated(e)
  <2>1. selected' = selected \cup {e} /\ e \notin selected
    BY <1>1, <1>3, <1>4, <1>8
  <2>2. Cardinality(selected') <= Limit
    BY <1>2, <1>5, <2>1, FS_AddElement
  <2>3. \A r \in selected : Gap(at[e], at[r]) >= Distance(e)
    <3>1. \A r \in selected : ~(Gap(at[e], at[r]) < Distance(e))
      BY <1>8 DEF IsDominated
    <3>2. e \in Elements
      BY <1>4, <1>5
    <3> QED
      BY <1>5, <1>6, <3>1, <3>2
  <2>4. \A a, b \in selected' : a # b => Gap(at[a], at[b]) >= Distance(a)
    <3> SUFFICES ASSUME NEW a \in selected', NEW b \in selected', a # b
                 PROVE  Gap(at[a], at[b]) >= Distance(a)
      OBVIOUS
    <3>1. CASE b = e
      <4>1. /\ a \in selected /\ a \in Elements /\ e \in Elements
            /\ Distance(a) <= Distance(e) /\ Gap(at[e], at[a]) >= Distance(e)
        BY <1>3, <1>4, <1>5, <2>1, <2>3, <3>1
      <4>2. /\ Gap(at[a], at[e]) = Gap(at[e], at[a])
            /\ Gap(at[e], at[a]) \in Nat /\ Distance(a) \in Nat
            /\ Distance(e) \in Nat
        BY <1>6, <4>1
      <4> QED
        BY <3>1, <4>1, <4>2
    <3>2. CASE b # e
      BY <1>3, <2>1, <2>3, <3>2
    <3> QED
      BY <3>1, <3>2
  <2>5. \A r \in selected', c \in candidates' : Distance(r) <= Distance(c)
    BY <1>1, <1>3, <1>4, <2>1
  <2>6. \A x \in results \ (selected' \cup candidates') :
          \E q \in selected' : /\ Distance(q) <= Distance(x)
                               /\ Gap(at[q], at[x]) < Distance(x)
    BY <1>1, <1>3, <2>1
  <2> QED
    BY <1>1, <1>2, <1>3, <1>4, <2>1, <2>2, <2>4, <2>5, <2>6, GraphFixed
    DEF SelectInv
<1> QED
  BY <1>7, <1>8

LEMMA SelectStep ==
  ASSUME TypeOK, SearchInv, SelectInv, [Next]_vars
  PROVE  SelectInv'
<1>1. CASE Select
  BY <1>1, SelectPicks
<1>2. CASE BeginSelect
  <2>1. /\ UNCHANGED <<graph, results, selected>> /\ phase' = "select"
        /\ selected = {} /\ candidates' = results
    BY <1>2 DEF BeginSelect, SelectInv
  <2>2. Cardinality(selected') <= Limit'
    BY <2>1, CallOK, GraphFixed, FS_EmptySet
  <2> QED
    BY <2>1, <2>2, GraphFixed DEF SelectInv
<1>3. CASE EndSelect
  <2>1. /\ UNCHANGED <<graph, candidates, results, selected>>
        /\ phase = "select" /\ phase' = "selected"
        /\ candidates = {} \/ Cardinality(selected) >= Limit
    BY <1>3 DEF EndSelect
  <2>2. candidates = {} \/ Cardinality(selected) = Limit
    BY <2>1, CallOK, FiniteElements DEF TypeOK, SelectInv
  <2> QED
    BY <2>1, <2>2, GraphFixed DEF SelectInv
<1>4. CASE StopSearch \/ Expand \/ Consider \/ Exhaust \/ Begin \/ Advance \/ End
  <2>1. UNCHANGED selected /\ phase \notin {"select", "selected"}
        /\ phase' \notin {"select", "selected"}
    BY <1>4 DEF StopSearch, Expand, Consider, Exhaust, Begin, Advance, End,
                SearchInv, SeenOK
  <2> QED
    BY <2>1 DEF SelectInv
<1>5. CASE UNCHANGED vars
  <2>1. UNCHANGED <<graph, candidates, results, selected, phase>>
    BY <1>5 DEF vars, graph
  <2> QED
    BY <2>1, GraphFixed DEF SelectInv
<1> QED
  BY <1>1, <1>2, <1>3, <1>4, <1>5 DEF Next, Step

-------------------------------------------------------------------------------
(* The cursor.                                                             *)

\* A sequence of different members of a finite set, as long as it has members,
\* has them all.
LEMMA AllListed ==
  ASSUME NEW S, IsFiniteSet(S), NEW s \in [1 .. Cardinality(S) -> S],
         \A i, j \in 1 .. Cardinality(S) : i < j => s[i] # s[j]
  PROVE  \A e \in S : \E i \in 1 .. Cardinality(S) : s[i] = e
<1> DEFINE n == Cardinality(S)
<1>1. n \in Nat
  BY FS_CardinalityType
<1> HIDE DEF n
<1>2. s \in [1 .. n -> S] /\ \A i, j \in 1 .. n : i < j => s[i] # s[j]
  BY DEF n
<1>3. \A i, j \in 1 .. n : s[i] = s[j] => i = j
  BY <1>1, <1>2
<1>4. s \in Injection(1 .. n, S)
  BY <1>2, <1>3 DEF Injection, IsInjective
<1>5. Cardinality(1 .. n) = n
  BY <1>1, FS_Interval
<1>6. s \in Surjection(1 .. n, S)
  BY <1>4, <1>5, FS_Injection DEF n
<1> QED
  BY <1>6 DEF Surjection, n

LEMMA BeginRanked ==
  ASSUME TypeOK, NEW s \in AscendingResults, NEW k \in 1 .. call.ef
  PROVE  Ranked(SubSeq(s, 1, Min({k, Len(s)})))
<1> DEFINE n == Min({k, Len(s)})
           q == SubSeq(s, 1, n)
<1>1. /\ s \in Seq(results) /\ Len(s) = Cardinality(results)
      /\ n \in 0 .. Len(s) /\ Len(q) = n
      /\ \A i \in 1 .. n : q[i] = s[i]
  BY BeginResult
<1>2. IsFiniteSet(results) /\ Cardinality(results) \in Nat
  BY FiniteElements DEF TypeOK
<1>3. /\ s \in [1 .. Cardinality(results) -> results]
      /\ \A i, j \in 1 .. Cardinality(results) :
           i < j => s[i] # s[j] /\ Distance(s[i]) <= Distance(s[j])
  BY DEF AscendingResults
<1>4. \A e \in results : \E i \in 1 .. Cardinality(results) : s[i] = e
  BY <1>2, <1>3, AllListed
<1> HIDE DEF n
<1>5. n \in Nat /\ 1 .. n \subseteq 1 .. Cardinality(results)
  BY <1>1, <1>2
<1>6. \A i \in 1 .. n : q[i] \in results
  BY <1>1, <1>3, <1>5
<1>7. \A i, j \in 1 .. n :
        i < j => q[i] # q[j] /\ Distance(q[i]) <= Distance(q[j])
  BY <1>1, <1>3, <1>5
<1>8. ASSUME NEW e \in results, \A i \in 1 .. n : q[i] # e
      PROVE  \A i \in 1 .. n : Distance(q[i]) <= Distance(e)
  <2>1. PICK j \in 1 .. Cardinality(results) : s[j] = e
    BY <1>4
  <2>2. j > n
    BY <1>1, <1>2, <1>5, <1>8, <2>1
  <2> QED
    BY <1>1, <1>2, <1>3, <1>5, <2>1, <2>2
<1> HIDE DEF q
<1>9. Ranked(q)
  BY <1>1, <1>6, <1>7, <1>8 DEF Ranked
<1> QED
  BY <1>9 DEF q, n

LEMMA ScanStep ==
  ASSUME TypeOK, SearchInv, ScanInv, [Next]_vars
  PROVE  ScanInv'
<1> SUFFICES ASSUME phase' = "scan"
             PROVE  call.by' = "knn" /\ Ranked(nearest)'
  BY NextFixed, GraphFixed DEF ScanInv
<1>1. UNCHANGED graph
  BY NextFixed
<1>2. CASE Begin
  <2>1. PICK s \in AscendingResults, k \in 1 .. call.ef :
          nearest' = SubSeq(s, 1, Min({k, Len(s)}))
    BY <1>2 DEF Begin
  <2>2. Ranked(nearest')
    BY <2>1, BeginRanked
  <2> QED
    BY <1>1, <1>2, <2>2, GraphFixed DEF Begin, Ranked
<1>3. CASE ~Begin
  <2>1. UNCHANGED <<results, nearest>> /\ phase = "scan"
    BY <1>3 DEF Next, Step, vars, StopSearch, Expand, Consider, Exhaust,
                BeginSelect, Select, EndSelect, Advance, End, SearchInv, SeenOK
  <2> QED
    BY <1>1, <2>1, GraphFixed DEF ScanInv, Ranked
<1> QED
  BY <1>2, <1>3

-------------------------------------------------------------------------------
(* The theorems.                                                           *)

LEMMA LayerInvHolds == Spec => []LayerInv
<1>1. Init => LayerInv
  <2> SUFFICES ASSUME Init PROVE LayerInv
    OBVIOUS
  <2>1. SelectInv
    BY DEF Init, SelectInv
  <2>2. ScanInv
    <3>1. PICK out : call \in Calls(out)
      BY DEF Init
    <3>2. call.by = "knn" => call.query = Nil
      BY <3>1 DEF Calls
    <3> QED BY <3>2 DEF Init, ScanInv, QueryNode
  <2> QED
    BY <2>1, <2>2, TypeInit, SearchInit DEF LayerInv
<1>2. LayerInv /\ [Next]_vars => LayerInv'
  BY TypeStep, SearchStep, SelectStep, ScanStep DEF LayerInv
<1> QED
  BY <1>1, <1>2, PTL DEF Spec

\* Type correctness of a search and its consumers, for every graph.
THEOREM LayerTypeCorrect == Spec => []TypeOK
  BY LayerInvHolds, PTL DEF LayerInv

\* For every graph, every positions and every ef: a search, of insert and
\* remove or of search_knn (LayerOperations::search), returns nodes that can be reached from its entry
\* points, and fewer than ef only when these are all.  It is what GraphOperations
\* takes a search to be.
THEOREM SearchComplete == Spec => []SearchFinds
<1>1. LayerInv => SearchFinds
  <2> SUFFICES ASSUME LayerInv, call.by # "shrink", phase # "search"
               PROVE  results \in Found(nd, call.seeds, QueryNode, call.ef)
    BY DEF SearchFinds
  <2>1. TypeOK /\ SearchInv
    BY DEF LayerInv
  <2>2. /\ todo = {} /\ results \subseteq Reach
        /\ \A r \in results : nd[r].out \subseteq visited
        /\ Seeds \subseteq visited /\ visited \subseteq Reach \cup QueryNode
    BY <2>1 DEF SearchInv, SeenOK, ExpandedOK
  <2>3. Reach \in SUBSET Elements
    BY <2>1, CallOK, ReachableType DEF Reach
  <2>4. /\ IsFiniteSet(Reach) /\ Cardinality(Reach) \in Nat
        /\ Cardinality(results) \in Nat /\ Cardinality(Seeds) \in Nat
        /\ call.ef \in Nat
    BY <2>1, <2>3, CallOK, FiniteElements DEF TypeOK
  <2> DEFINE n == Max({call.ef, Cardinality(Seeds)})
  <2>5. n = IF call.ef >= Cardinality(Seeds) THEN call.ef ELSE Cardinality(Seeds)
    BY <2>4, MaxOfTwo
  <2>6. Cardinality(results) = Min({Cardinality(Reach), n})
    <3> HIDE DEF n
    <3>1. n \in Nat
      BY <2>4, <2>5
    <3>2. Cardinality(results) <= n
      BY <2>1, <2>4, <2>5 DEF SearchInv, SizeOK
    <3>3. CASE Cardinality(results) < call.ef
      <4>1. \A e \in visited \ QueryNode : e \in results
        BY <2>1, <2>2, <2>4, <3>3 DEF SearchInv, SettledOK, Settled
      <4>2. Closed(nd, QueryNode, results)
        BY <2>2, <4>1 DEF Closed
      <4>3. call.seeds \ QueryNode \subseteq results
        BY <2>2, <4>1 DEF Seeds
      <4>4. Reach \subseteq results
        BY <4>2, <4>3, ReachableWithin DEF Reach
      <4>5. results = Reach
        BY <2>2, <4>4
      <4>6. Cardinality(results) = Cardinality(Reach)
        BY <4>5
      <4> QED
        BY <2>4, <3>1, <3>2, <4>6, MinOfTwo
    <3>4. CASE ~(Cardinality(results) < call.ef)
      <4>1. Cardinality(results) >= n
        BY <2>1, <2>4, <2>5, <3>4 DEF SearchInv, SizeOK
      <4>2. Cardinality(results) <= Cardinality(Reach)
        BY <2>2, <2>4, FS_Subset
      <4> QED
        BY <2>4, <3>1, <3>2, <4>1, <4>2, MinOfTwo
    <3> QED
      BY <3>3, <3>4
  <2> QED
    BY <2>2, <2>6 DEF Found, Reach, Seeds
<1> QED
  BY <1>1, LayerInvHolds, PTL

\* For every graph: no result of a search links to a node that is nearer
\* than a result and was left out, and none that was left out with room for it.
\* Expand marks a whole list visited before it looks at distances, and search
\* stops at the first candidate beyond the results: neither loses a neighbour.
THEOREM SearchNearest == Spec => []LocallyNearest
<1>1. LayerInv => LocallyNearest
  <2> SUFFICES ASSUME LayerInv, call.by # "shrink", phase # "search",
                      NEW r \in results,
                      NEW e \in nd[r].out \ (results \cup QueryNode)
               PROVE  Settled(e)
    BY DEF LocallyNearest, Settled
  <2>1. nd[r].out \subseteq visited /\ todo = {}
    BY DEF LayerInv, SearchInv, SeenOK, ExpandedOK
  <2> QED
    BY <2>1 DEF LayerInv, SearchInv, SettledOK
<1> QED
  BY <1>1, LayerInvHolds, PTL

\* For every set of candidates: consume_heuristic selects some, at most Limit, no
\* two nearer to each other than to the query, and passes over a candidate only
\* for a nearer one that dominates it or for a full list of nearer ones.
THEOREM SelectionDiverse == Spec => []SelectionCovers
<1>1. LayerInv => SelectionCovers
  <2> SUFFICES ASSUME LayerInv, phase = "selected" PROVE SelectionCovers
    BY DEF SelectionCovers
  <2>1. /\ selected \cup candidates \subseteq results
        /\ Cardinality(selected) <= Limit /\ (selected = {} => candidates = results)
        /\ \A r \in selected, c \in candidates : Distance(r) <= Distance(c)
        /\ \A a, b \in selected : a # b => Gap(at[a], at[b]) >= Distance(a)
        /\ \A e \in results \ (selected \cup candidates) :
             \E r \in selected : /\ Distance(r) <= Distance(e)
                                 /\ Gap(at[r], at[e]) < Distance(e)
        /\ candidates = {} \/ Cardinality(selected) = Limit
    BY DEF LayerInv, SelectInv
  <2>2. Limit # 0 /\ Cardinality({}) = 0
    BY CallOK, FS_EmptySet DEF LayerInv
  <2>3. selected \in Selections(results, Limit)
    BY <2>1, <2>2 DEF Selections
  <2> QED
    BY <2>1, <2>3 DEF SelectionCovers
<1> QED
  BY <1>1, LayerInvHolds, PTL

\* For every graph and every k: the cursor of search_knn is at a different row in
\* every position, nearest first, and no row it has not come to is nearer than
\* the one it is at, be it a result or a neighbour of a row it has been at.
THEOREM ScanOrdered == Spec => []ScanInOrder
<1>1. LayerInv => ScanInOrder
  <2> SUFFICES ASSUME LayerInv, phase = "scan", pos # EOF_POS PROVE ScanInOrder
    BY DEF ScanInOrder
  <2> DEFINE seen == {nearest[i] : i \in 1 .. pos}
             q == [i \in 1 .. pos |-> nearest[i]]
  <2>1. /\ call.by = "knn" /\ nearest \in Seq(Elements)
        /\ pos \in 1 .. Len(nearest)
        /\ \A i \in 1 .. Len(nearest) : nearest[i] \in results
        /\ \A i, j \in 1 .. Len(nearest) :
             i < j => /\ nearest[i] # nearest[j]
                      /\ Distance(nearest[i]) <= Distance(nearest[j])
        /\ \A e \in results :
             \/ \E i \in 1 .. Len(nearest) : nearest[i] = e
             \/ \A i \in 1 .. Len(nearest) : Distance(nearest[i]) <= Distance(e)
    BY DEF LayerInv, TypeOK, ScanInv, Ranked, EOF_POS
  <2>2. pos \in Nat /\ 1 .. pos \subseteq 1 .. Len(nearest) /\ Len(nearest) \in Nat
    BY <2>1
  <2>3. Cardinality(seen) = pos
    <3>1. q \in [1 .. pos -> seen] /\ \A e \in seen : \E i \in 1 .. pos : q[i] = e
      OBVIOUS
    <3>2. \A i, j \in 1 .. pos : q[i] = q[j] => i = j
      BY <2>1, <2>2
    <3>3. q \in Bijection(1 .. pos, seen)
      BY <3>1, <3>2 DEF Bijection, Injection, Surjection, IsInjective
    <3> QED
      BY <2>2, <3>3, FS_CountingElements DEF ExistsBijection
  <2>4. ASSUME NEW e \in results \ seen
        PROVE  Distance(nearest[pos]) <= Distance(e)
    <3>1. CASE \E i \in 1 .. Len(nearest) : nearest[i] = e
      <4>1. PICK i \in 1 .. Len(nearest) : nearest[i] = e
        BY <3>1
      <4>2. pos < i
        BY <2>1, <2>2, <2>4, <4>1
      <4> QED
        BY <2>1, <4>1, <4>2
    <3> QED
      BY <2>1, <3>1
  <2>5. ASSUME NEW i \in 1 .. pos, NEW e \in nd[nearest[i]].out \ results
        PROVE  Distance(nearest[pos]) <= Distance(e)
    <3>1. nearest[i] \in results /\ nearest[pos] \in results
      BY <2>1, <2>2
    <3>2. nd[nearest[i]].out \subseteq visited /\ todo = {} /\ QueryNode = {}
      BY <2>1, <3>1 DEF LayerInv, SearchInv, SeenOK, ExpandedOK, ScanInv
    <3>3. Settled(e)
      BY <3>2 DEF LayerInv, SearchInv, SettledOK
    <3> QED
      BY <3>1, <3>3 DEF Settled
  <2>6. ASSUME NEW e \in (results \cup UNION {nd[r].out : r \in seen}) \ seen
        PROVE  Distance(nearest[pos]) <= Distance(e)
    <3>1. CASE e \in results
      BY <2>4, <3>1
    <3>2. CASE e \notin results
      <4>1. PICK i \in 1 .. pos : e \in nd[nearest[i]].out
        BY <3>2
      <4> QED BY <2>5, <3>2, <4>1
    <3> QED BY <3>1, <3>2
  <2> QED
    BY <2>3, <2>6 DEF ScanInOrder
<1> QED
  BY <1>1, LayerInvHolds, PTL
===============================================================================
