--------------------------- MODULE IndexGraphProofs ---------------------------
(***************************************************************************)
(* What the operators of IndexGraph return: the lemmas on which the proofs *)
(* about LayerOperations and GraphOperations rest.                         *)
(***************************************************************************)
EXTENDS IndexGraph, FiniteSetTheorems, FiniteInduction

LEMMA MinOfTwo ==
  ASSUME NEW a \in Int, NEW b \in Int
  PROVE  Min({a, b}) = IF a <= b THEN a ELSE b
<1>1. \E x \in {a, b} : \A y \in {a, b} : x <= y
  BY DEF Min
<1>2. Min({a, b}) \in {a, b} /\ \A y \in {a, b} : Min({a, b}) <= y
  BY <1>1 DEF Min
<1> QED
  BY <1>2

LEMMA MaxOfTwo ==
  ASSUME NEW a \in Int, NEW b \in Int
  PROVE  Max({a, b}) = IF a >= b THEN a ELSE b
<1>1. \E x \in {a, b} : \A y \in {a, b} : x >= y
  BY DEF Max
<1>2. Max({a, b}) \in {a, b} /\ \A y \in {a, b} : Max({a, b}) >= y
  BY <1>1 DEF Max
<1> QED
  BY <1>2

-------------------------------------------------------------------------------
(* Reachable.                                                              *)

\* One round of following links.
Follow(nd, S) == S \cup UNION {nd[y].out : y \in {z \in S : Exists(nd, z)}}

Round(nd, from, avoid, r, n) ==
  IF n = 0 THEN from \ avoid ELSE Follow(nd, r[n - 1]) \ avoid

\* r are the first n rounds.
AreRounds(nd, from, avoid, n, r) ==
  r = [k \in 0 .. n |-> Round(nd, from, avoid, r, k)]

Rounds(nd, from, avoid) ==
  CHOOSE r : AreRounds(nd, from, avoid, Cardinality(Elements), r)

LEMMA ReachableRounds ==
  ASSUME NEW nd, NEW from, NEW avoid
  PROVE  Reachable(nd, from, avoid)
           = Rounds(nd, from, avoid)[Cardinality(Elements)]
  BY DEF Reachable, Rounds, AreRounds, Round, Follow

LEMMA RoundsExist ==
  ASSUME NEW nd, NEW from, NEW avoid, NEW n \in Nat
  PROVE  \E r : AreRounds(nd, from, avoid, n, r)
<1> DEFINE P == {m \in Nat : \E r : AreRounds(nd, from, avoid, m, r)}
<1>1. 0 \in P
  <2> DEFINE r == [k \in 0 .. 0 |-> from \ avoid]
  <2>1. AreRounds(nd, from, avoid, 0, r)
    BY DEF AreRounds, Round
  <2> HIDE DEF r
  <2> QED
    BY <2>1
<1>2. ASSUME NEW m \in 0 .. n, m < n, m \in P
      PROVE  m + 1 \in P
  <2>1. PICK r : AreRounds(nd, from, avoid, m, r)
    BY <1>2
  <2> DEFINE q == [k \in 0 .. (m + 1) |->
                     IF k = m + 1 THEN Follow(nd, r[m]) \ avoid ELSE r[k]]
  <2>2. ASSUME NEW k \in 0 .. (m + 1)
        PROVE  q[k] = Round(nd, from, avoid, q, k)
    <3>1. CASE k = m + 1
      BY <3>1 DEF Round
    <3>2. CASE k = 0
      BY <2>1, <3>2 DEF AreRounds, Round
    <3>3. CASE k # m + 1 /\ k # 0
      <4>1. k \in 0 .. m /\ k - 1 \in 0 .. m /\ k - 1 # m + 1
        BY <3>3
      <4>2. q[k] = r[k] /\ q[k - 1] = r[k - 1]
        BY <3>3, <4>1
      <4>3. r[k] = Round(nd, from, avoid, r, k)
        BY <2>1, <4>1 DEF AreRounds
      <4> QED
        BY <3>3, <4>2, <4>3 DEF Round
    <3> QED
      BY <3>1, <3>2, <3>3
  <2>3. AreRounds(nd, from, avoid, m + 1, q)
    BY <2>2 DEF AreRounds
  <2>4. m + 1 \in Nat
    BY <1>2
  <2> HIDE DEF q
  <2> QED
    BY <2>3, <2>4
<1> HIDE DEF P
<1>3. n \in P
  BY <1>1, <1>2, InductionUpTo
<1> QED
  BY <1>3 DEF P

\* The rounds obey their definition.
LEMMA RoundsDef ==
  ASSUME NEW nd, NEW from, NEW avoid
  PROVE  LET r == Rounds(nd, from, avoid)
             N == Cardinality(Elements)
         IN  /\ N \in Nat
             /\ r[0] = from \ avoid
             /\ \A n \in 1 .. N : r[n] = Follow(nd, r[n - 1]) \ avoid
<1> DEFINE r == Rounds(nd, from, avoid)
           N == Cardinality(Elements)
<1>1. N \in Nat
  BY GraphAssumption, FS_CardinalityType
<1>2. AreRounds(nd, from, avoid, N, r)
  BY <1>1, RoundsExist, Zenon DEF Rounds
<1> HIDE DEF r, N
<1>3. \A n \in 0 .. N : r[n] = Round(nd, from, avoid, r, n)
  BY <1>2 DEF AreRounds
<1>4. r[0] = from \ avoid
  <2>1. r[0] = Round(nd, from, avoid, r, 0)
    BY <1>1, <1>3
  <2> QED
    BY <2>1, Zenon DEF Round
<1>5. ASSUME NEW n \in 1 .. N
      PROVE  r[n] = Follow(nd, r[n - 1]) \ avoid
  <2>1. n \in 0 .. N /\ n # 0
    BY <1>1
  <2>2. r[n] = Round(nd, from, avoid, r, n)
    BY <1>3, <2>1
  <2> QED
    BY <2>1, <2>2, Zenon DEF Round
<1> QED
  BY <1>1, <1>4, <1>5 DEF r, N

\* No link leads out of S, but to nodes in avoid.
Closed(nd, avoid, S) == \A y \in S : Exists(nd, y) => nd[y].out \ avoid \subseteq S

LevelType == [Elements -> NodeRec \cup {FreeNode}]

\* A search stays within what it starts from and no link leads out of.
LEMMA ReachableWithin ==
  ASSUME NEW nd, NEW from, NEW avoid, NEW C,
         from \ avoid \subseteq C, Closed(nd, avoid, C)
  PROVE  Reachable(nd, from, avoid) \subseteq C
<1> DEFINE r == Rounds(nd, from, avoid)
           N == Cardinality(Elements)
           P == {n \in Nat : r[n] \subseteq C}
<1>1. /\ N \in Nat /\ r[0] = from \ avoid
      /\ \A n \in 1 .. N : r[n] = Follow(nd, r[n - 1]) \ avoid
  BY RoundsDef
<1> HIDE DEF r, N
<1>2. 0 \in P
  BY <1>1
<1>3. ASSUME NEW k \in 0 .. N, k < N, k \in P
      PROVE  k + 1 \in P
  <2>1. k + 1 \in 1 .. N /\ (k + 1) - 1 = k /\ k + 1 \in Nat
    BY <1>1, <1>3
  <2>2. r[k + 1] = Follow(nd, r[k]) \ avoid
    BY <1>1, <2>1
  <2>3. Follow(nd, r[k]) \ avoid \subseteq C
    BY <1>3 DEF Follow, Closed
  <2> QED
    BY <2>1, <2>2, <2>3
<1>4. N \in P
  <2> HIDE DEF P
  <2>1. \A k \in 0 .. N : k \in P
    <3>1. \A k \in 0 .. N : k < N /\ k \in P => k + 1 \in P
      BY <1>3
    <3> QED
      BY <1>1, <1>2, <3>1, InductionUpTo
  <2> QED
    BY <1>1, <2>1
<1> QED
  BY <1>4, ReachableRounds DEF r, N

\* A search reaches nodes only.
LEMMA ReachableType ==
  ASSUME NEW nd \in LevelType, NEW from \in SUBSET Elements, NEW avoid
  PROVE  Reachable(nd, from, avoid) \subseteq Elements
<1>1. Closed(nd, avoid, Elements)
  BY DEF Closed, LevelType, Exists, NodeRec
<1> QED
  BY <1>1, ReachableWithin

\* As many rounds as there are elements are enough: what is found is what can be
\* reached along links.
LEMMA ReachableClosed ==
  ASSUME NEW nd \in LevelType, NEW from \in SUBSET Elements, NEW avoid
  PROVE  /\ from \ avoid \subseteq Reachable(nd, from, avoid)
         /\ Closed(nd, avoid, Reachable(nd, from, avoid))
         /\ Reachable(nd, from, avoid) \cap avoid = {}
<1> DEFINE r == Rounds(nd, from, avoid)
           N == Cardinality(Elements)
           P == {n \in Nat : /\ r[n] \subseteq Elements
                             /\ from \ avoid \subseteq r[n]
                             /\ r[n] \cap avoid = {}
                             /\ Closed(nd, avoid, r[n]) \/ Cardinality(r[n]) >= n}
<1>1. /\ N \in Nat /\ r[0] = from \ avoid
      /\ \A n \in 1 .. N : r[n] = Follow(nd, r[n - 1]) \ avoid
  BY RoundsDef
<1>2. IsFiniteSet(Elements)
  BY GraphAssumption
<1>3. \A y \in Elements : Exists(nd, y) => nd[y].out \subseteq Elements
  BY DEF LevelType, Exists, NodeRec
<1> HIDE DEF r
<1>4. ASSUME NEW S \in SUBSET Elements
      PROVE  IsFiniteSet(S) /\ Cardinality(S) \in Nat
  BY <1>2, FS_Subset, FS_CardinalityType
<1> HIDE DEF N
<1>5. 0 \in P
  <2>1. r[0] \in SUBSET Elements
    BY <1>1
  <2>2. Cardinality(r[0]) >= 0
    BY <1>4, <2>1
  <2> QED
    BY <1>1, <2>1, <2>2
<1>6. ASSUME NEW k \in 0 .. N, k < N, k \in P
      PROVE  k + 1 \in P
  <2>1. k + 1 \in 1 .. N /\ (k + 1) - 1 = k /\ k + 1 \in Nat
    BY <1>1, <1>6
  <2>2. r[k + 1] = Follow(nd, r[k]) \ avoid
    BY <1>1, <2>1
  <2>3. /\ r[k + 1] \subseteq Elements /\ from \ avoid \subseteq r[k + 1]
        /\ r[k + 1] \cap avoid = {} /\ r[k] \subseteq r[k + 1]
    BY <1>3, <1>6, <2>2 DEF Follow
  <2>4. CASE Closed(nd, avoid, r[k])
    <3>1. r[k + 1] = r[k]
      BY <1>6, <2>2, <2>4 DEF Follow, Closed
    <3> QED
      BY <2>1, <2>3, <2>4, <3>1
  <2>5. CASE ~Closed(nd, avoid, r[k])
    <3>1. r[k + 1] # r[k]
      BY <2>2, <2>5 DEF Follow, Closed
    <3>2. Cardinality(r[k]) >= k
      BY <1>6, <2>5
    <3>3. /\ IsFiniteSet(r[k + 1])
          /\ Cardinality(r[k]) \in Nat /\ Cardinality(r[k + 1]) \in Nat
      BY <1>4, <1>6, <2>3
    <3>4. Cardinality(r[k]) <= Cardinality(r[k + 1])
          /\ Cardinality(r[k + 1]) # Cardinality(r[k])
      BY <2>3, <3>1, <3>3, FS_Subset
    <3>5. Cardinality(r[k + 1]) >= k + 1
      BY <1>6, <3>2, <3>3, <3>4
    <3> QED
      BY <2>1, <2>3, <3>5
  <2> QED
    BY <2>4, <2>5
<1>7. N \in P
  <2> HIDE DEF P
  <2> QED
    BY <1>1, <1>5, <1>6, InductionUpTo
<1>8. Closed(nd, avoid, r[N])
  <2> SUFFICES ASSUME Cardinality(r[N]) >= N PROVE Closed(nd, avoid, r[N])
    BY <1>7
  <2>1. r[N] \in SUBSET Elements
    BY <1>7
  <2>2. Cardinality(r[N]) \in Nat /\ Cardinality(r[N]) <= Cardinality(Elements)
    BY <1>2, <1>4, <2>1, FS_Subset
  <2>3. Cardinality(r[N]) = Cardinality(Elements)
    BY <1>1, <2>2 DEF N
  <2>4. r[N] = Elements
    BY <1>2, <2>1, <2>3, FS_Subset
  <2> QED
    BY <1>3, <2>4 DEF Closed
<1>9. Reachable(nd, from, avoid) = r[N]
  BY ReachableRounds DEF r, N
<1> QED
  BY <1>7, <1>8, <1>9

LEMMA SelectionsWithin ==
  ASSUME NEW S, NEW n, NEW T \in Selections(S, n)
  PROVE  T \subseteq S /\ (S # {} => T # {})
  BY DEF Selections

LEMMA FoundWithin ==
  ASSUME NEW nd, NEW seeds, NEW avoid, NEW ef, NEW W \in Found(nd, seeds, avoid, ef)
  PROVE  W \subseteq Reachable(nd, seeds, avoid)
  BY DEF Found

-------------------------------------------------------------------------------
(* Records.                                                                *)

LEMMA NewNodeType ==
  ASSUME NEW S \in SUBSET Elements
  PROVE  NewNode(S) \in NodeRec
  BY DEF NewNode, NodeRec

LEMMA LinkBackType ==
  ASSUME NEW rec \in NodeRec, NEW l, NEW x \in Elements
  PROVE  /\ LinkBack(rec, l, x) \in NodeRec
         /\ LinkBack(rec, l, x).inc = rec.inc
         /\ LinkBack(rec, l, x).lower = rec.lower
         /\ LinkBack(rec, l, x).marked = rec.marked
         /\ \/ /\ HasRoom(rec, l)
               /\ LinkBack(rec, l, x).out = rec.out \cup {x}
               /\ LinkBack(rec, l, x).ovf = rec.ovf
            \/ /\ ~HasRoom(rec, l)
               /\ LinkBack(rec, l, x).out = rec.out
               /\ LinkBack(rec, l, x).ovf = rec.ovf \cup {x}
  BY DEF LinkBack, NodeRec

LEMMA ConfirmLinksType ==
  ASSUME NEW rec \in NodeRec
  PROVE  /\ ConfirmLinks(rec) \in NodeRec
         /\ ConfirmLinks(rec).out = rec.out \cup rec.inc
         /\ ConfirmLinks(rec).inc = {}
         /\ ConfirmLinks(rec).ovf = rec.ovf
         /\ ConfirmLinks(rec).lower = rec.lower
         /\ ConfirmLinks(rec).marked = rec.marked
  BY DEF ConfirmLinks, NodeRec

LEMMA ForgetLinkType ==
  ASSUME NEW rec \in NodeRec, NEW x
  PROVE  /\ ForgetLink(rec, x) \in NodeRec
         /\ ForgetLink(rec, x).out = rec.out
         /\ ForgetLink(rec, x).lower = rec.lower
         /\ ForgetLink(rec, x).marked = rec.marked
         /\ ForgetLink(rec, x).inc = rec.inc \ {x}
         /\ ForgetLink(rec, x).ovf = IF x \in rec.inc THEN rec.ovf ELSE rec.ovf \ {x}
  BY DEF ForgetLink, NodeRec

LEMMA SeverLinkType ==
  ASSUME NEW rec \in NodeRec, NEW x
  PROVE  /\ SeverLink(rec, x) \in NodeRec
         /\ SeverLink(rec, x).out = rec.out \ {x}
         /\ SeverLink(rec, x).inc = rec.inc \ {x}
         /\ SeverLink(rec, x).lower = rec.lower
         /\ SeverLink(rec, x).marked = rec.marked
         /\ SeverLink(rec, x).ovf = IF x \in Primary(rec) THEN rec.ovf
                                                          ELSE rec.ovf \ {x}
  BY DEF SeverLink, NodeRec, Primary

LEMMA NodeOfLevel ==
  ASSUME NEW nd \in LevelType, NEW x \in Elements
  PROVE  /\ Exists(nd, x) => nd[x] \in NodeRec
         /\ nd[x] \in NodeRec => Exists(nd, x)
  BY NodeAssumption DEF LevelType, Exists

\* replace_neighbours keeps the nodes, their marks and their lower levels.
LEMMA ReplaceType ==
  ASSUME NEW nd \in LevelType, NEW l, NEW x \in Elements, Exists(nd, x),
         NEW new \in SUBSET Elements
  PROVE  LET q == ReplaceNeighbours(nd, l, x, new)
         IN  /\ q \in LevelType
             /\ \A y \in Elements : Exists(q, y) <=> Exists(nd, y)
             /\ \A y \in Elements : Exists(nd, y) =>
                  q[y].lower = nd[y].lower /\ q[y].marked = nd[y].marked
<1> DEFINE q == ReplaceNeighbours(nd, l, x, new)
           dropped == Primary(nd[x]) \ new
           kept == {d \in dropped : LinksTo(nd, d, x)}
<1>1. nd[x] \in NodeRec /\ kept \in SUBSET Elements
  BY NodeOfLevel DEF NodeRec, Primary
<1>2. q[x] = [nd[x] EXCEPT !.out = new, !.inc = {},
                !.ovf = (nd[x].ovf \ Promoted(nd, x, new)) \cup kept]
  BY DEF ReplaceNeighbours
<1>3. q[x] \in NodeRec /\ q[x].lower = nd[x].lower /\ q[x].marked = nd[x].marked
  <2> HIDE DEF kept, q
  <2> QED
    BY <1>1, <1>2 DEF NodeRec
<1>4. ASSUME NEW y \in Elements, y # x
      PROVE  /\ ~Exists(nd, y) => q[y] = nd[y]
             /\ Exists(nd, y) => /\ q[y] \in NodeRec /\ q[y].lower = nd[y].lower
                                /\ q[y].marked = nd[y].marked
  <2>1. q[y] = IF ~Exists(nd, y) THEN nd[y]
               ELSE IF y \in dropped \ kept THEN ForgetLink(nd[y], x)
               ELSE IF y \in ToLink(nd, x, new) THEN LinkBack(nd[y], l, x)
               ELSE nd[y]
    BY <1>4 DEF ReplaceNeighbours
  <2> HIDE DEF dropped, kept, q
  <2>2. Exists(nd, y) => nd[y] \in NodeRec
    BY NodeOfLevel
  <2> QED
    <3>1. CASE ~Exists(nd, y) \/ q[y] = nd[y]
      BY <2>1, <2>2, <3>1
    <3>2. CASE Exists(nd, y) /\ q[y] = ForgetLink(nd[y], x)
      <4>1. /\ ForgetLink(nd[y], x) \in NodeRec
            /\ ForgetLink(nd[y], x).lower = nd[y].lower
            /\ ForgetLink(nd[y], x).marked = nd[y].marked
        BY <2>2, <3>2, ForgetLinkType
      <4> QED
        BY <3>2, <4>1
    <3>3. CASE Exists(nd, y) /\ q[y] = LinkBack(nd[y], l, x)
      <4>1. /\ LinkBack(nd[y], l, x) \in NodeRec
            /\ LinkBack(nd[y], l, x).lower = nd[y].lower
            /\ LinkBack(nd[y], l, x).marked = nd[y].marked
        BY <2>2, <3>3, LinkBackType
      <4> QED
        BY <3>3, <4>1
    <3> QED
      BY <2>1, <3>1, <3>2, <3>3
<1>5. q = [y \in Elements |-> q[y]]
  BY DEF ReplaceNeighbours
<1> HIDE DEF q
<1>6. ASSUME NEW y \in Elements
      PROVE  /\ q[y] \in NodeRec \cup {FreeNode}
             /\ Exists(q, y) <=> Exists(nd, y)
             /\ Exists(nd, y) => /\ q[y].lower = nd[y].lower
                                /\ q[y].marked = nd[y].marked
  BY <1>3, <1>4, NodeAssumption DEF Exists, LevelType
<1>7. q \in LevelType
  BY <1>5, <1>6 DEF LevelType
<1> QED
  BY <1>6, <1>7 DEF q

LEMMA SeveredType ==
  ASSUME NEW nd \in LevelType, NEW x \in Elements, Exists(nd, x)
  PROVE  /\ Severed(nd, x) \subseteq Elements
         /\ Orphaned(nd, x) \subseteq Severed(nd, x)
         /\ \A y \in Severed(nd, x) : Exists(nd, y)
  BY NodeOfLevel DEF Severed, Orphaned, Recorded, NodeRec

LEMMA UnlinkType ==
  ASSUME NEW nd \in LevelType, NEW x \in Elements, Exists(nd, x)
  PROVE  LET q == UnlinkNeighbours(nd, x)
         IN  /\ q \in LevelType
             /\ \A y \in Elements : Exists(q, y) <=> Exists(nd, y)
             /\ \A y \in Elements : Exists(nd, y) =>
                  q[y].lower = nd[y].lower /\ q[y].marked = nd[y].marked
             /\ IncomingNeighbours(q[x]) \subseteq Orphaned(nd, x)
<1> DEFINE q == UnlinkNeighbours(nd, x)
<1>1. nd[x] \in NodeRec
  BY NodeOfLevel
<1>2. q[x] = [nd[x] EXCEPT !.out = {},
                           !.inc = Primary(nd[x]) \cap Orphaned(nd, x),
                           !.ovf = nd[x].ovf \cap Orphaned(nd, x)]
  BY DEF UnlinkNeighbours
<1>3. \A y \in Elements : y # x =>
        q[y] = IF y \in Severed(nd, x) THEN SeverLink(nd[y], x) ELSE nd[y]
  BY DEF UnlinkNeighbours
<1>4. q = [y \in Elements |-> q[y]]
  BY DEF UnlinkNeighbours
<1> HIDE DEF q
<1>5. /\ q[x] \in NodeRec /\ q[x].lower = nd[x].lower /\ q[x].marked = nd[x].marked
      /\ IncomingNeighbours(q[x]) \subseteq Orphaned(nd, x)
  BY <1>1, <1>2, SeveredType DEF NodeRec, Primary, IncomingNeighbours
<1>6. ASSUME NEW y \in Elements, y # x
      PROVE  /\ ~Exists(nd, y) => q[y] = nd[y]
             /\ Exists(nd, y) => /\ q[y] \in NodeRec /\ q[y].lower = nd[y].lower
                                /\ q[y].marked = nd[y].marked
  <2>1. Exists(nd, y) => nd[y] \in NodeRec
    BY NodeOfLevel
  <2>2. ~Exists(nd, y) => y \notin Severed(nd, x)
    BY SeveredType
  <2> QED
    <3>1. CASE y \in Severed(nd, x)
      <4>1. q[y] = SeverLink(nd[y], x) /\ nd[y] \in NodeRec /\ Exists(nd, y)
        BY <1>3, <1>6, <2>1, <2>2, <3>1
      <4>2. /\ SeverLink(nd[y], x) \in NodeRec
            /\ SeverLink(nd[y], x).lower = nd[y].lower
            /\ SeverLink(nd[y], x).marked = nd[y].marked
        BY <4>1, SeverLinkType
      <4> QED
        BY <4>1, <4>2
    <3>2. CASE y \notin Severed(nd, x)
      BY <1>3, <1>6, <2>1, <3>2
    <3> QED
      BY <3>1, <3>2
<1>7. ASSUME NEW y \in Elements
      PROVE  /\ q[y] \in NodeRec \cup {FreeNode}
             /\ Exists(q, y) <=> Exists(nd, y)
             /\ Exists(nd, y) => /\ q[y].lower = nd[y].lower
                                /\ q[y].marked = nd[y].marked
  BY <1>5, <1>6, NodeAssumption DEF Exists, LevelType
<1>8. q \in LevelType
  BY <1>4, <1>7 DEF LevelType
<1> QED
  BY <1>5, <1>7, <1>8 DEF q

LEMMA UnlinkedWithin ==
  ASSUME NEW nd, NEW l, NEW x, NEW U \in Unlinked(nd, l, x)
  PROVE  /\ U \subseteq Severed(nd, x) \ Orphaned(nd, x)
         /\ \A f \in Front(nd, x, U) : f \in U \/ (f = Nil /\ U = {})
  BY DEF Unlinked, Front
===============================================================================
