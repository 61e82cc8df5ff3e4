---------------------------- MODULE GraphLinkProofs ----------------------------
(***************************************************************************)
(* Proofs about the links of GraphOperations, for every number of threads, *)
(* elements and levels: the target of a link records it, a neighbour links *)
(* back once, what can be reached has its whole chain, and no call meets a *)
(* freed node.                                                             *)
(***************************************************************************)
EXTENDS GraphOperationsProofs

-------------------------------------------------------------------------------
(* The invariant.                                                          *)

\* The node on level l of the element that a call at p works on is not linked
\* yet, or no longer.
Detached(p, L, l) ==
  \/ p \in InsertPcs \ CreatedPcs
  \/ p \in CreatedPcs /\ L.level < l
  \/ p = "ins_link" /\ L.level = l
  \/ p = "rem_lock" /\ L.level < l
  \/ p \in RepairPcs /\ L.level <= l
  \/ p \in {"rem_relock", "rem_drop", "rem_done"}

\* The elements whose node on a level is linked: those a link may name.
Linked ==
  [l \in Levels |->
     {x \in Elements :
        /\ Exists(nodes[l], x)
        /\ \A t \in Threads : loc[t].e = x => ~Detached(pc[t], loc[t], l)}]

\* The elements whose links on a level are being made.
BeingLinked ==
  [l \in Levels |->
     {x \in Elements : \E t \in Threads : Linking(t, l) /\ loc[t].e = x}]

\* The links of the linked nodes A of a level stay among them, and each has its
\* record at the other end: a link in the list or the chain, an entry of the
\* chain in the list.
LevelLinks(nd, A) ==
  \A a \in A :
    /\ Recorded(nd[a]) \subseteq A \ {a}
    /\ Primary(nd[a]) \cap nd[a].ovf = {}
    /\ \A b \in nd[a].out : a \in Recorded(nd[b])
    /\ \A b \in nd[a].ovf : a \in Primary(nd[b])

\* Other nodes have no links, and incoming ones are those of a node in E whose
\* links are being made.
LevelOK(nd, A, E) ==
  /\ LevelLinks(nd, A)
  /\ \A a \in Elements \ A : Exists(nd, a) => nd[a].out = {}
  /\ \A a \in A : nd[a].inc # {} => a \in E

\* The links of every level.
LevelsOK == \A l \in Levels : LevelOK(nodes[l], Linked[l], BeingLinked[l])

\* The level of the candidates, and where a call has some.
CandAt(L) == IF L.level <= L.elevel THEN L.level ELSE L.elevel

CandPcs == {"ins_upgrade", "ins_lock", "ins_search", "ins_descend", "ins_create",
            "ins_keep"} \cup KnnPcs

\* The candidates are linked on a level that is locked, or are the entry point.
SearchOK(p, L, H, A, en, el) ==
  /\ L.cand # {} => p \in CandPcs \/ (p = "ins_link" /\ L.level = 0)
  /\ p # "ins_upgrade" =>
       \A x \in L.cand : /\ x \in A[CandAt(L)]
                         /\ H[CandAt(L)] # "none" \/ (x = en /\ CandAt(L) = el)
  /\ p \in {"ins_search", "ins_descend"} \cup KnnPcs => L.level <= L.elevel
  /\ p = "ins_lock" /\ L.level > L.top => L.level <= L.elevel
  /\ p \in FromPcs => H[L.level] # "none"

\* An insert holds every level it has a node on.  The node records the
\* neighbours it will have, and nothing else before it is linked.
NewOK(p, L, H, nds, A) ==
  /\ p = "ins_done" => L.level = L.top
  /\ p \in InsertPcs => \A k \in Levels : Exists(nds[k], L.e) =>
       /\ H[k] # "none" /\ k <= L.top
       /\ p \in CreatedPcs \cup {"ins_create", "ins_keep"}
       /\ p = "ins_create" => k > L.level
       /\ p = "ins_keep" => k >= L.level
       /\ Detached(p, L, k) =>
            /\ nds[k][L.e].out = {} /\ nds[k][L.e].ovf = {}
            /\ nds[k][L.e].inc \subseteq A[k]

\* The neighbours that have yet to link back have no record of the new node;
\* the others have one.
PendOK(p, L, nds) ==
  p = "ins_linking" =>
    LET nd == nds[L.level]
    IN  /\ L.pend \subseteq nd[L.e].inc
        /\ \A b \in L.pend : L.e \notin Recorded(nd[b])
        /\ \A b \in nd[L.e].inc \ L.pend : L.e \in nd[b].out \cup nd[b].ovf

\* What a call will replace or attach links of is linked.
ShrinkOK(p, L, A) ==
  /\ p \in InsertPcs \ ShrinkPcs => L.over = {}
  /\ p \in ShrinkPcs => L.over \cup {L.link} \subseteq A[L.level]
  /\ p \in {"ins_replace", "rem_replace"} =>
       L.shrink \in A[L.level] /\ L.shrunk \subseteq A[L.level] \ {L.shrink}
  /\ p \in RepairPcs => L.unl \cup L.orph \subseteq A[L.level]

\* A remove frees its nodes from the bottom, and knows whether its element is
\* the entry point.
RemovalOK(p, L, nds, A, en) ==
  /\ p = "rem_drop" => \A k \in Levels : Exists(nds[k], L.e) => k >= L.level
  /\ p = "rem_done" => \A k \in Levels : ~Exists(nds[k], L.e)
  /\ p = "rem_upgrade" => L.repl = Nil /\ L.level = L.top
  /\ p \in RemovePcs \ {"rem_upgrade"} /\ L.e = en => L.newEp
  /\ p \in RemovePcs /\ L.newEp /\ L.repl # Nil =>
       L.repl \in A[L.rlevel] /\ L.repl # L.e

\* What the place and the locals of a call promise about the links.
CallLinks(p, L, H, nds, A, en, el) ==
  /\ SearchOK(p, L, H, A, en, el)
  /\ NewOK(p, L, H, nds, A)
  /\ PendOK(p, L, nds)
  /\ ShrinkOK(p, L, A)
  /\ RemovalOK(p, L, nds, A, en)

\* The call cuts its element's chain above its node on level k.
Cut(p, L, k) ==
  \/ p = "ins_create" /\ k = L.level + 1
  \/ p = "ins_keep" /\ k = L.level
  \/ p = "rem_drop"

\* A node above the level of the element's handle is one of an insert, and only
\* a call on the element leaves a node without its lower level.
ElementsOK ==
  \A x \in Elements, k \in Levels : Exists(nodes[k], x) =>
    /\ k <= handle[x] \/ \E t \in Threads : loc[t].e = x /\ pc[t] \in InsertPcs
    /\ k > 0 /\ ~nodes[k][x].lower =>
         \E t \in Threads : loc[t].e = x /\ Cut(pc[t], loc[t], k)

\* The entry point is on the highest level of its element.
EntryAtTop == entry # Nil => entryLevel = handle[entry]

\* The inductive invariant on the links.
LinkInv ==
  /\ \A t \in Threads :
       CallLinks(pc[t], loc[t], held[t], nodes, Linked, entry, entryLevel)
  /\ LevelsOK
  /\ ElementsOK
  /\ EntryAtTop

\* What the links are as long as every replacement of the entry point has been
\* entered at its element's highest level.
LinksHold == ~strayed => LinkInv

-------------------------------------------------------------------------------
(* One level.                                                              *)

\* The nodes A of a level exist.
Live(nd, A) == A \subseteq Elements /\ \A a \in A : Exists(nd, a)

\* No link of the nodes A is flagged incoming.
Settled(nd, A) == \A a \in A : nd[a].inc = {}

\* Two records with the same links.
SameLinks(r, s) == r.out = s.out /\ r.inc = s.inc /\ r.ovf = s.ovf

\* A node that is there has a record, and its links name elements.
LEMMA LiveRecord ==
  ASSUME NEW nd \in LevelType, NEW A, Live(nd, A), NEW a \in A
  PROVE  /\ a \in Elements /\ nd[a] \in NodeRec
         /\ nd[a].out \subseteq Elements /\ nd[a].inc \subseteq Elements
         /\ nd[a].ovf \subseteq Elements
<1>1. a \in Elements /\ nd[a] \in NodeRec
  BY NodeOfLevel DEF Live
<1> QED BY <1>1 DEF NodeRec

\* The links of a level that is settled: mutual, in the list or the chain.
LEMMA SettledLinks ==
  ASSUME NEW nd, NEW A, LevelLinks(nd, A), Settled(nd, A), NEW a \in A
  PROVE  /\ nd[a].out \subseteq A \ {a} /\ nd[a].ovf \subseteq A \ {a}
         /\ nd[a].inc = {} /\ nd[a].out \cap nd[a].ovf = {}
         /\ \A b \in nd[a].out : a \in nd[b].out \cup nd[b].ovf
         /\ \A b \in nd[a].ovf : a \in nd[b].out
<1>1. /\ Recorded(nd[a]) \subseteq A \ {a} /\ Primary(nd[a]) \cap nd[a].ovf = {}
      /\ \A b \in nd[a].out : a \in Recorded(nd[b])
      /\ \A b \in nd[a].ovf : a \in Primary(nd[b])
  BY DEF LevelLinks
<1>2. nd[a].inc = {} /\ \A b \in A : nd[b].inc = {}
  BY DEF Settled
<1>3. nd[a].out \subseteq A \ {a} /\ nd[a].ovf \subseteq A \ {a}
  BY <1>1 DEF Recorded
<1> QED BY <1>1, <1>2, <1>3 DEF Recorded, Primary

\* The same facts are enough.
LEMMA LinksSettled ==
  ASSUME NEW nd, NEW A,
         \A a \in A :
           /\ nd[a].out \subseteq A \ {a} /\ nd[a].ovf \subseteq A \ {a}
           /\ nd[a].inc = {} /\ nd[a].out \cap nd[a].ovf = {}
           /\ \A b \in nd[a].out : a \in nd[b].out \cup nd[b].ovf
           /\ \A b \in nd[a].ovf : a \in nd[b].out
  PROVE  LevelLinks(nd, A) /\ Settled(nd, A)
  BY DEF LevelLinks, Settled, Recorded, Primary

\* replace_neighbours on a settled level, record by record: x keeps in its chain
\* those that still link to it, the others forget it or link back.
ReplacedBy(nd, A, x, new, q) ==
  LET kept == {d \in nd[x].out \ new : x \in nd[d].out}
      far  == (nd[x].out \ new) \ kept
      back == new \ (nd[x].out \cup nd[x].ovf)
      IN  /\ q[x].out = new /\ q[x].inc = {}
          /\ q[x].ovf = (nd[x].ovf \ new) \cup kept
          /\ \A y \in A \ {x} :
               /\ q[y].inc = {}
               /\ y \in far => q[y].out = nd[y].out /\ q[y].ovf = nd[y].ovf \ {x}
               /\ y \in back =>
                    \/ q[y].out = nd[y].out \cup {x} /\ q[y].ovf = nd[y].ovf
                    \/ q[y].out = nd[y].out /\ q[y].ovf = nd[y].ovf \cup {x}
               /\ y \notin far \cup back =>
                    q[y].out = nd[y].out /\ q[y].ovf = nd[y].ovf
          /\ \A y \in Elements \ A : q[y] = nd[y]

\* What replace_neighbours writes on a level where no links are being made.
LEMMA ReplaceRecords ==
  ASSUME NEW nd \in LevelType, NEW A, Live(nd, A), LevelLinks(nd, A),
         Settled(nd, A), NEW l, NEW x \in A, NEW new \in SUBSET (A \ {x})
  PROVE  ReplacedBy(nd, A, x, new, ReplaceNeighbours(nd, l, x, new))
<1> DEFINE q == ReplaceNeighbours(nd, l, x, new)
           kept == {d \in nd[x].out \ new : x \in nd[d].out}
           far  == (nd[x].out \ new) \ kept
           back == new \ (nd[x].out \cup nd[x].ovf)
           dropped == Primary(nd[x]) \ new
           K == {d \in dropped : LinksTo(nd, d, x)}
<1>1. /\ nd[x].out \subseteq A \ {x} /\ nd[x].ovf \subseteq A \ {x}
      /\ nd[x].inc = {} /\ nd[x].out \cap nd[x].ovf = {}
  BY SettledLinks
<1>2. x \in Elements /\ nd[x] \in NodeRec /\ A \subseteq Elements
      /\ \A a \in A : Exists(nd, a)
  BY LiveRecord DEF Live
<1>3. dropped = nd[x].out \ new
  BY <1>1 DEF Primary
<1>4. K = kept
  BY <1>1, <1>2, <1>3 DEF LinksTo
<1>5. Promoted(nd, x, new) = new \cap nd[x].ovf
  BY <1>1 DEF Promoted, Primary
<1>6. ToLink(nd, x, new) = back
  BY <1>5 DEF ToLink
<1>7. q[x] = [nd[x] EXCEPT !.out = new, !.inc = {},
                !.ovf = (nd[x].ovf \ Promoted(nd, x, new)) \cup K]
  BY <1>2 DEF ReplaceNeighbours
<1>8. \A y \in Elements \ {x} :
        q[y] = IF ~Exists(nd, y) THEN nd[y]
               ELSE IF y \in dropped \ K THEN ForgetLink(nd[y], x)
               ELSE IF y \in ToLink(nd, x, new) THEN LinkBack(nd[y], l, x)
               ELSE nd[y]
  BY DEF ReplaceNeighbours
<1>9. far \subseteq A \ {x} /\ back \subseteq A \ {x} /\ far = dropped \ K
      /\ far \cap back = {}
  BY <1>1, <1>3, <1>4
<1> HIDE DEF q, kept, far, back, dropped, K
<1>10. q[x].out = new /\ q[x].inc = {} /\ q[x].ovf = (nd[x].ovf \ new) \cup kept
  <2>1. q[x].out = new /\ q[x].inc = {}
        /\ q[x].ovf = (nd[x].ovf \ Promoted(nd, x, new)) \cup K
    BY <1>2, <1>7 DEF NodeRec
  <2> QED BY <2>1, <1>4, <1>5
<1>11. ASSUME NEW y \in A \ {x}
       PROVE  /\ q[y].inc = {}
              /\ y \in far => q[y].out = nd[y].out /\ q[y].ovf = nd[y].ovf \ {x}
              /\ y \in back =>
                   \/ q[y].out = nd[y].out \cup {x} /\ q[y].ovf = nd[y].ovf
                   \/ q[y].out = nd[y].out /\ q[y].ovf = nd[y].ovf \cup {x}
              /\ y \notin far \cup back =>
                   q[y].out = nd[y].out /\ q[y].ovf = nd[y].ovf
  <2>1. nd[y].inc = {} /\ nd[y] \in NodeRec /\ y \in Elements /\ Exists(nd, y)
    BY LiveRecord DEF Settled, Live
  <2>2. q[y] = IF y \in far THEN ForgetLink(nd[y], x)
               ELSE IF y \in back THEN LinkBack(nd[y], l, x) ELSE nd[y]
    BY <1>6, <1>8, <1>9, <2>1
  <2>3. CASE y \in far
    <3>1. /\ ForgetLink(nd[y], x).out = nd[y].out
          /\ ForgetLink(nd[y], x).inc = nd[y].inc \ {x}
          /\ ForgetLink(nd[y], x).ovf = IF x \in nd[y].inc THEN nd[y].ovf
                                                           ELSE nd[y].ovf \ {x}
      BY <2>1, ForgetLinkType
    <3> QED BY <1>9, <2>1, <2>2, <2>3, <3>1
  <2>4. CASE y \in back
    <3>1. /\ LinkBack(nd[y], l, x).inc = nd[y].inc
          /\ \/ /\ LinkBack(nd[y], l, x).out = nd[y].out \cup {x}
                /\ LinkBack(nd[y], l, x).ovf = nd[y].ovf
             \/ /\ LinkBack(nd[y], l, x).out = nd[y].out
                /\ LinkBack(nd[y], l, x).ovf = nd[y].ovf \cup {x}
      BY <1>2, <2>1, LinkBackType
    <3> QED BY <1>9, <2>1, <2>2, <2>4, <3>1
  <2>5. CASE y \notin far \cup back
    BY <2>1, <2>2, <2>5
  <2> QED BY <2>3, <2>4, <2>5
<1>12. ASSUME NEW y \in Elements \ A PROVE q[y] = nd[y]
  BY <1>6, <1>8, <1>9
<1>13. ReplacedBy(nd, A, x, new, q)
  BY <1>10, <1>11, <1>12 DEF ReplacedBy, kept, far, back
<1> QED BY <1>13 DEF q

\* replace_neighbours keeps the links of a settled level as they should be.
LEMMA ReplaceLinks ==
  ASSUME NEW nd \in LevelType, NEW A, Live(nd, A), LevelLinks(nd, A),
         Settled(nd, A), NEW l, NEW x \in A, NEW new \in SUBSET (A \ {x})
  PROVE  LET q == ReplaceNeighbours(nd, l, x, new)
         IN  /\ LevelLinks(q, A) /\ Settled(q, A)
             /\ \A y \in Elements \ A : q[y] = nd[y]
             /\ Withheld(nd, l, x, new) \subseteq new
<1> DEFINE q == ReplaceNeighbours(nd, l, x, new)
           kept == {d \in nd[x].out \ new : x \in nd[d].out}
           far  == (nd[x].out \ new) \ kept
           back == new \ (nd[x].out \cup nd[x].ovf)
<1>1. /\ q[x].out = new /\ q[x].inc = {}
      /\ q[x].ovf = (nd[x].ovf \ new) \cup kept
      /\ \A y \in A \ {x} :
           /\ q[y].inc = {}
           /\ y \in far => q[y].out = nd[y].out /\ q[y].ovf = nd[y].ovf \ {x}
           /\ y \in back =>
                \/ q[y].out = nd[y].out \cup {x} /\ q[y].ovf = nd[y].ovf
                \/ q[y].out = nd[y].out /\ q[y].ovf = nd[y].ovf \cup {x}
           /\ y \notin far \cup back =>
                q[y].out = nd[y].out /\ q[y].ovf = nd[y].ovf
      /\ \A y \in Elements \ A : q[y] = nd[y]
  <2>1. ReplacedBy(nd, A, x, new, q)
    BY ReplaceRecords
  <2> HIDE DEF q
  <2> QED BY <2>1 DEF ReplacedBy
<1>2. \A a \in A :
        /\ nd[a].out \subseteq A \ {a} /\ nd[a].ovf \subseteq A \ {a}
        /\ nd[a].inc = {} /\ nd[a].out \cap nd[a].ovf = {}
        /\ \A b \in nd[a].out : a \in nd[b].out \cup nd[b].ovf
        /\ \A b \in nd[a].ovf : a \in nd[b].out
  BY SettledLinks
<1> HIDE DEF q
<1>3. /\ q[x].out \subseteq A \ {x} /\ q[x].ovf \subseteq A \ {x}
      /\ q[x].inc = {} /\ q[x].out \cap q[x].ovf = {}
      /\ \A b \in q[x].out : x \in q[b].out \cup q[b].ovf
      /\ \A b \in q[x].ovf : x \in q[b].out
  <2>1. /\ q[x].out \subseteq A \ {x} /\ q[x].ovf \subseteq A \ {x}
        /\ q[x].inc = {} /\ q[x].out \cap q[x].ovf = {}
    BY <1>1, <1>2
  <2>2. ASSUME NEW b \in new PROVE x \in q[b].out \cup q[b].ovf
    BY <1>1, <1>2
  <2>3. ASSUME NEW b \in (nd[x].ovf \ new) \cup kept PROVE x \in q[b].out
    BY <1>1, <1>2
  <2> QED BY <1>1, <2>1, <2>2, <2>3
<1>4. ASSUME NEW y \in A \ {x}
      PROVE  /\ q[y].out \subseteq A \ {y} /\ q[y].ovf \subseteq A \ {y}
             /\ q[y].inc = {} /\ q[y].out \cap q[y].ovf = {}
             /\ \A b \in q[y].out : y \in q[b].out \cup q[b].ovf
             /\ \A b \in q[y].ovf : y \in q[b].out
  <2>1. /\ q[y].inc = {}
        /\ y \in far => q[y].out = nd[y].out /\ q[y].ovf = nd[y].ovf \ {x}
        /\ y \in back =>
             \/ q[y].out = nd[y].out \cup {x} /\ q[y].ovf = nd[y].ovf
             \/ q[y].out = nd[y].out /\ q[y].ovf = nd[y].ovf \cup {x}
        /\ y \notin far \cup back =>
             q[y].out = nd[y].out /\ q[y].ovf = nd[y].ovf
    BY <1>1
  <2>2. y \in back => x \notin nd[y].out /\ x \notin nd[y].ovf
    BY <1>2
  <2>3. /\ q[y].out \subseteq A \ {y} /\ q[y].ovf \subseteq A \ {y}
        /\ q[y].out \cap q[y].ovf = {}
    BY <1>2, <2>1, <2>2
  <2>4. ASSUME NEW b \in A \ {x}
        PROVE  /\ y \in q[b].out <=> y \in nd[b].out
               /\ y \in q[b].ovf <=> y \in nd[b].ovf
    <3>1. /\ b \in far => q[b].out = nd[b].out /\ q[b].ovf = nd[b].ovf \ {x}
          /\ b \in back =>
               \/ q[b].out = nd[b].out \cup {x} /\ q[b].ovf = nd[b].ovf
               \/ q[b].out = nd[b].out /\ q[b].ovf = nd[b].ovf \cup {x}
          /\ b \notin far \cup back =>
               q[b].out = nd[b].out /\ q[b].ovf = nd[b].ovf
      BY <1>1
    <3> QED BY <3>1
  <2>5. ASSUME NEW b \in q[y].out, b # x PROVE y \in q[b].out \cup q[b].ovf
    <3>1. b \in nd[y].out /\ b \in A \ {x}
      BY <1>2, <2>1, <2>5
    <3> QED BY <1>2, <2>4, <3>1
  <2>6. ASSUME NEW b \in q[y].ovf, b # x PROVE y \in q[b].out
    <3>1. b \in nd[y].ovf /\ b \in A \ {x}
      BY <1>2, <2>1, <2>6
    <3> QED BY <1>2, <2>4, <3>1
  <2>7. x \in q[y].out => y \in q[x].out \cup q[x].ovf
    BY <1>1, <1>2, <2>1
  <2>8. x \in q[y].ovf => y \in q[x].out
    BY <1>1, <1>2, <2>1
  <2> QED BY <2>1, <2>3, <2>5, <2>6, <2>7, <2>8
<1>5. LevelLinks(q, A) /\ Settled(q, A)
  BY <1>3, <1>4, LinksSettled
<1>6. Withheld(nd, l, x, new) \subseteq new
  BY DEF Withheld, ToLink
<1> QED BY <1>1, <1>5, <1>6 DEF q

\* unlink_neighbours finds every node that records x, and takes it out of the
\* links of a settled level.
LEMMA UnlinkLinks ==
  ASSUME NEW nd \in LevelType, NEW A, Live(nd, A), LevelLinks(nd, A),
         Settled(nd, A), NEW x \in A
  PROVE  LET q == UnlinkNeighbours(nd, x)
         IN  /\ LevelLinks(q, A \ {x}) /\ Settled(q, A \ {x})
             /\ q[x].out = {}
             /\ \A y \in Elements \ A : q[y] = nd[y]
             /\ Severed(nd, x) \subseteq A \ {x}
<1> DEFINE q == UnlinkNeighbours(nd, x)
<1>1. \A a \in A :
        /\ nd[a].out \subseteq A \ {a} /\ nd[a].ovf \subseteq A \ {a}
        /\ nd[a].inc = {} /\ nd[a].out \cap nd[a].ovf = {}
        /\ \A b \in nd[a].out : a \in nd[b].out \cup nd[b].ovf
        /\ \A b \in nd[a].ovf : a \in nd[b].out
  BY SettledLinks
<1>2. A \subseteq Elements /\ x \in Elements /\ \A a \in A : Exists(nd, a)
  BY DEF Live
<1>3. Severed(nd, x) = nd[x].out \cup nd[x].ovf
  BY <1>1, <1>2 DEF Severed, Recorded
<1>4. q[x].out = {}
  <2>1. q[x] = [nd[x] EXCEPT !.out = {},
                             !.inc = Primary(nd[x]) \cap Orphaned(nd, x),
                             !.ovf = nd[x].ovf \cap Orphaned(nd, x)]
    BY <1>2 DEF UnlinkNeighbours
  <2>2. nd[x] \in NodeRec
    BY LiveRecord
  <2> HIDE DEF q
  <2> QED BY <2>1, <2>2 DEF NodeRec
<1>5. \A y \in Elements \ {x} :
        q[y] = IF y \in Severed(nd, x) THEN SeverLink(nd[y], x) ELSE nd[y]
  BY DEF UnlinkNeighbours
<1> HIDE DEF q
<1>6. ASSUME NEW y \in A \ {x}
      PROVE  /\ q[y].inc = {} /\ q[y].out = nd[y].out \ {x}
             /\ q[y].ovf = nd[y].ovf \ {x}
  <2>1. CASE y \in Severed(nd, x)
    <3>1. nd[y] \in NodeRec
      BY LiveRecord
    <3>2. /\ SeverLink(nd[y], x).out = nd[y].out \ {x}
          /\ SeverLink(nd[y], x).inc = nd[y].inc \ {x}
          /\ SeverLink(nd[y], x).ovf = IF x \in Primary(nd[y]) THEN nd[y].ovf
                                                               ELSE nd[y].ovf \ {x}
      BY <3>1, SeverLinkType
    <3>3. q[y] = SeverLink(nd[y], x)
      BY <1>2, <1>5, <2>1
    <3> QED BY <1>1, <3>2, <3>3 DEF Primary
  <2>2. CASE y \notin Severed(nd, x)
    <3>1. q[y] = nd[y]
      BY <1>2, <1>5, <2>2
    <3>2. x \notin nd[y].out /\ x \notin nd[y].ovf
      BY <1>1, <1>3, <2>2
    <3> QED BY <1>1, <3>1, <3>2
  <2> QED BY <2>1, <2>2
<1>7. ASSUME NEW y \in A \ {x}
      PROVE  /\ q[y].out \subseteq (A \ {x}) \ {y} /\ q[y].ovf \subseteq (A \ {x}) \ {y}
             /\ q[y].inc = {} /\ q[y].out \cap q[y].ovf = {}
             /\ \A b \in q[y].out : y \in q[b].out \cup q[b].ovf
             /\ \A b \in q[y].ovf : y \in q[b].out
  BY <1>1, <1>6
<1>8. LevelLinks(q, A \ {x}) /\ Settled(q, A \ {x})
  BY <1>7, LinksSettled
<1>9. Severed(nd, x) \subseteq A \ {x}
  BY <1>1, <1>3
<1>10. \A y \in Elements \ A : q[y] = nd[y]
  BY <1>2, <1>5, <1>9
<1> QED BY <1>4, <1>8, <1>9, <1>10 DEF q

\* One neighbour n of a node x whose links are being made links back.
LinksBack(nd, A, l, x, n, q) ==
  /\ nd \in LevelType /\ Live(nd, A) /\ LevelLinks(nd, A)
  /\ x \in A /\ n \in nd[x].inc /\ x \notin Recorded(nd[n])
  /\ q = [nd EXCEPT ![n] = LinkBack(nd[n], l, x)]

\* A neighbour that links back records the new node, in its list or its chain,
\* and nothing else changes.
LEMMA LinkBackLinks ==
  ASSUME NEW nd, NEW A, NEW l, NEW x, NEW n, NEW q, LinksBack(nd, A, l, x, n, q)
  PROVE  /\ n \in A \ {x} /\ LevelLinks(q, A)
         /\ \A y \in Elements : y # n => q[y] = nd[y]
         /\ \A y \in A : q[y].inc = nd[y].inc
         /\ q[n].out \cup q[n].ovf = nd[n].out \cup nd[n].ovf \cup {x}
<1> DEFINE r == LinkBack(nd[n], l, x)
<1>0. /\ nd \in LevelType /\ Live(nd, A) /\ LevelLinks(nd, A)
      /\ x \in A /\ n \in nd[x].inc /\ x \notin Recorded(nd[n])
      /\ q = [nd EXCEPT ![n] = r]
  BY DEF LinksBack
<1>1. n \in A \ {x}
  BY <1>0 DEF LevelLinks, Recorded
<1>2. nd[n] \in NodeRec /\ n \in Elements /\ x \in Elements
  BY <1>0, <1>1, LiveRecord
<1>3. /\ r.inc = nd[n].inc
      /\ \/ r.out = nd[n].out \cup {x} /\ r.ovf = nd[n].ovf
         \/ r.out = nd[n].out /\ r.ovf = nd[n].ovf \cup {x}
  BY <1>2, LinkBackType
<1> HIDE DEF r
<1>4. q[n] = r /\ \A y \in Elements : y # n => q[y] = nd[y]
  BY <1>0, <1>2 DEF LevelType
<1>5. \A y \in A : q[y].inc = nd[y].inc /\ Recorded(nd[y]) \subseteq Recorded(q[y])
                   /\ Primary(nd[y]) \subseteq Primary(q[y])
  BY <1>0, <1>3, <1>4 DEF Live, Recorded, Primary
<1>6. ASSUME NEW a \in A
      PROVE  /\ Recorded(q[a]) \subseteq A \ {a}
             /\ Primary(q[a]) \cap q[a].ovf = {}
             /\ \A b \in q[a].out : a \in Recorded(q[b])
             /\ \A b \in q[a].ovf : a \in Primary(q[b])
  <2>1. /\ Recorded(nd[a]) \subseteq A \ {a}
        /\ Primary(nd[a]) \cap nd[a].ovf = {}
        /\ \A b \in nd[a].out : a \in Recorded(nd[b])
        /\ \A b \in nd[a].ovf : a \in Primary(nd[b])
    BY <1>0 DEF LevelLinks
  <2>2. nd[a].out \subseteq A /\ nd[a].ovf \subseteq A
    BY <2>1 DEF Recorded
  <2>3. CASE a # n
    <3>1. q[a] = nd[a]
      BY <1>0, <1>4, <2>3 DEF Live
    <3> QED BY <1>5, <2>1, <2>2, <3>1
  <2>4. CASE a = n
    <3>1. n \in Primary(q[x]) /\ n \in Recorded(q[x])
      BY <1>0, <1>5 DEF Primary, Recorded
    <3>2. /\ Recorded(q[a]) \subseteq A \ {a}
          /\ Primary(q[a]) \cap q[a].ovf = {}
      BY <1>0, <1>1, <1>3, <1>4, <2>1, <2>4 DEF Recorded, Primary
    <3>3. q[a].out \subseteq nd[a].out \cup {x} /\ q[a].ovf \subseteq nd[a].ovf \cup {x}
      BY <1>3, <1>4, <2>4
    <3> QED BY <1>5, <2>1, <2>2, <2>4, <3>1, <3>2, <3>3
  <2> QED BY <2>3, <2>4
<1>7. LevelLinks(q, A)
  BY <1>6 DEF LevelLinks
<1> QED BY <1>1, <1>3, <1>4, <1>5, <1>7 DEF r

\* The links of x become outgoing ones once every neighbour has its record.
LEMMA ConfirmedLinks ==
  ASSUME NEW nd \in LevelType, NEW A, Live(nd, A), LevelLinks(nd, A),
         NEW x \in A, \A b \in nd[x].inc : x \in nd[b].out \cup nd[b].ovf
  PROVE  LET q == [nd EXCEPT ![x] = ConfirmLinks(nd[x])]
         IN  /\ LevelLinks(q, A)
             /\ \A y \in Elements : y # x => q[y] = nd[y]
             /\ q[x].inc = {} /\ q[x].ovf = nd[x].ovf /\ Recorded(q[x]) = Recorded(nd[x])
             /\ nd[x].out \subseteq q[x].out
<1> DEFINE r == ConfirmLinks(nd[x])
           q == [nd EXCEPT ![x] = r]
<1>1. nd[x] \in NodeRec /\ x \in Elements
  BY LiveRecord
<1>2. r.out = nd[x].out \cup nd[x].inc /\ r.inc = {} /\ r.ovf = nd[x].ovf
  BY <1>1, ConfirmLinksType
<1> HIDE DEF r
<1>3. q[x] = r /\ \A y \in Elements : y # x => q[y] = nd[y]
  BY <1>1 DEF LevelType
<1> HIDE DEF q
<1>4. \A y \in A : Recorded(q[y]) = Recorded(nd[y]) /\ Primary(q[y]) = Primary(nd[y])
                   /\ q[y].ovf = nd[y].ovf
  BY <1>2, <1>3 DEF Live, Recorded, Primary
<1>5. ASSUME NEW a \in A
      PROVE  /\ Recorded(q[a]) \subseteq A \ {a}
             /\ Primary(q[a]) \cap q[a].ovf = {}
             /\ \A b \in q[a].out : a \in Recorded(q[b])
             /\ \A b \in q[a].ovf : a \in Primary(q[b])
  <2>1. /\ Recorded(nd[a]) \subseteq A \ {a}
        /\ Primary(nd[a]) \cap nd[a].ovf = {}
        /\ \A b \in nd[a].out : a \in Recorded(nd[b])
        /\ \A b \in nd[a].ovf : a \in Primary(nd[b])
    BY DEF LevelLinks
  <2>2. nd[a].out \subseteq A /\ nd[a].ovf \subseteq A /\ nd[a].inc \subseteq A
    BY <2>1 DEF Recorded
  <2>3. \A b \in q[a].out : a \in Recorded(nd[b])
    <3>1. CASE a # x
      <4>1. q[a] = nd[a]
        BY <1>3, <3>1 DEF Live
      <4> QED BY <2>1, <4>1
    <3>2. CASE a = x
      BY <1>2, <1>3, <2>1, <3>2 DEF Recorded
    <3> QED BY <3>1, <3>2
  <2>4. q[a].out \subseteq A
    BY <1>2, <1>3, <2>2 DEF Live
  <2> QED BY <1>4, <2>1, <2>2, <2>3, <2>4
<1>6. LevelLinks(q, A)
  BY <1>5 DEF LevelLinks
<1> QED BY <1>2, <1>3, <1>4, <1>6 DEF q, r

\* A node that records nodes of A as incoming links joins them.
LEMMA JoinLinks ==
  ASSUME NEW nd, NEW A, LevelLinks(nd, A), NEW x, x \notin A,
         nd[x].out = {}, nd[x].ovf = {}, nd[x].inc \subseteq A
  PROVE  /\ LevelLinks(nd, A \cup {x})
         /\ \A b \in A : x \notin Recorded(nd[b])
<1>1. \A b \in A : Recorded(nd[b]) \subseteq A \ {b}
  BY DEF LevelLinks
<1>2. Recorded(nd[x]) = nd[x].inc
  BY DEF Recorded
<1> QED BY <1>1, <1>2 DEF LevelLinks

\* What can be reached from linked nodes is linked.
LEMMA ReachLinked ==
  ASSUME NEW nd, NEW A, LevelLinks(nd, A), NEW from, NEW avoid, from \subseteq A
  PROVE  Reachable(nd, from, avoid) \subseteq A
<1>1. Closed(nd, avoid, A)
  BY DEF Closed, LevelLinks, Recorded
<1>2. from \ avoid \subseteq A
  OBVIOUS
<1> QED BY <1>1, <1>2, ReachableWithin

-------------------------------------------------------------------------------
(* What the invariant says of a state.                                     *)

\* The definition of Linked at a level; what is linked there is live.
LEMMA LinkedIs ==
  ASSUME NEW l \in Levels
  PROVE  /\ Linked[l] =
              {x \in Elements :
                 /\ Exists(nodes[l], x)
                 /\ \A t \in Threads : loc[t].e = x => ~Detached(pc[t], loc[t], l)}
         /\ Live(nodes[l], Linked[l])
  BY DEF Linked, Live

\* The element a call works on is linked as far as the call says.
LEMMA LinkedOwn ==
  ASSUME GraphInv, NEW t \in Threads, loc[t].e \in Elements, NEW l \in Levels
  PROVE  loc[t].e \in Linked[l] <=>
           Exists(nodes[l], loc[t].e) /\ ~Detached(pc[t], loc[t], l)
<1>1. \A u \in Threads : loc[u].e = loc[t].e => u = t
  BY GraphAssumption DEF GraphInv, OneCallEach
<1> QED BY <1>1, LinkedIs

\* An element no call works on is linked wherever it has a node.
LEMMA LinkedUnused ==
  ASSUME NEW x \in Elements, Unused(x), NEW l \in Levels
  PROVE  x \in Linked[l] <=> Exists(nodes[l], x)
  BY LinkedIs DEF Unused

\* The parts of LinkInv for one call.
LEMMA CallLinked ==
  ASSUME LinkInv, NEW t \in Threads
  PROVE  /\ SearchOK(pc[t], loc[t], held[t], Linked, entry, entryLevel)
         /\ NewOK(pc[t], loc[t], held[t], nodes, Linked)
         /\ PendOK(pc[t], loc[t], nodes)
         /\ ShrinkOK(pc[t], loc[t], Linked)
         /\ RemovalOK(pc[t], loc[t], nodes, Linked, entry)
  BY DEF LinkInv, CallLinks

\* The parts of LinkInv for one level.
LEMMA LevelLinked ==
  ASSUME LinkInv, NEW l \in Levels
  PROVE  /\ LevelLinks(nodes[l], Linked[l])
         /\ \A a \in Elements \ Linked[l] :
              Exists(nodes[l], a) => nodes[l][a].out = {}
         /\ \A a \in Linked[l] : nodes[l][a].inc # {} => a \in BeingLinked[l]
  BY DEF LinkInv, LevelsOK, LevelOK

\* What is linked on a level has its nodes from there down, and no call cuts
\* the chain.
LEMMA LinkedBelow ==
  ASSUME GraphInv, LinkInv, NEW l \in Levels, NEW x \in Linked[l], NEW k \in 0 .. l
  PROVE  x \in Linked[k] /\ (k > 0 => nodes[k][x].lower)
<1>1. /\ k \in Levels /\ k \in Int /\ l \in Int /\ k <= l /\ 0 <= k
      /\ x \in Elements /\ Exists(nodes[l], x)
      /\ \A t \in Threads : loc[t].e = x => ~Detached(pc[t], loc[t], l)
  BY LinkedIs, LockSets
<1>2. ASSUME NEW t \in Threads, loc[t].e = x
      PROVE  ~Detached(pc[t], loc[t], k) /\ Exists(nodes[k], x)
  <2>1. ~Detached(pc[t], loc[t], l) /\ loc[t].level \in Int
    BY <1>1, <1>2, LevelFacts, LockSets
  <2>2. ~Detached(pc[t], loc[t], k)
    <3>1. /\ loc[t].level < k => loc[t].level < l
          /\ loc[t].level <= k => loc[t].level <= l
          /\ loc[t].level = k => loc[t].level < l \/ loc[t].level = l
      BY <1>1, <2>1
    <3>2. pc[t] = "ins_link" => pc[t] \in CreatedPcs
      BY DEF CreatedPcs
    <3> QED BY <2>1, <3>1, <3>2 DEF Detached
  <2>3. \A u \in Threads : loc[u].e = x => u = t
    BY <1>1, <1>2, GraphAssumption DEF GraphInv, OneCallEach
  <2>4. l <= handle[x] \/ pc[t] \in InsertPcs
    BY <1>1, <2>3 DEF LinkInv, ElementsOK
  <2>5. pc[t] \in Pcs /\ OwnsOK(pc[t], loc[t], nodes, handle)
        /\ FreshOK(pc[t], loc[t], handle) /\ LocalsOK(pc[t], loc[t], height)
    BY CallFacts
  <2>6. CASE pc[t] \in InsertPcs
    <3>1. pc[t] \in CreatedPcs
      BY <2>1, <2>6 DEF Detached
    <3>2. l <= loc[t].top /\ loc[t].top \in Int
      BY <1>1, <1>2, <2>6, CallLinked, LevelFacts, LockSets DEF NewOK
    <3>3. ChainFrom(nodes, x, 0, loc[t].top)
      BY <1>2, <2>5, <3>1 DEF OwnsOK
    <3>4. k \in 0 .. loc[t].top
      BY <1>1, <3>2
    <3> QED BY <2>2, <3>3, <3>4 DEF ChainFrom
  <2>7. CASE pc[t] \in RemovePcs
    <3>1. pc[t] \in RemovePcs \ {"rem_drop", "rem_done"}
      BY <2>1, <2>7 DEF Detached
    <3>2. handle[x] = loc[t].top /\ ChainFrom(nodes, x, 0, loc[t].top)
      BY <1>2, <2>5, <2>7, <3>1 DEF OwnsOK
    <3>3. l <= loc[t].top /\ loc[t].top \in Int
      BY <2>4, <2>7, <3>2, LevelFacts, LockSets DEF InsertPcs, RemovePcs
    <3>4. k \in 0 .. loc[t].top
      BY <1>1, <3>3
    <3> QED BY <2>2, <3>2, <3>4 DEF ChainFrom
  <2>8. CASE pc[t] = "mark_lock"
    <3>1. ChainFrom(nodes, x, 0, handle[x])
      BY <1>2, <2>5, <2>8 DEF OwnsOK
    <3>2. l <= handle[x] /\ handle[x] \in Int
      <4>1. handle[x] \in Levels \cup {NoLevel}
        BY <1>1 DEF GraphInv, TypeOK
      <4>2. NoLevel \in Int
        BY DEF NoLevel
      <4>3. pc[t] \notin InsertPcs
        BY <2>8 DEF InsertPcs
      <4> QED BY <2>4, <4>1, <4>2, <4>3, LockSets
    <3>3. k \in 0 .. handle[x]
      BY <1>1, <3>2
    <3> QED BY <2>2, <3>1, <3>3 DEF ChainFrom
  <2>9. CASE pc[t] \in KnnPcs \cup {"idle"}
    BY <1>1, <1>2, <2>5, <2>9, GraphAssumption DEF LocalsOK
  <2> QED BY <2>5, <2>6, <2>7, <2>8, <2>9 DEF Pcs
<1>3. ASSUME Unused(x) PROVE Exists(nodes[k], x)
  <2>1. l <= handle[x] /\ handle[x] \in Levels \cup {NoLevel}
    BY <1>1, <1>3 DEF LinkInv, ElementsOK, Unused, GraphInv, TypeOK
  <2>2. handle[x] \in Levels /\ handle[x] # NoLevel /\ handle[x] \in Int
    <3>1. handle[x] # NoLevel
      BY <1>1, <2>1 DEF NoLevel
    <3> QED BY <2>1, <3>1, LockSets
  <2>3. ChainFrom(nodes, x, 0, handle[x])
    BY <1>1, <1>3, <2>2 DEF GraphInv, IndexOK
  <2>4. k \in 0 .. handle[x]
    BY <1>1, <2>1, <2>2
  <2> QED BY <2>3, <2>4 DEF ChainFrom
<1>4. Exists(nodes[k], x) /\ \A t \in Threads : loc[t].e = x => ~Detached(pc[t], loc[t], k)
  BY <1>2, <1>3 DEF Unused
<1>5. x \in Linked[k]
  BY <1>1, <1>4, LinkedIs
<1>6. ASSUME k > 0 PROVE nodes[k][x].lower
  <2> SUFFICES ASSUME ~nodes[k][x].lower PROVE FALSE
    OBVIOUS
  <2>1. PICK t \in Threads : loc[t].e = x /\ Cut(pc[t], loc[t], k)
    BY <1>1, <1>4, <1>6 DEF LinkInv, ElementsOK
  <2>2. Detached(pc[t], loc[t], k)
    BY <2>1 DEF Cut, Detached, InsertPcs, CreatedPcs
  <2> QED BY <1>4, <2>1, <2>2
<1> QED BY <1>5, <1>6

\* What is linked on a level can be followed down to level 0.
LEMMA LinkedHasChain ==
  ASSUME GraphInv, LinkInv, NEW l \in Levels, NEW x \in Linked[l]
  PROVE  HasChain(x, l)
<1>1. ASSUME NEW k \in 0 .. l
      PROVE  Exists(nodes[k], x) /\ (k > 0 => nodes[k][x].lower)
  <2>1. k \in Levels /\ x \in Linked[k] /\ (k > 0 => nodes[k][x].lower)
    BY LinkedBelow, LockSets
  <2> QED BY <2>1, LinkedIs
<1> QED BY <1>1 DEF HasChain

\* Unless its removal has the graph to itself, the entry point is linked.
LEMMA EntryLinked ==
  ASSUME GraphInv, LinkInv, entry # Nil,
         \A t \in Threads : held[t][GraphLock] # "X"
  PROVE  entry \in Linked[entryLevel]
<1>1. /\ entry \in Elements /\ entryLevel \in Levels /\ entryLevel = handle[entry]
      /\ entryLevel # NoLevel /\ 0 <= entryLevel /\ entryLevel \in Int
  BY LockSets DEF GraphInv, TypeOK, LinkInv, EntryAtTop
<1>2. ASSUME NEW t \in Threads, loc[t].e = entry
      PROVE  ~Detached(pc[t], loc[t], entryLevel) /\ Exists(nodes[entryLevel], entry)
  <2>1. /\ pc[t] \in Pcs /\ OwnsOK(pc[t], loc[t], nodes, handle)
        /\ FreshOK(pc[t], loc[t], handle) /\ LocalsOK(pc[t], loc[t], height)
        /\ EntryOK(pc[t], loc[t], held[t], entry, entryLevel)
    BY CallFacts
  <2>2. pc[t] \notin InsertPcs
    BY <1>1, <1>2, <2>1 DEF FreshOK
  <2>3. pc[t] \in RemovePcs => pc[t] = "rem_upgrade"
    BY <1>2, <2>1, CallLinked DEF RemovalOK, EntryOK
  <2>4. pc[t] \in {"rem_upgrade", "mark_lock"}
    BY <1>1, <1>2, <2>1, <2>2, <2>3, GraphAssumption DEF LocalsOK, Pcs
  <2>5. ChainFrom(nodes, entry, 0, entryLevel)
    BY <1>1, <1>2, <2>1, <2>4 DEF OwnsOK, RemovePcs
  <2>6. ~Detached(pc[t], loc[t], entryLevel)
    BY <2>4 DEF Detached, InsertPcs, CreatedPcs, RepairPcs
  <2>7. entryLevel \in 0 .. entryLevel
    BY <1>1
  <2> QED BY <2>5, <2>6, <2>7 DEF ChainFrom
<1>3. ASSUME Unused(entry) PROVE Exists(nodes[entryLevel], entry)
  <2>1. ChainFrom(nodes, entry, 0, entryLevel)
    BY <1>1, <1>3 DEF GraphInv, IndexOK
  <2>2. entryLevel \in 0 .. entryLevel
    BY <1>1
  <2> QED BY <2>1, <2>2 DEF ChainFrom
<1>4. Exists(nodes[entryLevel], entry)
  BY <1>2, <1>3 DEF Unused
<1> QED BY <1>1, <1>2, <1>4, LinkedIs

\* What a search at the level of a call, or of its candidates, can reach.
LEMMA SearchLinked ==
  ASSUME GraphInv, LinkInv, NEW t \in Threads, pc[t] # "ins_upgrade",
         loc[t].level <= loc[t].elevel
  PROVE  Reachable(At(t), loc[t].cand, {}) \subseteq Linked[loc[t].level]
<1>1. CandAt(loc[t]) = loc[t].level /\ loc[t].level \in Levels
  BY LevelFacts DEF CandAt
<1>2. loc[t].cand \subseteq Linked[loc[t].level]
  BY <1>1, CallLinked DEF SearchOK
<1>3. LevelLinks(At(t), Linked[loc[t].level])
  BY <1>1, LevelLinked DEF At
<1> QED BY <1>2, <1>3, ReachLinked

\* No call reads a freed node, or goes down from a node without a lower level.
LEMMA NoReadFails ==
  ASSUME GraphInv, LinkInv, NEW t \in Threads
  PROVE  ~ReadsFreed(t)
<1> DEFINE l == loc[t].level
<1>1. l \in Levels /\ l \in 0 .. l
  BY LevelFacts, LockSets
<1>2. \A x \in Linked[l] : Exists(At(t), x) /\ (l > 0 => At(t)[x].lower)
  BY <1>1, LinkedBelow, LinkedIs DEF At, Live
<1>3. ASSUME \/ pc[t] \in {"ins_search", "knn_search"}
             \/ pc[t] = "ins_create" /\ l <= loc[t].elevel
      PROVE  Reachable(At(t), loc[t].cand, {}) \subseteq Linked[l]
  <2>1. pc[t] # "ins_upgrade" /\ l <= loc[t].elevel
    BY <1>3, CallLinked DEF SearchOK, KnnPcs
  <2> QED BY <2>1, SearchLinked
<1>4. ASSUME pc[t] = "rem_repair", NEW o
      PROVE  Reachable(At(t), loc[t].unl, {o}) \subseteq Linked[l]
  <2>1. loc[t].unl \subseteq Linked[l]
    BY <1>4, CallLinked DEF ShrinkOK, RepairPcs
  <2> QED BY <1>1, <2>1, LevelLinked, ReachLinked DEF At
<1>5. pc[t] \in {"ins_shrink", "rem_shrink"} => loc[t].over \subseteq Linked[l]
  BY CallLinked DEF ShrinkOK, ShrinkPcs
<1>6. pc[t] \in {"ins_replace", "rem_replace"} => loc[t].shrink \in Linked[l]
  BY CallLinked DEF ShrinkOK
<1> HIDE DEF l
<1>7. ReadsFreed(t) =>
        \/ /\ \/ pc[t] \in {"ins_search", "knn_search"}
              \/ pc[t] = "ins_create" /\ l <= loc[t].elevel
           /\ \E x \in Reachable(At(t), loc[t].cand, {}) :
                ~(Exists(At(t), x) /\ (l > 0 => At(t)[x].lower))
        \/ /\ pc[t] = "rem_repair"
           /\ \E o \in loc[t].orph : \E x \in Reachable(At(t), loc[t].unl, {o}) :
                ~Exists(At(t), x)
        \/ /\ pc[t] \in {"ins_shrink", "rem_shrink"}
           /\ \E v \in loc[t].over : ~Exists(At(t), v)
        \/ /\ pc[t] \in {"ins_replace", "rem_replace"}
           /\ ~Exists(At(t), loc[t].shrink)
  BY DEF ReadsFreed, l
<1> QED BY <1>2, <1>3, <1>4, <1>5, <1>6, <1>7

-------------------------------------------------------------------------------
(* What a step of one thread leaves to the others.                         *)

\* A call that rewrites links has a lock on the level it is at.
LEMMA HoldsLevel ==
  ASSUME GraphInv, LinkInv, NEW u \in Threads, pc[u] \in ShrinkPcs \cup RepairPcs
  PROVE  held[u][loc[u].level] # "none"
<1>1. CASE pc[u] \in RepairPcs
  BY <1>1, CallFacts DEF HeldOK
<1>2. CASE pc[u] \notin RepairPcs
  <2>1. pc[u] \in CreatedPcs /\ pc[u] \in InsertPcs
    BY <1>2 DEF ShrinkPcs, RepairPcs, CreatedPcs, InsertPcs
  <2>2. ChainFrom(nodes, loc[u].e, 0, loc[u].top) /\ loc[u].level <= loc[u].top
        /\ loc[u].level \in Levels /\ loc[u].top \in Levels
    BY <2>1, CallFacts, LevelFacts DEF OwnsOK, LocalsOK
  <2>3. loc[u].level \in 0 .. loc[u].top
    BY <2>2, LockSets
  <2>4. Exists(nodes[loc[u].level], loc[u].e)
    BY <2>2, <2>3 DEF ChainFrom
  <2> QED BY <2>1, <2>2, <2>4, CallLinked DEF NewOK
<1> QED BY <1>1, <1>2

\* Nobody else is linking on a level that nobody else holds.
LEMMA AloneOnLevel ==
  ASSUME GraphInv, LinkInv, NEW t \in Threads, NEW l, CanLock(t, l)
  PROVE  \A u \in Threads \ {t} : ~Linking(u, l)
  BY HoldsLevel DEF CanLock, Linking, ShrinkPcs

\* No incoming links are left where no links are being made.
LEMMA SettledLevel ==
  ASSUME LinkInv, NEW l \in Levels, \A u \in Threads : ~Linking(u, l)
  PROVE  Settled(nodes[l], Linked[l])
<1>1. BeingLinked[l] = {}
  BY DEF BeingLinked
<1> QED BY <1>1, LevelLinked DEF Settled

\* The other calls are where they were.
Others(t) ==
  \A u \in Threads \ {t} :
    pc'[u] = pc[u] /\ loc'[u] = loc[u] /\ held'[u] = held[u]

\* A node is unlinked by the remove of its element, alone on the level; the
\* nodes that other calls have yet to link, and the links they are making, are
\* theirs; the entry point changes when the graph is locked exclusively.
OthersKept(t) ==
  /\ Others(t)
  /\ \A l \in Levels : \A x \in Linked[l] :
       \/ x \in Linked'[l]
       \/ /\ pc[t] = "rem_lock" /\ x = loc[t].e /\ CanLock(t, l)
  /\ \A l \in Levels : \A x \in Elements \ {loc[t].e} :
       /\ Exists(nodes'[l], x) <=> Exists(nodes[l], x)
       /\ x \notin Linked[l] => SameLinks(nodes'[l][x], nodes[l][x])
  /\ \A u \in Threads \ {t}, l \in Levels : Linking(u, l) =>
       /\ nodes'[l][loc[u].e].inc = nodes[l][loc[u].e].inc
       /\ \A b \in Linked[l] :
            /\ loc[u].e \in Recorded(nodes'[l][b]) => loc[u].e \in Recorded(nodes[l][b])
            /\ loc[u].e \in nodes[l][b].out \cup nodes[l][b].ovf =>
                 loc[u].e \in nodes'[l][b].out \cup nodes'[l][b].ovf
  /\ UNCHANGED <<entry, entryLevel>> \/ held[t][GraphLock] = "X"

\* The part of LinkInv that is about another call holds after the step.
LEMMA OthersLinked ==
  ASSUME GraphInv, LinkInv, NEW t \in Threads, NEW u \in Threads \ {t}, OthersKept(t)
  PROVE  CallLinks(pc'[u], loc'[u], held'[u], nodes', Linked', entry', entryLevel')
<1> DEFINE p == pc[u]
           L == loc[u]
           H == held[u]
<1>1. pc'[u] = p /\ loc'[u] = L /\ held'[u] = H
  BY DEF OthersKept, Others
<1>2. /\ SearchOK(p, L, H, Linked, entry, entryLevel)
      /\ NewOK(p, L, H, nodes, Linked) /\ PendOK(p, L, nodes)
      /\ ShrinkOK(p, L, Linked) /\ RemovalOK(p, L, nodes, Linked, entry)
  BY CallLinked
<1>3. /\ p \in Pcs /\ LocalsOK(p, L, height) /\ HeldOK(p, L, H, height)
      /\ OwnsOK(p, L, nodes, handle) /\ EntryOK(p, L, H, entry, entryLevel)
      /\ HeldOK(pc[t], loc[t], held[t], height)
      /\ EntryOK(pc[t], loc[t], held[t], entry, entryLevel)
  BY CallFacts
<1>4. L.level \in Levels /\ L.elevel \in Levels /\ L.rlevel \in Levels
      /\ CandAt(L) \in Levels
  BY LevelFacts DEF CandAt
<1>5. held[t][GraphLock] = "X" => p \in NoLockPcs
  BY <1>3, LockSets DEF GraphInv, LocksExclude, HeldOK
<1>6. UNCHANGED <<entry, entryLevel>> \/ p \in NoLockPcs
  BY <1>5 DEF OthersKept
<1>7. ASSUME NEW k \in Levels, H[k] # "none" PROVE Linked[k] \subseteq Linked'[k]
  <2>1. ~CanLock(t, k)
    BY <1>7 DEF CanLock
  <2> QED BY <2>1 DEF OthersKept
<1>8. ASSUME NEW k \in Levels, H[GraphLock] = "X" PROVE Linked[k] \subseteq Linked'[k]
  <2>1. held[t][GraphLock] = "none"
    BY <1>8, LockSets DEF GraphInv, LocksExclude
  <2>2. pc[t] # "rem_lock"
    BY <1>3, <2>1 DEF HeldOK, NoLockPcs
  <2> QED BY <2>2 DEF OthersKept
<1>9. L.e \in Elements =>
        \A k \in Levels :
          /\ Exists(nodes'[k], L.e) <=> Exists(nodes[k], L.e)
          /\ L.e \notin Linked[k] => SameLinks(nodes'[k][L.e], nodes[k][L.e])
  BY GraphAssumption DEF OthersKept, GraphInv, OneCallEach
<1>10. SearchOK(p, L, H, Linked', entry', entryLevel')
  <2>1. ASSUME p # "ins_upgrade", NEW x \in L.cand
        PROVE  /\ x \in Linked'[CandAt(L)]
               /\ H[CandAt(L)] # "none" \/ (x = entry' /\ CandAt(L) = entryLevel')
    <3>1. p \in CandPcs \/ p = "ins_link"
      BY <1>2, <2>1 DEF SearchOK
    <3>2. p \notin NoLockPcs
      BY <2>1, <3>1 DEF CandPcs, KnnPcs, NoLockPcs
    <3>3. UNCHANGED <<entry, entryLevel>> /\ held[t][GraphLock] # "X"
      BY <1>5, <1>6, <3>2
    <3>4. /\ x \in Linked[CandAt(L)]
          /\ H[CandAt(L)] # "none" \/ (x = entry /\ CandAt(L) = entryLevel)
      BY <1>2, <2>1 DEF SearchOK
    <3>5. CASE H[CandAt(L)] # "none"
      BY <1>4, <1>7, <3>4, <3>5
    <3>6. CASE x = entry /\ CandAt(L) = entryLevel
      <4>1. ~(pc[t] = "rem_lock" /\ loc[t].e = entry)
        BY <1>3, <3>3, CallLinked DEF RemovalOK, EntryOK, RemovePcs
      <4>2. x \in Linked'[CandAt(L)]
        BY <1>4, <3>4, <3>6, <4>1 DEF OthersKept
      <4> QED BY <3>3, <3>6, <4>2
    <3> QED BY <3>4, <3>5, <3>6
  <2> HIDE DEF p, L, H
  <2> QED BY <1>2, <2>1 DEF SearchOK
<1>11. NewOK(p, L, H, nodes', Linked')
  <2>1. ASSUME p \in InsertPcs, NEW k \in Levels, Exists(nodes'[k], L.e)
        PROVE  /\ H[k] # "none" /\ k <= L.top
               /\ p \in CreatedPcs \cup {"ins_create", "ins_keep"}
               /\ p = "ins_create" => k > L.level
               /\ p = "ins_keep" => k >= L.level
               /\ Detached(p, L, k) =>
                    /\ nodes'[k][L.e].out = {} /\ nodes'[k][L.e].ovf = {}
                    /\ nodes'[k][L.e].inc \subseteq Linked'[k]
    <3>1. L.e \in Elements
      BY <1>3, <2>1 DEF LocalsOK
    <3>2. Exists(nodes[k], L.e)
      BY <1>9, <2>1, <3>1
    <3>3. /\ H[k] # "none" /\ k <= L.top
          /\ p \in CreatedPcs \cup {"ins_create", "ins_keep"}
          /\ p = "ins_create" => k > L.level
          /\ p = "ins_keep" => k >= L.level
          /\ Detached(p, L, k) =>
               /\ nodes[k][L.e].out = {} /\ nodes[k][L.e].ovf = {}
               /\ nodes[k][L.e].inc \subseteq Linked[k]
      BY <1>2, <2>1, <3>2 DEF NewOK
    <3>4. Detached(p, L, k) => SameLinks(nodes'[k][L.e], nodes[k][L.e])
      BY <1>9, <3>1, LinkedOwn
    <3>5. Linked[k] \subseteq Linked'[k]
      BY <1>7, <3>3
    <3> QED BY <3>3, <3>4, <3>5 DEF SameLinks
  <2> HIDE DEF p, L, H
  <2> QED BY <1>2, <2>1 DEF NewOK
<1>12. PendOK(p, L, nodes')
  <2> SUFFICES ASSUME p = "ins_linking" PROVE PendOK("ins_linking", L, nodes')
    BY DEF PendOK
  <2>1. L.e \in Elements /\ Exists(nodes[L.level], L.e)
    <3>1. L.e \in Elements /\ ChainFrom(nodes, L.e, 0, L.top) /\ L.level <= L.top
      BY <1>3 DEF LocalsOK, OwnsOK, CreatedPcs, InsertPcs
    <3>2. L.level \in 0 .. L.top
      BY <1>4, <3>1, LevelFacts, LockSets
    <3> QED BY <3>1, <3>2 DEF ChainFrom
  <2>2. L.e \in Linked[L.level]
    <3>1. ~Detached(p, L, L.level)
      BY <1>4, LockSets DEF Detached, InsertPcs, CreatedPcs, RepairPcs
    <3> QED BY <1>4, <2>1, <3>1, LinkedOwn
  <2>3. nodes[L.level][L.e].inc \subseteq Linked[L.level]
    BY <1>4, <2>2, LevelLinked DEF LevelLinks, Recorded
  <2>4. /\ nodes'[L.level][L.e].inc = nodes[L.level][L.e].inc
        /\ \A b \in Linked[L.level] :
             /\ L.e \in Recorded(nodes'[L.level][b]) => L.e \in Recorded(nodes[L.level][b])
             /\ L.e \in nodes[L.level][b].out \cup nodes[L.level][b].ovf =>
                  L.e \in nodes'[L.level][b].out \cup nodes'[L.level][b].ovf
    BY <1>4 DEF OthersKept, Linking
  <2>5. /\ L.pend \subseteq nodes[L.level][L.e].inc
        /\ \A b \in L.pend : L.e \notin Recorded(nodes[L.level][b])
        /\ \A b \in nodes[L.level][L.e].inc \ L.pend :
             L.e \in nodes[L.level][b].out \cup nodes[L.level][b].ovf
    BY <1>2 DEF PendOK
  <2> HIDE DEF p, L, H
  <2> QED BY <2>3, <2>4, <2>5 DEF PendOK
<1>13. ShrinkOK(p, L, Linked')
  <2>1. p \in ShrinkPcs \cup RepairPcs => Linked[L.level] \subseteq Linked'[L.level]
    BY <1>4, <1>7, HoldsLevel
  <2>2. p \in {"ins_replace", "rem_replace"} => p \in ShrinkPcs
    BY DEF ShrinkPcs
  <2> HIDE DEF p, L, H
  <2> QED BY <1>2, <2>1, <2>2 DEF ShrinkOK
<1>14. RemovalOK(p, L, nodes', Linked', entry')
  <2>1. p \in RemovePcs => L.e \in Elements
    BY <1>3 DEF LocalsOK
  <2>2. p \in RemovePcs => \A k \in Levels : Exists(nodes'[k], L.e) <=> Exists(nodes[k], L.e)
    BY <1>9, <2>1
  <2>3. p \in RemovePcs \ {"rem_upgrade"} => entry' = entry
    BY <1>6 DEF NoLockPcs, RemovePcs
  <2>4. L.newEp => Linked[L.rlevel] \subseteq Linked'[L.rlevel]
    BY <1>3, <1>4, <1>8 DEF EntryOK
  <2>5. p \in {"rem_drop", "rem_done"} => p \in RemovePcs
    BY DEF RemovePcs
  <2> HIDE DEF p, L, H
  <2> QED BY <1>2, <2>2, <2>3, <2>4, <2>5 DEF RemovalOK
<1> HIDE DEF p, L, H
<1> QED BY <1>1, <1>10, <1>11, <1>12, <1>13, <1>14 DEF CallLinks

\* It remains to look at the call that steps, and at the levels.
LEMMA LinksTogether ==
  ASSUME GraphInv, LinkInv, NEW t \in Threads, OthersKept(t),
         CallLinks(pc'[t], loc'[t], held'[t], nodes', Linked', entry', entryLevel'),
         \A l \in Levels : LevelOK(nodes'[l], Linked'[l], BeingLinked'[l]),
         ElementsOK', EntryAtTop'
  PROVE  LinkInv'
<1>1. \A u \in Threads :
        CallLinks(pc'[u], loc'[u], held'[u], nodes', Linked', entry', entryLevel')
  BY OthersLinked
<1> QED BY <1>1 DEF LinkInv, LevelsOK

\* Nothing is linked or unlinked by a step that creates and frees no node and
\* leaves the place of its call with the same nodes detached.
LEMMA SameLinked ==
  ASSUME NEW t \in Threads, Others(t),
         \A x \in Elements, k \in Levels :
           (/\ Exists(nodes'[k], x)
            /\ loc'[t].e = x => ~Detached(pc'[t], loc'[t], k))
           <=> (/\ Exists(nodes[k], x)
                /\ loc[t].e = x => ~Detached(pc[t], loc[t], k))
  PROVE  Linked' = Linked
<1>1. ASSUME NEW x \in Elements, NEW k \in Levels
      PROVE  (/\ Exists(nodes'[k], x)
              /\ \A u \in Threads : loc'[u].e = x => ~Detached(pc'[u], loc'[u], k))
             <=> (/\ Exists(nodes[k], x)
                  /\ \A u \in Threads : loc[u].e = x => ~Detached(pc[u], loc[u], k))
  <2>1. \A u \in Threads \ {t} : pc'[u] = pc[u] /\ loc'[u] = loc[u]
    BY DEF Others
  <2> QED BY <2>1
<1>2. \A k \in Levels : Linked'[k] = Linked[k]
  BY <1>1 DEF Linked
<1> QED BY <1>2 DEF Linked

\* An element whose links are being made stays one unless the step is that of
\* its own call.
LEMMA BeingLinkedKept ==
  ASSUME NEW t \in Threads, Others(t), NEW l \in Levels, NEW x \in BeingLinked[l],
         Linking(t, l) /\ loc[t].e = x =>
           pc'[t] = "ins_linking" /\ loc'[t].level = l /\ loc'[t].e = x
  PROVE  x \in BeingLinked'[l]
<1>1. x \in Elements /\ \E u \in Threads : Linking(u, l) /\ loc[u].e = x
  BY DEF BeingLinked
<1>2. PICK u \in Threads : pc[u] = "ins_linking" /\ loc[u].level = l /\ loc[u].e = x
  BY <1>1 DEF Linking
<1>3. pc'[u] = "ins_linking" /\ loc'[u].level = l /\ loc'[u].e = x
  BY <1>2 DEF Others, Linking
<1> QED BY <1>1, <1>3 DEF BeingLinked, Linking

\* A level keeps its links, whatever new nodes it has.
LEMMA LevelKept ==
  ASSUME LinkInv, NEW t \in Threads, Others(t), NEW l \in Levels,
         Linked'[l] = Linked[l],
         \A x \in Linked[l] : SameLinks(nodes'[l][x], nodes[l][x]),
         \A x \in Elements \ Linked[l] : Exists(nodes'[l], x) =>
           \/ Exists(nodes[l], x) /\ SameLinks(nodes'[l][x], nodes[l][x])
           \/ nodes'[l][x].out = {},
         Linking(t, l) =>
           pc'[t] = "ins_linking" /\ loc'[t].level = l /\ loc'[t].e = loc[t].e
  PROVE  LevelOK(nodes'[l], Linked'[l], BeingLinked'[l])
<1>1. /\ LevelLinks(nodes[l], Linked[l])
      /\ \A a \in Elements \ Linked[l] : Exists(nodes[l], a) => nodes[l][a].out = {}
      /\ \A a \in Linked[l] : nodes[l][a].inc # {} => a \in BeingLinked[l]
  BY LevelLinked
<1>2. \A x \in Linked[l] : /\ Recorded(nodes'[l][x]) = Recorded(nodes[l][x])
                           /\ Primary(nodes'[l][x]) = Primary(nodes[l][x])
                           /\ nodes'[l][x].out = nodes[l][x].out
                           /\ nodes'[l][x].inc = nodes[l][x].inc
                           /\ nodes'[l][x].ovf = nodes[l][x].ovf
  BY DEF SameLinks, Recorded, Primary
<1>3. LevelLinks(nodes'[l], Linked[l])
  <2> SUFFICES ASSUME NEW a \in Linked[l]
               PROVE  /\ Recorded(nodes'[l][a]) \subseteq Linked[l] \ {a}
                      /\ Primary(nodes'[l][a]) \cap nodes'[l][a].ovf = {}
                      /\ \A b \in nodes'[l][a].out : a \in Recorded(nodes'[l][b])
                      /\ \A b \in nodes'[l][a].ovf : a \in Primary(nodes'[l][b])
    BY DEF LevelLinks
  <2>1. /\ Recorded(nodes[l][a]) \subseteq Linked[l] \ {a}
        /\ Primary(nodes[l][a]) \cap nodes[l][a].ovf = {}
        /\ \A b \in nodes[l][a].out : a \in Recorded(nodes[l][b])
        /\ \A b \in nodes[l][a].ovf : a \in Primary(nodes[l][b])
    BY <1>1 DEF LevelLinks
  <2>2. nodes[l][a].out \subseteq Linked[l] /\ nodes[l][a].ovf \subseteq Linked[l]
    BY <2>1 DEF Recorded
  <2> QED BY <1>2, <2>1, <2>2
<1>4. \A a \in Elements \ Linked[l] : Exists(nodes'[l], a) => nodes'[l][a].out = {}
  BY <1>1 DEF SameLinks
<1>5. \A a \in Linked[l] : nodes'[l][a].inc # {} => a \in BeingLinked'[l]
  BY <1>1, <1>2, BeingLinkedKept
<1> QED BY <1>3, <1>4, <1>5 DEF LevelOK

\* A call goes on to p with the locals L, and neither links nor unlinks.
GoesOn(t, p, L) ==
  /\ \A x \in Elements, k \in Levels : Exists(nodes[k], x) =>
       ((L.e = x => ~Detached(p, L, k))
        <=> (loc[t].e = x => ~Detached(pc[t], loc[t], k)))
  /\ pc[t] \in InsertPcs => p \in InsertPcs /\ L.e = loc[t].e
  /\ \A k \in Levels : Cut(pc[t], loc[t], k) => L.e = loc[t].e /\ Cut(p, L, k)

\* A step that frees no node, cuts no chain and keeps the handles keeps
\* ElementsOK.
LEMMA ElementsKept ==
  ASSUME LinkInv, NEW t \in Threads, NEW p, NEW L, Others(t), pc'[t] = p, loc'[t] = L,
         pc[t] \in InsertPcs => p \in InsertPcs /\ L.e = loc[t].e,
         \A k \in Levels : Cut(pc[t], loc[t], k) => L.e = loc[t].e /\ Cut(p, L, k),
         UNCHANGED handle,
         \A x \in Elements, k \in Levels : Exists(nodes'[k], x) =>
           Exists(nodes[k], x) /\ nodes'[k][x].lower = nodes[k][x].lower
  PROVE  ElementsOK'
<1> SUFFICES ASSUME NEW x \in Elements, NEW k \in Levels, Exists(nodes'[k], x)
             PROVE  /\ \/ k <= handle'[x]
                       \/ \E u \in Threads : loc'[u].e = x /\ pc'[u] \in InsertPcs
                    /\ k > 0 /\ ~nodes'[k][x].lower =>
                         \E u \in Threads : loc'[u].e = x /\ Cut(pc'[u], loc'[u], k)
  BY DEF ElementsOK
<1>1. Exists(nodes[k], x) /\ nodes'[k][x].lower = nodes[k][x].lower
  OBVIOUS
<1>2. /\ k <= handle[x] \/ \E u \in Threads : loc[u].e = x /\ pc[u] \in InsertPcs
      /\ k > 0 /\ ~nodes[k][x].lower =>
           \E u \in Threads : loc[u].e = x /\ Cut(pc[u], loc[u], k)
  BY <1>1 DEF LinkInv, ElementsOK
<1>3. ASSUME NEW u \in Threads, loc[u].e = x, pc[u] \in InsertPcs
      PROVE  loc'[u].e = x /\ pc'[u] \in InsertPcs
  BY <1>3 DEF Others
<1>4. ASSUME NEW u \in Threads, loc[u].e = x, Cut(pc[u], loc[u], k)
      PROVE  loc'[u].e = x /\ Cut(pc'[u], loc'[u], k)
  <2>1. CASE u = t
    BY <1>4, <2>1
  <2>2. CASE u # t
    BY <1>4, <2>2 DEF Others
  <2> QED BY <2>1, <2>2
<1> QED BY <1>1, <1>2, <1>3, <1>4

\* The records b of a level leave alone the links that u is making on it.
KeepsLinking(u, nd, q, A) ==
  /\ q[loc[u].e].inc = nd[loc[u].e].inc
  /\ \A b \in A :
       /\ loc[u].e \in Recorded(q[b]) => loc[u].e \in Recorded(nd[b])
       /\ loc[u].e \in nd[b].out \cup nd[b].ovf => loc[u].e \in q[b].out \cup q[b].ovf

\* A step that writes links of linked nodes on the level its call is at.
LEMMA WriteStep ==
  ASSUME GraphInv, LinkInv, NEW t \in Threads, NEW p, NEW L, NEW q,
         Goto(t, p), Set(t, L), Holds(t), WriteLevel(t, q), GoesOn(t, p, L),
         UNCHANGED <<entry, entryLevel, handle>>,
         \A y \in Elements : /\ Exists(q, y) <=> Exists(At(t), y)
                             /\ Exists(At(t), y) => q[y].lower = At(t)[y].lower,
         \A y \in Elements \ Linked[loc[t].level] : SameLinks(q[y], At(t)[y]),
         LevelLinks(q, Linked[loc[t].level]),
         \A a \in Linked[loc[t].level] : q[a].inc # {} =>
           /\ a \in BeingLinked[loc[t].level]
           /\ Linking(t, loc[t].level) /\ loc[t].e = a =>
                p = "ins_linking" /\ L.level = loc[t].level /\ L.e = a,
         \A u \in Threads \ {t} : Linking(u, loc[t].level) =>
           KeepsLinking(u, At(t), q, Linked[loc[t].level]),
         CallLinks(p, L, held'[t], nodes', Linked, entry, entryLevel)
  PROVE  LinkInv'
<1> DEFINE l == loc[t].level
<1>1. l \in Levels /\ nodes \in [Levels -> LevelType]
  BY LevelFacts
<1>2. \A k \in Levels : nodes'[k] = IF k = l THEN q ELSE nodes[k]
  BY <1>1 DEF WriteLevel
<1>3. pc'[t] = p /\ loc'[t] = L
  BY DEF Goto, Set, GraphInv, TypeOK
<1>4. Others(t)
  BY DEF Others, Goto, Set, Holds, GraphInv, TypeOK
<1>5. \A x \in Elements, k \in Levels :
        /\ Exists(nodes'[k], x) <=> Exists(nodes[k], x)
        /\ Exists(nodes'[k], x) => nodes'[k][x].lower = nodes[k][x].lower
  BY <1>1, <1>2 DEF At, Exists
<1>6. Linked' = Linked
  <2>1. \A x \in Elements, k \in Levels : Exists(nodes[k], x) =>
          ((L.e = x => ~Detached(p, L, k))
           <=> (loc[t].e = x => ~Detached(pc[t], loc[t], k)))
    BY DEF GoesOn
  <2>2. \A x \in Elements, k \in Levels :
           (/\ Exists(nodes'[k], x)
            /\ loc'[t].e = x => ~Detached(pc'[t], loc'[t], k))
           <=> (/\ Exists(nodes[k], x)
                /\ loc[t].e = x => ~Detached(pc[t], loc[t], k))
    BY <1>3, <1>5, <2>1
  <2> QED BY <1>4, <2>2, SameLinked
<1>7. OthersKept(t)
  <2>1. \A k \in Levels : \A x \in Linked[k] : x \in Linked'[k]
    BY <1>6
  <2>2. \A k \in Levels : \A x \in Elements : x \notin Linked[k] =>
          SameLinks(nodes'[k][x], nodes[k][x])
    BY <1>2 DEF SameLinks, At
  <2>3. ASSUME NEW u \in Threads \ {t}, NEW k \in Levels, Linking(u, k)
        PROVE  KeepsLinking(u, nodes[k], nodes'[k], Linked[k])
    <3>1. CASE k = l
      BY <1>2, <2>3, <3>1 DEF At
    <3>2. CASE k # l
      BY <1>2, <3>2 DEF KeepsLinking
    <3> QED BY <3>1, <3>2
  <2> QED BY <1>4, <1>5, <2>1, <2>2, <2>3 DEF OthersKept, KeepsLinking
<1>8. ASSUME NEW k \in Levels PROVE LevelOK(nodes'[k], Linked'[k], BeingLinked'[k])
  <2>1. CASE k # l
    <3>1. nodes'[k] = nodes[k] /\ ~Linking(t, k)
      BY <1>2, <2>1 DEF Linking
    <3> QED BY <1>4, <1>6, <3>1, LevelKept DEF SameLinks
  <2>2. CASE k = l
    <3>1. nodes'[k] = q
      BY <1>2, <2>2
    <3>2. \A a \in Elements \ Linked[l] : Exists(nodes[l], a) => nodes[l][a].out = {}
      BY <1>1, LevelLinked
    <3>3. \A a \in Elements \ Linked[l] : Exists(q, a) => q[a].out = {}
      BY <3>2 DEF SameLinks, At
    <3>4. ASSUME NEW a \in Linked[l], q[a].inc # {} PROVE a \in BeingLinked'[l]
      BY <1>1, <1>3, <1>4, <3>4, BeingLinkedKept
    <3> QED BY <1>6, <2>2, <3>1, <3>3, <3>4 DEF LevelOK
  <2> QED BY <2>1, <2>2
<1>9. ElementsOK'
  BY <1>3, <1>4, <1>5, ElementsKept DEF GoesOn
<1>10. EntryAtTop'
  BY DEF LinkInv, EntryAtTop
<1>11. CallLinks(pc'[t], loc'[t], held'[t], nodes', Linked', entry', entryLevel')
  BY <1>3, <1>6
<1> QED BY <1>7, <1>8, <1>9, <1>10, <1>11, LinksTogether

\* A step that writes no node, and neither links nor unlinks.
LEMMA QuietStep ==
  ASSUME GraphInv, LinkInv, NEW t \in Threads, NEW p, NEW L,
         Goto(t, p), Set(t, L), Holds(t), GoesOn(t, p, L), pc[t] # "ins_linking",
         UNCHANGED <<nodes, entry, entryLevel, handle>>,
         CallLinks(p, L, held'[t], nodes, Linked, entry, entryLevel)
  PROVE  LinkInv'
<1>1. loc[t].level \in Levels /\ nodes \in [Levels -> LevelType]
  BY LevelFacts
<1>2. WriteLevel(t, At(t))
  BY <1>1 DEF WriteLevel, At
<1>3. /\ LevelLinks(At(t), Linked[loc[t].level])
      /\ \A a \in Linked[loc[t].level] :
           At(t)[a].inc # {} => a \in BeingLinked[loc[t].level]
  BY <1>1, LevelLinked DEF At
<1>4. ~Linking(t, loc[t].level)
  BY DEF Linking
<1>5. \A y : SameLinks(At(t)[y], At(t)[y])
  BY DEF SameLinks
<1>6. \A u \in Threads \ {t} : Linking(u, loc[t].level) =>
        KeepsLinking(u, At(t), At(t), Linked[loc[t].level])
  BY DEF KeepsLinking
<1>7. CallLinks(p, L, held'[t], nodes', Linked, entry, entryLevel)
  OBVIOUS
<1> QED BY <1>2, <1>3, <1>4, <1>5, <1>6, <1>7, WriteStep

-------------------------------------------------------------------------------
(* Searches.                                                               *)

\* A thread that can share the graph lock, or have it alone, and has it not yet.
LEMMA NobodyAlone ==
  ASSUME GraphInv, NEW t \in Threads, pc[t] \in NoLockPcs,
         CanShare(t, GraphLock) \/ CanLock(t, GraphLock)
  PROVE  \A u \in Threads : held[u][GraphLock] # "X"
<1>1. held[t][GraphLock] = "none"
  BY CallFacts DEF HeldOK
<1> QED BY <1>1 DEF CanShare, CanLock

\* An insert that has made no node yet.
LEMMA InsertOn ==
  ASSUME GraphInv, LinkInv, NEW t \in Threads,
         pc[t] \in {"ins_upgrade", "ins_lock", "ins_search", "ins_descend"},
         NEW p \in {"ins_lock", "ins_search", "ins_descend", "ins_create"}, NEW L,
         Goto(t, p), Set(t, L), Holds(t), L.e = loc[t].e, L.over = loc[t].over,
         UNCHANGED <<nodes, entry, entryLevel, handle>>,
         SearchOK(p, L, held'[t], Linked, entry, entryLevel)
  PROVE  LinkInv'
<1>1. NewOK(pc[t], loc[t], held[t], nodes, Linked) /\ ShrinkOK(pc[t], loc[t], Linked)
  BY CallLinked
<1>2. \A k \in Levels : ~Exists(nodes[k], L.e)
  BY <1>1 DEF NewOK, InsertPcs, CreatedPcs
<1>3. NewOK(p, L, held'[t], nodes, Linked)
  BY <1>2 DEF NewOK
<1>4. PendOK(p, L, nodes)
  BY DEF PendOK
<1>5. ShrinkOK(p, L, Linked)
  BY <1>1 DEF ShrinkOK, InsertPcs, ShrinkPcs, RepairPcs
<1>6. RemovalOK(p, L, nodes, Linked, entry)
  BY DEF RemovalOK, RemovePcs
<1>7. GoesOn(t, p, L)
  <2>1. \A k \in Levels : Detached(p, L, k) /\ Detached(pc[t], loc[t], k)
    BY DEF Detached, InsertPcs, CreatedPcs
  <2>2. p \in InsertPcs
    BY DEF InsertPcs
  <2>3. \A k \in Levels : ~Cut(pc[t], loc[t], k)
    BY DEF Cut
  <2> QED BY <2>1, <2>2, <2>3 DEF GoesOn
<1>8. CallLinks(p, L, held'[t], nodes, Linked, entry, entryLevel)
  BY <1>3, <1>4, <1>5, <1>6 DEF CallLinks
<1>9. pc[t] # "ins_linking"
  OBVIOUS
<1> QED BY <1>7, <1>8, <1>9, QuietStep

\* A step of search_knn, which writes nothing, owes what its candidates are.
LEMMA KnnOn ==
  ASSUME GraphInv, LinkInv, NEW t \in Threads, pc[t] \in KnnPcs \cup {"idle"},
         NEW p \in KnnPcs \cup {"idle"}, NEW L,
         Goto(t, p), Set(t, L), Holds(t), L.e = Nil,
         UNCHANGED <<nodes, entry, entryLevel, handle>>,
         SearchOK(p, L, held'[t], Linked, entry, entryLevel)
  PROVE  LinkInv'
<1>1. loc[t].e = Nil /\ Nil \notin Elements
  BY CallFacts, GraphAssumption DEF LocalsOK
<1>2. NewOK(p, L, held'[t], nodes, Linked) /\ PendOK(p, L, nodes)
      /\ ShrinkOK(p, L, Linked) /\ RemovalOK(p, L, nodes, Linked, entry)
  BY DEF NewOK, PendOK, ShrinkOK, RemovalOK, KnnPcs, InsertPcs, ShrinkPcs, RepairPcs,
     RemovePcs
<1>3. GoesOn(t, p, L)
  <2>1. pc[t] \notin InsertPcs /\ \A k \in Levels : ~Cut(pc[t], loc[t], k)
    BY DEF Cut, InsertPcs, KnnPcs
  <2> QED BY <1>1, <2>1 DEF GoesOn
<1>4. CallLinks(p, L, held'[t], nodes, Linked, entry, entryLevel)
  BY <1>2 DEF CallLinks
<1>5. pc[t] # "ins_linking"
  BY DEF KnnPcs
<1> QED BY <1>3, <1>4, <1>5, QuietStep

\* A call reads the entry point.
LEMMA InsertCallLinks ==
  ASSUME GraphInv, LinkInv, NEW t \in Threads, NEW e \in Elements, NEW top \in Levels,
         InsertCall(t, e, top)
  PROVE  LinkInv'
<1> DEFINE elevel == IF entry = Nil THEN 0 ELSE entryLevel
           up     == entry = Nil \/ top > elevel
           m      == Max({elevel, top})
           C      == {entry} \ {Nil}
           L      == [NoLocals EXCEPT !.e = e, !.top = top, !.elevel = elevel,
                                      !.level = m, !.cand = C]
           p      == IF up THEN "ins_upgrade" ELSE "ins_lock"
<1>1. /\ pc[t] = "idle" /\ Unused(e) /\ CanShare(t, GraphLock)
      /\ \A k \in Levels : ~Exists(nodes[k], e)
      /\ Set(t, L) /\ Goto(t, p)
      /\ IF up THEN UNCHANGED held ELSE HoldAlso(t, GraphLock, "S")
      /\ UNCHANGED <<nodes, entry, entryLevel, handle>>
  BY DEF InsertCall
<1>2. /\ elevel \in Levels /\ elevel \in Int /\ top \in Int /\ entryLevel \in Levels
      /\ entry \in Elements \cup {Nil}
  BY LevelFacts, LockSets DEF GraphInv, TypeOK
<1>3. m = IF elevel >= top THEN elevel ELSE top
  BY <1>2, MaxOfTwo
<1>4. /\ L.e = e /\ L.top = top /\ L.elevel = elevel /\ L.level = m /\ L.cand = C
      /\ L.over = {}
  <2> HIDE DEF elevel, m, C
  <2> QED BY DEF NoLocals
<1>5. Holds(t)
  BY <1>1, SameLocks, HoldAlsoHolds, LockSets DEF Modes
<1>6. loc[t].e = Nil /\ Nil \notin Elements /\ p \in InsertPcs \ (CreatedPcs \cup RemovePcs)
  BY <1>1, CallFacts, GraphAssumption DEF LocalsOK, InsertPcs, CreatedPcs, RemovePcs
<1>7. SearchOK(p, L, held'[t], Linked, entry, entryLevel)
  <2>1. p \in CandPcs /\ p \notin FromPcs \cup KnnPcs \cup {"ins_search", "ins_descend"}
    BY DEF CandPcs, FromPcs, KnnPcs
  <2>2. p = "ins_lock" /\ m > top => m <= elevel
    BY <1>2, <1>3
  <2>3. ASSUME p # "ins_upgrade", NEW x \in C
        PROVE  x \in Linked[CandAt(L)] /\ x = entry /\ CandAt(L) = entryLevel
    <3>1. ~up /\ x = entry /\ entry # Nil
      BY <2>3
    <3>2. elevel = entryLevel /\ CandAt(L) = entryLevel
      BY <1>2, <1>3, <1>4, <3>1 DEF CandAt
    <3>3. entry \in Linked[entryLevel]
      BY <1>1, <3>1, NobodyAlone, EntryLinked DEF NoLockPcs
    <3> QED BY <3>1, <3>2, <3>3
  <2> HIDE DEF p, L, m, C, up, elevel
  <2> QED BY <1>4, <2>1, <2>2, <2>3 DEF SearchOK
<1>8. NewOK(p, L, held'[t], nodes, Linked)
  BY <1>1, <1>4, <1>6 DEF NewOK, CreatedPcs
<1>9. PendOK(p, L, nodes) /\ ShrinkOK(p, L, Linked) /\ RemovalOK(p, L, nodes, Linked, entry)
  BY <1>4, <1>6 DEF PendOK, ShrinkOK, RemovalOK, ShrinkPcs, RepairPcs, RemovePcs
<1>10. GoesOn(t, p, L)
  <2>1. pc[t] \notin InsertPcs /\ \A k \in Levels : ~Cut(pc[t], loc[t], k)
    BY <1>1 DEF Cut, InsertPcs
  <2> QED BY <1>1, <1>4, <1>6, <2>1 DEF GoesOn
<1>11. CallLinks(p, L, held'[t], nodes, Linked, entry, entryLevel)
  BY <1>7, <1>8, <1>9 DEF CallLinks
<1> HIDE DEF p, L
<1> QED BY <1>1, <1>5, <1>10, <1>11, QuietStep

\* insert starts again from the entry point it reads under the exclusive lock.
LEMMA InsertUpgradeLinks ==
  ASSUME GraphInv, LinkInv, NEW t \in Threads, InsertUpgrade(t)
  PROVE  LinkInv'
<1> DEFINE elevel == IF entry = Nil THEN loc[t].elevel ELSE entryLevel
           level  == Max({elevel, loc[t].top})
           C      == {entry} \ {Nil}
           nw     == entry = Nil \/ loc[t].top > elevel
           L      == [loc[t] EXCEPT !.elevel = elevel, !.level = level,
                                    !.cand = C, !.newEp = nw]
<1>1. /\ pc[t] = "ins_upgrade" /\ CanLock(t, GraphLock)
      /\ Set(t, L) /\ Goto(t, "ins_lock") /\ HoldAlso(t, GraphLock, "X")
      /\ UNCHANGED <<nodes, entry, entryLevel, handle>>
  BY DEF InsertUpgrade
<1>2. /\ elevel \in Int /\ loc[t].top \in Int /\ entryLevel \in Levels
      /\ loc[t] \in Locals
  BY LevelFacts, LockSets, CallFacts
<1>3. level = IF elevel >= loc[t].top THEN elevel ELSE loc[t].top
  BY <1>2, MaxOfTwo
<1>4. /\ L.e = loc[t].e /\ L.top = loc[t].top /\ L.elevel = elevel /\ L.level = level
      /\ L.cand = C /\ L.over = loc[t].over
  <2> HIDE DEF elevel, level, C, nw
  <2> QED BY <1>2 DEF Locals
<1>5. Holds(t)
  BY <1>1, HoldAlsoHolds, LockSets DEF Modes
<1>6. SearchOK("ins_lock", L, held'[t], Linked, entry, entryLevel)
  <2>1. "ins_lock" \in CandPcs
        /\ "ins_lock" \notin FromPcs \cup KnnPcs \cup {"ins_search", "ins_descend"}
    BY DEF CandPcs, FromPcs, KnnPcs
  <2>2. level > loc[t].top => level <= elevel
    BY <1>2, <1>3
  <2>3. ASSUME NEW x \in C
        PROVE  x \in Linked[CandAt(L)] /\ x = entry /\ CandAt(L) = entryLevel
    <3>1. x = entry /\ entry # Nil
      BY <2>3
    <3>2. elevel = entryLevel /\ CandAt(L) = entryLevel
      BY <1>2, <1>3, <1>4, <3>1 DEF CandAt
    <3>3. entry \in Linked[entryLevel]
      BY <1>1, <3>1, NobodyAlone, EntryLinked DEF NoLockPcs
    <3> QED BY <3>1, <3>2, <3>3
  <2> HIDE DEF L, level, C, elevel
  <2> QED BY <1>4, <2>1, <2>2, <2>3 DEF SearchOK
<1> HIDE DEF L
<1> QED BY <1>1, <1>4, <1>5, <1>6, InsertOn

\* search_knn starts from the entry point.
LEMMA KnnCallLinks ==
  ASSUME GraphInv, LinkInv, NEW t \in Threads, KnnCall(t)
  PROVE  LinkInv'
<1> DEFINE L == [NoLocals EXCEPT !.cand = {entry}, !.level = entryLevel,
                                 !.elevel = entryLevel]
<1>1. /\ pc[t] = "idle" /\ CanShare(t, GraphLock) /\ entry # Nil
      /\ Set(t, L) /\ Goto(t, "knn_lock") /\ HoldAlso(t, GraphLock, "S")
      /\ UNCHANGED <<nodes, entry, entryLevel, handle>>
  BY DEF KnnCall
<1>2. entryLevel \in Levels /\ entryLevel \in Int
  BY LevelFacts, LockSets
<1>3. L.e = Nil /\ L.elevel = entryLevel /\ L.level = entryLevel /\ L.cand = {entry}
  BY DEF NoLocals
<1>4. Holds(t)
  BY <1>1, HoldAlsoHolds, LockSets DEF Modes
<1>5. entry \in Linked[entryLevel]
  BY <1>1, NobodyAlone, EntryLinked DEF NoLockPcs
<1> HIDE DEF L
<1>6. CandAt(L) = entryLevel
  BY <1>2, <1>3 DEF CandAt
<1>7. SearchOK("knn_lock", L, held'[t], Linked, entry, entryLevel)
  BY <1>2, <1>3, <1>5, <1>6 DEF SearchOK, CandPcs, KnnPcs, FromPcs
<1> QED BY <1>1, <1>3, <1>4, <1>7, KnnOn DEF KnnPcs

\* The first level is locked.
LEMMA FirstLockLinks ==
  ASSUME GraphInv, LinkInv, NEW t \in Threads, InsertLock(t) \/ KnnLock(t)
  PROVE  LinkInv'
<1> DEFINE l == loc[t].level
           L == loc[t]
<1>1. /\ HoldOnly(t, l, "S") /\ Set(t, L)
      /\ UNCHANGED <<nodes, entry, entryLevel, handle>>
  BY DEF InsertLock, KnnLock, Set, GraphInv, TypeOK
<1>2. l \in Levels /\ L.elevel \in Levels /\ l \in Int /\ L.elevel \in Int
  BY LevelFacts, LockSets
<1>3. /\ Holds(t) /\ \A j \in Levels : held'[t][j] = IF j = l THEN "S" ELSE "none"
  BY <1>1, <1>2, HoldOnlyHolds DEF Modes
<1>4. SearchOK(pc[t], L, held[t], Linked, entry, entryLevel)
      /\ HeldOK(pc[t], L, held[t], height)
  BY CallFacts, CallLinked
<1>5. ASSUME pc[t] \in {"ins_lock", "knn_lock"}, NEW x \in L.cand
      PROVE  /\ x \in Linked[CandAt(L)]
             /\ held'[t][CandAt(L)] # "none" \/ (x = entry /\ CandAt(L) = entryLevel)
  <2>1. /\ x \in Linked[CandAt(L)]
        /\ held[t][CandAt(L)] # "none" \/ (x = entry /\ CandAt(L) = entryLevel)
    BY <1>4, <1>5 DEF SearchOK
  <2>2. CASE l <= L.elevel
    <3>1. CandAt(L) = l
      BY <2>2 DEF CandAt
    <3> QED BY <1>2, <1>3, <2>1, <3>1
  <2>3. CASE ~(l <= L.elevel)
    <3>1. CandAt(L) = L.elevel
      BY <2>3 DEF CandAt
    <3>2. held[t][L.elevel] = "none"
      BY <1>2, <1>4, <1>5, <2>3 DEF HeldOK, AbovePcs
    <3> QED BY <2>1, <3>1, <3>2
  <2> QED BY <2>2, <2>3
<1>6. held'[t][l] # "none"
  BY <1>2, <1>3
<1> HIDE DEF L, l
<1>7. CASE InsertLock(t)
  <2> DEFINE p == IF l > loc[t].top THEN "ins_search" ELSE "ins_create"
  <2>1. pc[t] = "ins_lock" /\ Goto(t, p)
    BY <1>7 DEF InsertLock, l
  <2>2. l > L.top => l <= L.elevel
    BY <1>4, <2>1 DEF SearchOK, L, l
  <2>3. SearchOK(p, L, held'[t], Linked, entry, entryLevel)
    <3>1. p \in CandPcs /\ p \notin KnnPcs \cup {"ins_descend", "ins_lock", "ins_upgrade"}
      BY DEF CandPcs, KnnPcs
    <3>2. p = "ins_search" => l <= L.elevel
      BY <2>2 DEF L
    <3> HIDE DEF p
    <3> QED BY <1>5, <1>6, <2>1, <3>1, <3>2 DEF SearchOK, L, l
  <2> HIDE DEF p
  <2>4. p \in {"ins_lock", "ins_search", "ins_descend", "ins_create"}
    BY DEF p
  <2> QED BY <1>1, <1>3, <2>1, <2>3, <2>4, InsertOn DEF L
<1>8. CASE KnnLock(t)
  <2>1. pc[t] = "knn_lock" /\ Goto(t, "knn_search")
    BY <1>8 DEF KnnLock
  <2>2. l <= L.elevel
    BY <1>4, <2>1 DEF SearchOK, L, l, KnnPcs
  <2>3. SearchOK("knn_search", L, held'[t], Linked, entry, entryLevel)
    BY <1>5, <1>6, <2>1, <2>2 DEF SearchOK, L, l, CandPcs, KnnPcs
  <2>4. L.e = Nil
    BY <2>1, CallFacts DEF LocalsOK, KnnPcs, L
  <2> QED BY <1>1, <1>3, <2>1, <2>3, <2>4, KnnOn DEF L, KnnPcs
<1> QED BY <1>7, <1>8

\* The search of a level finds linked nodes.
LEMMA NarrowLinks ==
  ASSUME GraphInv, LinkInv, NEW t \in Threads, InsertSearch(t) \/ KnnSearch(t)
  PROVE  LinkInv'
<1>1. Narrow(t) /\ UNCHANGED <<nodes, entry, entryLevel, height, held, handle>>
      /\ pc[t] \in {"ins_search", "knn_search"}
  BY DEF InsertSearch, KnnSearch
<1>2. PICK W \in SearchResults(t, loc[t].cand, {}, GREEDY_DESCENT_EF) :
        Set(t, [loc[t] EXCEPT !.cand = W])
  BY <1>1 DEF Narrow
<1> DEFINE L == [loc[t] EXCEPT !.cand = W]
           p == IF pc[t] = "ins_search" THEN "ins_descend" ELSE "knn_descend"
<1>3. Goto(t, p)
  BY <1>1 DEF InsertSearch, KnnSearch
<1>4. /\ L.e = loc[t].e /\ L.top = loc[t].top /\ L.level = loc[t].level
      /\ L.elevel = loc[t].elevel /\ L.cand = W /\ L.over = loc[t].over
      /\ loc[t].level \in Levels
  BY CallFacts, LevelFacts DEF Locals
<1>5. SearchOK(pc[t], loc[t], held[t], Linked, entry, entryLevel)
  BY CallLinked
<1>6. loc[t].level <= loc[t].elevel /\ held[t][loc[t].level] # "none"
  BY <1>1, <1>5 DEF SearchOK, KnnPcs, FromPcs
<1>7. W \subseteq Linked[loc[t].level]
  BY <1>1, <1>2, <1>6, CandType, SearchResultsLive, SearchLinked
<1>8. CandAt(L) = loc[t].level
  <2> HIDE DEF L
  <2> QED BY <1>4, <1>6 DEF CandAt
<1>9. Holds(t) /\ held'[t] = held[t]
  BY <1>1, SameLocks
<1>10. p \in CandPcs /\ p \in {"ins_descend", "knn_descend"}
  BY DEF CandPcs, KnnPcs
<1>11. SearchOK(p, L, held'[t], Linked, entry, entryLevel)
  <2> HIDE DEF L, p
  <2> QED BY <1>4, <1>6, <1>7, <1>8, <1>9, <1>10 DEF SearchOK
<1>12. CASE pc[t] = "ins_search"
  <2>1. p = "ins_descend"
    BY <1>12
  <2> HIDE DEF L, p
  <2> QED BY <1>1, <1>2, <1>3, <1>4, <1>9, <1>11, <1>12, <2>1, InsertOn DEF L
<1>13. CASE pc[t] = "knn_search"
  <2>1. p = "knn_descend" /\ loc[t].e = Nil
    BY <1>13, CallFacts DEF LocalsOK, KnnPcs
  <2> HIDE DEF L, p
  <2> QED BY <1>1, <1>2, <1>3, <1>4, <1>9, <1>11, <1>13, <2>1, KnnOn DEF L, KnnPcs
<1> QED BY <1>1, <1>12, <1>13

\* What is a candidate on a level is linked on the level below as well.
LEMMA DescendLinks ==
  ASSUME GraphInv, LinkInv, NEW t \in Threads, InsertDescend(t) \/ KnnDescend(t)
  PROVE  LinkInv'
<1> DEFINE l == loc[t].level - 1
           L == [loc[t] EXCEPT !.level = l]
           p == IF pc[t] = "knn_descend" \/ l > loc[t].top
                THEN IF pc[t] = "knn_descend" THEN "knn_search" ELSE "ins_search"
                ELSE "ins_create"
<1>1. /\ HoldOnly(t, l, "S") /\ Set(t, L) /\ pc[t] \in {"ins_descend", "knn_descend"}
      /\ Goto(t, p) /\ UNCHANGED <<nodes, entry, entryLevel, height, handle>>
  BY DEF InsertDescend, KnnDescend
<1>2. /\ LocalsOK(pc[t], loc[t], height)
      /\ SearchOK(pc[t], loc[t], held[t], Linked, entry, entryLevel)
  BY CallFacts, CallLinked
<1>3. /\ l \in Levels /\ l \in Int /\ loc[t].level \in Levels /\ loc[t].level \in Int
      /\ loc[t].elevel \in Int /\ l \in 0 .. loc[t].level
  BY <1>1, <1>2, LevelFacts, GraphAssumption DEF LocalsOK, Levels
<1>4. loc[t].level <= loc[t].elevel
  BY <1>1, <1>2 DEF SearchOK, KnnPcs
<1>5. CandAt(loc[t]) = loc[t].level
  BY <1>4 DEF CandAt
<1>6. loc[t].cand \subseteq Linked[loc[t].level]
  BY <1>1, <1>2, <1>5 DEF SearchOK
<1>7. loc[t].cand \subseteq Linked[l]
  BY <1>3, <1>6, LinkedBelow
<1>8. /\ L.e = loc[t].e /\ L.top = loc[t].top /\ L.level = l
      /\ L.elevel = loc[t].elevel /\ L.cand = loc[t].cand /\ L.over = loc[t].over
  <2> HIDE DEF l
  <2> QED BY <1>3, CallFacts DEF Locals
<1>9. /\ Holds(t) /\ \A j \in Levels : held'[t][j] = IF j = l THEN "S" ELSE "none"
  BY <1>1, <1>3, HoldOnlyHolds DEF Modes
<1>10. held'[t][l] # "none" /\ l <= loc[t].elevel
  BY <1>3, <1>4, <1>9
<1>11. p \in CandPcs /\ p \in {"knn_search", "ins_search", "ins_create"}
  BY DEF CandPcs, KnnPcs
<1> HIDE DEF L, p, l
<1>12. CandAt(L) = l
  BY <1>8, <1>10 DEF CandAt
<1>13. SearchOK(p, L, held'[t], Linked, entry, entryLevel)
  BY <1>7, <1>8, <1>10, <1>11, <1>12 DEF SearchOK
<1>14. CASE pc[t] = "ins_descend"
  <2>1. p \in {"ins_search", "ins_create"}
    BY <1>14 DEF p
  <2> QED BY <1>1, <1>8, <1>9, <1>13, <1>14, <2>1, InsertOn
<1>15. CASE pc[t] = "knn_descend"
  <2>1. p = "knn_search" /\ loc[t].e = Nil
    BY <1>15, CallFacts DEF LocalsOK, KnnPcs, p
  <2> QED BY <1>1, <1>8, <1>9, <1>13, <1>15, <2>1, KnnOn DEF KnnPcs
<1> QED BY <1>1, <1>14, <1>15

\* search_knn has no candidates left when it returns.
LEMMA KnnReturnLinks ==
  ASSUME GraphInv, LinkInv, NEW t \in Threads, KnnReturn(t)
  PROVE  LinkInv'
<1>1. /\ pc[t] = "knn_search" /\ Return(t) /\ Goto(t, "idle") /\ Set(t, NoLocals)
      /\ UNCHANGED <<nodes, entry, entryLevel, height, handle>>
  BY DEF KnnReturn, Return
<1>2. Holds(t)
  BY <1>1, ReturnMoves DEF Moves, Holds
<1>3. NoLocals.cand = {} /\ NoLocals.e = Nil
  BY DEF NoLocals
<1>4. SearchOK("idle", NoLocals, held'[t], Linked, entry, entryLevel)
  BY <1>3 DEF SearchOK, KnnPcs, FromPcs
<1> QED BY <1>1, <1>2, <1>3, <1>4, KnnOn DEF KnnPcs

-------------------------------------------------------------------------------
(* New nodes.                                                              *)

\* insert goes down a level; the candidates it keeps have their lower nodes.
LEMMA InsertKeepLinks ==
  ASSUME GraphInv, LinkInv, NEW t \in Threads, InsertKeep(t)
  PROVE  LinkInv'
<1> DEFINE l == loc[t].level - 1
           L == [loc[t] EXCEPT !.level = l]
<1>1. /\ pc[t] = "ins_keep" /\ HoldAlso(t, l, "S")
      /\ Goto(t, "ins_create") /\ Set(t, L)
      /\ UNCHANGED <<nodes, entry, entryLevel, height, handle>>
  BY DEF InsertKeep
<1>2. /\ LocalsOK("ins_keep", loc[t], height)
      /\ SearchOK("ins_keep", loc[t], held[t], Linked, entry, entryLevel)
      /\ NewOK("ins_keep", loc[t], held[t], nodes, Linked)
      /\ ShrinkOK("ins_keep", loc[t], Linked)
  BY <1>1, CallFacts, CallLinked
<1>3. /\ l \in Levels /\ l \in Int /\ loc[t].level \in Levels /\ loc[t].level \in Int
      /\ loc[t].elevel \in Levels /\ loc[t].elevel \in Int /\ l \in 0 .. loc[t].level
      /\ loc[t].level = l + 1
  BY <1>2, LevelFacts, GraphAssumption DEF LocalsOK, Levels
<1>4. /\ L.e = loc[t].e /\ L.top = loc[t].top /\ L.level = l
      /\ L.elevel = loc[t].elevel /\ L.cand = loc[t].cand /\ L.over = loc[t].over
  <2> HIDE DEF l
  <2> QED BY <1>3, CallFacts DEF Locals
<1>5. /\ Holds(t) /\ held'[t][l] = "S"
      /\ \A j \in Levels : held[t][j] # "none" => held'[t][j] # "none"
  BY <1>1, <1>3, HoldAlsoHolds, LockSets DEF Modes
<1> HIDE DEF L, l
<1>6. SearchOK("ins_create", L, held'[t], Linked, entry, entryLevel)
  <2>1. ASSUME NEW x \in loc[t].cand
        PROVE  /\ x \in Linked[CandAt(L)]
               /\ held'[t][CandAt(L)] # "none" \/ (x = entry /\ CandAt(L) = entryLevel)
    <3>1. /\ x \in Linked[CandAt(loc[t])]
          /\ held[t][CandAt(loc[t])] # "none" \/ (x = entry /\ CandAt(loc[t]) = entryLevel)
      BY <1>2 DEF SearchOK
    <3>2. CASE loc[t].level <= loc[t].elevel
      <4>1. CandAt(loc[t]) = loc[t].level /\ CandAt(L) = l
        BY <1>3, <1>4, <3>2 DEF CandAt
      <4>2. x \in Linked[l]
        BY <1>3, <3>1, <4>1, LinkedBelow
      <4> QED BY <1>5, <4>1, <4>2
    <3>3. CASE ~(loc[t].level <= loc[t].elevel)
      <4>1. CandAt(loc[t]) = loc[t].elevel /\ CandAt(L) = loc[t].elevel
        BY <1>3, <1>4, <3>3 DEF CandAt
      <4> QED BY <1>3, <1>5, <3>1, <4>1
    <3> QED BY <3>2, <3>3
  <2> QED BY <1>4, <1>5, <2>1 DEF SearchOK, CandPcs, KnnPcs
<1>7. NewOK("ins_create", L, held'[t], nodes, Linked)
  <2>1. ASSUME NEW k \in Levels, Exists(nodes[k], L.e)
        PROVE  /\ held'[t][k] # "none" /\ k <= L.top
               /\ k > L.level
               /\ nodes[k][L.e].out = {} /\ nodes[k][L.e].ovf = {}
               /\ nodes[k][L.e].inc \subseteq Linked[k]
    <3>1. Detached("ins_keep", loc[t], k)
      BY DEF Detached, InsertPcs, CreatedPcs
    <3>2. /\ held[t][k] # "none" /\ k <= L.top /\ k >= loc[t].level
          /\ nodes[k][L.e].out = {} /\ nodes[k][L.e].ovf = {}
          /\ nodes[k][L.e].inc \subseteq Linked[k]
      BY <1>2, <1>4, <2>1, <3>1 DEF NewOK, InsertPcs
    <3>3. k \in Int
      BY <2>1, LockSets
    <3>4. k > l
      BY <1>3, <3>2, <3>3
    <3> QED BY <1>4, <1>5, <3>2, <3>4
  <2> QED BY <2>1 DEF NewOK, InsertPcs, CreatedPcs
<1>8. /\ PendOK("ins_create", L, nodes) /\ ShrinkOK("ins_create", L, Linked)
      /\ RemovalOK("ins_create", L, nodes, Linked, entry)
  BY <1>2, <1>4 DEF PendOK, ShrinkOK, RemovalOK, ShrinkPcs, RepairPcs, RemovePcs, InsertPcs
<1>9. GoesOn(t, "ins_create", L)
  <2>1. \A k \in Levels : Detached("ins_create", L, k) /\ Detached(pc[t], loc[t], k)
    BY <1>1 DEF Detached, InsertPcs, CreatedPcs
  <2>2. \A k \in Levels : Cut(pc[t], loc[t], k) => Cut("ins_create", L, k)
    BY <1>1, <1>3, <1>4 DEF Cut
  <2>3. "ins_create" \in InsertPcs
    BY DEF InsertPcs
  <2> QED BY <1>4, <2>1, <2>2, <2>3 DEF GoesOn
<1>10. CallLinks("ins_create", L, held'[t], nodes, Linked, entry, entryLevel)
  BY <1>6, <1>7, <1>8 DEF CallLinks
<1> QED BY <1>1, <1>5, <1>9, <1>10, QuietStep

\* A new node, and the lower level of the one above it.
Creates(t, N) ==
  LET l == loc[t].level
      e == loc[t].e
  IN  \A k \in Levels :
        /\ \A x \in Elements \ {e} : nodes'[k][x] = nodes[k][x]
        /\ k = l => nodes'[k][e] = NewNode(N) /\ Exists(nodes'[k], e)
        /\ k # l =>
             /\ Exists(nodes'[k], e) <=> Exists(nodes[k], e)
             /\ SameLinks(nodes'[k][e], nodes[k][e])
             /\ Exists(nodes[k], e) =>
                  nodes'[k][e].lower = (nodes[k][e].lower \/ k = l + 1)

\* The records after create_node, in the form CreateStep takes.
LEMMA CreateRecords ==
  ASSUME GraphInv, LinkInv, NEW t \in Threads, pc[t] = "ins_create",
         NEW N \in SUBSET Elements,
         nodes' = [k \in Levels |->
           IF k = loc[t].level THEN [nodes[k] EXCEPT ![loc[t].e] = NewNode(N)]
           ELSE IF k = loc[t].level + 1 /\ loc[t].level < loc[t].top
                THEN [nodes[k] EXCEPT ![loc[t].e].lower = TRUE]
           ELSE nodes[k]]
  PROVE  Creates(t, N)
<1> DEFINE l == loc[t].level
           e == loc[t].e
<1>1. /\ LocalsOK("ins_create", loc[t], height)
      /\ OwnsOK("ins_create", loc[t], nodes, handle)
      /\ NewOK("ins_create", loc[t], held[t], nodes, Linked)
  BY CallFacts, CallLinked
<1>2. l \in Levels /\ l \in Int /\ loc[t].top \in Int /\ l <= loc[t].top /\ e \in Elements
  BY <1>1, LevelFacts, LockSets DEF LocalsOK, InsertPcs
<1>3. ASSUME NEW k \in Levels
      PROVE  /\ \A x \in Elements \ {e} : nodes'[k][x] = nodes[k][x]
             /\ k = l => nodes'[k][e] = NewNode(N) /\ Exists(nodes'[k], e)
             /\ k # l =>
                  /\ Exists(nodes'[k], e) <=> Exists(nodes[k], e)
                  /\ SameLinks(nodes'[k][e], nodes[k][e])
                  /\ Exists(nodes[k], e) =>
                       nodes'[k][e].lower = (nodes[k][e].lower \/ k = l + 1)
  <2>1. nodes[k] \in LevelType /\ k \in Int
    BY LevelFacts, LockSets
  <2>2. CASE k = l
    <3>1. nodes'[k] = [nodes[k] EXCEPT ![e] = NewNode(N)]
      BY <2>2
    <3>2. NewNode(N) # FreeNode
      BY NewNodeType, NodeAssumption
    <3> QED BY <1>2, <2>1, <2>2, <3>1, <3>2 DEF LevelType, Exists
  <2>3. CASE k = l + 1 /\ l < loc[t].top
    <3>1. nodes'[k] = [nodes[k] EXCEPT ![e].lower = TRUE] /\ k # l
      BY <1>2, <2>3
    <3>2. Exists(nodes[k], e)
      BY <1>1, <1>2, <2>3 DEF OwnsOK, ChainFrom
    <3>3. nodes[k][e] \in NodeRec
      BY <1>2, <2>1, <3>2, NodeOfLevel
    <3> DEFINE rec == [nodes[k][e] EXCEPT !.lower = TRUE]
    <3>4. rec \in NodeRec /\ SameLinks(rec, nodes[k][e]) /\ rec.lower = TRUE
      BY <3>3 DEF NodeRec, SameLinks
    <3>5. nodes'[k] = [nodes[k] EXCEPT ![e] = rec]
      BY <3>1
    <3> HIDE DEF rec
    <3>6. rec # FreeNode
      BY <3>4, NodeAssumption
    <3>7. nodes'[k][e] = rec /\ \A x \in Elements \ {e} : nodes'[k][x] = nodes[k][x]
      BY <1>2, <2>1, <3>5 DEF LevelType
    <3> QED BY <2>3, <3>1, <3>2, <3>4, <3>6, <3>7 DEF Exists
  <2>4. CASE k # l /\ ~(k = l + 1 /\ l < loc[t].top)
    <3>1. nodes'[k] = nodes[k]
      BY <2>4
    <3>2. Exists(nodes[k], e) => k <= loc[t].top
      BY <1>1 DEF NewOK, InsertPcs
    <3>3. Exists(nodes[k], e) => k # l + 1
      BY <1>2, <2>1, <2>4, <3>2
    <3>4. Exists(nodes[k], e) => nodes[k][e].lower \in BOOLEAN
      BY <1>2, <2>1, NodeOfLevel DEF NodeRec
    <3> QED BY <2>4, <3>1, <3>3, <3>4 DEF SameLinks
  <2> QED BY <2>2, <2>3, <2>4
<1> QED BY <1>3 DEF Creates

\* create_node: the node is on no search path, and its neighbours are linked.
LEMMA CreateStep ==
  ASSUME GraphInv, LinkInv, NEW t \in Threads, pc[t] = "ins_create", NEW N, NEW L, NEW p,
         p = (IF loc[t].level = 0 THEN "ins_link" ELSE "ins_keep"),
         Goto(t, p), Set(t, L), Creates(t, N), N \subseteq Linked[loc[t].level],
         UNCHANGED <<entry, entryLevel, held, handle>>,
         L.e = loc[t].e, L.top = loc[t].top, L.level = loc[t].level,
         L.over = loc[t].over,
         SearchOK(p, L, held[t], Linked, entry, entryLevel)
  PROVE  LinkInv'
<1> DEFINE l == loc[t].level
           e == loc[t].e
<1>1. /\ LocalsOK("ins_create", loc[t], height)
      /\ OwnsOK("ins_create", loc[t], nodes, handle)
      /\ SearchOK("ins_create", loc[t], held[t], Linked, entry, entryLevel)
      /\ NewOK("ins_create", loc[t], held[t], nodes, Linked)
      /\ ShrinkOK("ins_create", loc[t], Linked)
  BY CallFacts, CallLinked
<1>2. /\ l \in Levels /\ l \in Int /\ l >= 0 /\ loc[t].top \in Int /\ l <= loc[t].top
      /\ e \in Elements /\ held[t][l] # "none"
  BY <1>1, LevelFacts, LockSets DEF LocalsOK, InsertPcs, SearchOK, FromPcs
<1>3. pc'[t] = p /\ loc'[t] = L /\ held'[t] = held[t] /\ Others(t)
  BY SameLocks DEF Goto, Set, Holds, Others, GraphInv, TypeOK
<1>4. \A k \in Levels : Detached(pc[t], loc[t], k) /\ Detached(p, L, k)
  <2>1. ASSUME NEW k \in Levels PROVE Detached(p, L, k)
    <3>1. k = 0 \/ k > 0
      BY LockSets
    <3> QED BY <3>1 DEF Detached, InsertPcs, CreatedPcs
  <2> QED BY <2>1 DEF Detached, InsertPcs, CreatedPcs
<1>5. \A k \in Levels : e \notin Linked[k]
  BY <1>2, <1>4, LinkedOwn
<1>6. \A k \in Levels :
        /\ \A x \in Elements \ {e} : nodes'[k][x] = nodes[k][x]
        /\ k = l => nodes'[k][e] = NewNode(N) /\ Exists(nodes'[k], e)
        /\ k # l =>
             /\ Exists(nodes'[k], e) <=> Exists(nodes[k], e)
             /\ SameLinks(nodes'[k][e], nodes[k][e])
             /\ Exists(nodes[k], e) =>
                  nodes'[k][e].lower = (nodes[k][e].lower \/ k = l + 1)
  BY DEF Creates
<1>7. NewNode(N).out = {} /\ NewNode(N).ovf = {} /\ NewNode(N).inc = N
      /\ NewNode(N).lower = FALSE
  BY DEF NewNode
<1>8. \A k \in Levels : Linked[k] \subseteq Elements \ {e}
  BY <1>5, LinkedIs DEF Live
<1>9. Linked' = Linked
  <2>1. ASSUME NEW x \in Elements, NEW k \in Levels
        PROVE  (/\ Exists(nodes'[k], x)
                /\ loc'[t].e = x => ~Detached(pc'[t], loc'[t], k))
               <=> (/\ Exists(nodes[k], x)
                    /\ loc[t].e = x => ~Detached(pc[t], loc[t], k))
    BY <1>3, <1>4, <1>6 DEF Exists
  <2> QED BY <1>3, <2>1, SameLinked
<1> HIDE DEF e, l
<1>10. OthersKept(t)
  <2>1. \A k \in Levels : \A x \in Elements \ {e} :
          /\ Exists(nodes'[k], x) <=> Exists(nodes[k], x)
          /\ SameLinks(nodes'[k][x], nodes[k][x])
    BY <1>6 DEF Exists, SameLinks
  <2>2. ASSUME NEW u \in Threads \ {t}, NEW k \in Levels, Linking(u, k)
        PROVE  /\ nodes'[k][loc[u].e] = nodes[k][loc[u].e]
               /\ \A b \in Linked[k] : nodes'[k][b] = nodes[k][b]
    <3>1. loc[u].e \in Elements /\ loc[u].e # e
      <4>1. loc[u].e \in Elements
        BY <2>2, CallFacts DEF Linking, LocalsOK, InsertPcs
      <4> QED BY <4>1, GraphAssumption DEF GraphInv, OneCallEach, e
    <3> QED BY <1>6, <1>8, <3>1
  <2> QED BY <1>3, <1>9, <2>1, <2>2 DEF OthersKept, e
<1>11. ASSUME NEW k \in Levels PROVE LevelOK(nodes'[k], Linked'[k], BeingLinked'[k])
  <2>1. \A x \in Linked[k] : SameLinks(nodes'[k][x], nodes[k][x])
    BY <1>6, <1>8 DEF SameLinks
  <2>2. ASSUME NEW x \in Elements \ Linked[k], Exists(nodes'[k], x)
        PROVE  \/ Exists(nodes[k], x) /\ SameLinks(nodes'[k][x], nodes[k][x])
               \/ nodes'[k][x].out = {}
    <3>1. CASE x # e
      BY <1>6, <2>2, <3>1 DEF Exists, SameLinks
    <3>2. CASE x = e
      BY <1>6, <1>7, <2>2, <3>2
    <3> QED BY <3>1, <3>2
  <2>3. ~Linking(t, k)
    BY DEF Linking
  <2> QED BY <1>3, <1>9, <2>1, <2>2, <2>3, LevelKept
<1>12. ElementsOK'
  <2> SUFFICES ASSUME NEW x \in Elements, NEW k \in Levels, Exists(nodes'[k], x)
               PROVE  /\ \/ k <= handle[x]
                         \/ \E u \in Threads : loc'[u].e = x /\ pc'[u] \in InsertPcs
                      /\ k > 0 /\ ~nodes'[k][x].lower =>
                           \E u \in Threads : loc'[u].e = x /\ Cut(pc'[u], loc'[u], k)
    BY DEF ElementsOK
  <2>1. Exists(nodes[k], x) =>
          /\ k <= handle[x] \/ \E u \in Threads : loc[u].e = x /\ pc[u] \in InsertPcs
          /\ k > 0 /\ ~nodes[k][x].lower =>
               \E u \in Threads : loc[u].e = x /\ Cut(pc[u], loc[u], k)
    BY DEF LinkInv, ElementsOK
  <2>2. CASE x # e
    <3>1. nodes'[k][x] = nodes[k][x] /\ Exists(nodes[k], x)
      BY <1>6, <2>2 DEF Exists
    <3>2. \A u \in Threads : loc[u].e = x => loc'[u] = loc[u] /\ pc'[u] = pc[u]
      BY <1>3, <2>2 DEF Others, e
    <3> QED BY <2>1, <3>1, <3>2
  <2>3. CASE x = e
    <3>1. loc'[t].e = x /\ pc'[t] \in InsertPcs
      BY <1>3, <2>3 DEF InsertPcs, e
    <3>2. ASSUME k > 0, ~nodes'[k][x].lower PROVE Cut(p, L, k)
      <4>1. CASE k = l
        BY <1>2, <3>2, <4>1 DEF Cut, l
      <4>2. CASE k # l
        <5>1. Exists(nodes[k], e) /\ ~nodes[k][e].lower /\ k # l + 1
          BY <1>6, <2>3, <3>2, <4>2
        <5>2. PICK u \in Threads : loc[u].e = e /\ Cut(pc[u], loc[u], k)
          BY <2>1, <2>3, <3>2, <5>1
        <5>3. u = t
          BY <1>2, <5>2, GraphAssumption DEF GraphInv, OneCallEach, e
        <5> QED BY <5>1, <5>2, <5>3 DEF Cut, l
      <4> QED BY <4>1, <4>2
    <3> QED BY <1>3, <3>1, <3>2
  <2> QED BY <2>2, <2>3
<1>13. EntryAtTop'
  BY DEF LinkInv, EntryAtTop
<1>14. p \in InsertPcs \ {"ins_done", "ins_linking"} /\ p \notin ShrinkPcs \cup RepairPcs \cup RemovePcs
       /\ p \in CreatedPcs \cup {"ins_create", "ins_keep"} /\ p # "ins_create"
  BY DEF InsertPcs, ShrinkPcs, RepairPcs, RemovePcs, CreatedPcs
<1>15. NewOK(p, L, held[t], nodes', Linked)
  <2>1. ASSUME NEW k \in Levels, Exists(nodes'[k], L.e)
        PROVE  /\ held[t][k] # "none" /\ k <= L.top /\ k >= L.level
               /\ nodes'[k][L.e].out = {} /\ nodes'[k][L.e].ovf = {}
               /\ nodes'[k][L.e].inc \subseteq Linked[k]
    <3>1. CASE k = l
      <4>1. N \subseteq Linked[k] /\ L.e = e /\ L.level = l /\ L.top = loc[t].top
        BY <3>1 DEF l, e
      <4> QED BY <1>2, <1>6, <1>7, <3>1, <4>1
    <3>2. CASE k # l
      <4>1. Exists(nodes[k], e) /\ SameLinks(nodes'[k][e], nodes[k][e]) /\ L.e = e
        BY <1>6, <2>1, <3>2 DEF e
      <4>2. /\ held[t][k] # "none" /\ k <= loc[t].top /\ k > l
            /\ nodes[k][e].out = {} /\ nodes[k][e].ovf = {}
            /\ nodes[k][e].inc \subseteq Linked[k]
        BY <1>1, <1>4, <4>1 DEF NewOK, InsertPcs, l, e
      <4>3. k >= L.level /\ k <= L.top
        BY <1>2, <4>2, LockSets DEF l
      <4> QED BY <4>1, <4>2, <4>3 DEF SameLinks
    <3> QED BY <3>1, <3>2
  <2> HIDE DEF Creates
  <2> QED BY <1>14, <2>1 DEF NewOK
<1>16. PendOK(p, L, nodes') /\ ShrinkOK(p, L, Linked) /\ RemovalOK(p, L, nodes', Linked, entry)
  BY <1>1, <1>14 DEF PendOK, ShrinkOK, RemovalOK, ShrinkPcs, RepairPcs, RemovePcs, InsertPcs
<1>17. CallLinks(pc'[t], loc'[t], held'[t], nodes', Linked', entry', entryLevel')
  BY <1>3, <1>9, <1>15, <1>16 DEF CallLinks
<1> QED BY <1>10, <1>11, <1>12, <1>13, <1>17, LinksTogether

\* insert creates a node that records its neighbours and that nobody names.
LEMMA InsertCreateLinks ==
  ASSUME GraphInv, LinkInv, NEW t \in Threads, InsertCreate(t)
  PROVE  LinkInv'
<1> DEFINE l   == loc[t].level
           e   == loc[t].e
           new == l > loc[t].elevel
           p   == IF l = 0 THEN "ins_link" ELSE "ins_keep"
           C(W) == IF new THEN loc[t].cand ELSE W
<1>1. /\ pc[t] = "ins_create" /\ Goto(t, p)
      /\ UNCHANGED <<entry, entryLevel, height, held, handle>>
  BY DEF InsertCreate
<1>2. PICK W \in IF new THEN {{}}
                 ELSE SearchResults(t, loc[t].cand, {}, EfConstruction) :
      \E neighbours \in Selections(W, M) :
        /\ nodes' = [k \in Levels |->
             IF k = l THEN [nodes[k] EXCEPT ![e] = NewNode(neighbours)]
             ELSE IF k = l + 1 /\ l < loc[t].top
                  THEN [nodes[k] EXCEPT ![e].lower = TRUE]
             ELSE nodes[k]]
        /\ Set(t, [loc[t] EXCEPT !.cand = IF new THEN @ ELSE W])
  BY DEF InsertCreate
<1>3. PICK N \in Selections(W, M) :
        /\ nodes' = [k \in Levels |->
             IF k = l THEN [nodes[k] EXCEPT ![e] = NewNode(N)]
             ELSE IF k = l + 1 /\ l < loc[t].top
                  THEN [nodes[k] EXCEPT ![e].lower = TRUE]
             ELSE nodes[k]]
        /\ Set(t, [loc[t] EXCEPT !.cand = C(W)])
  BY <1>2
<1>4. /\ l \in Levels /\ loc[t].elevel \in Levels /\ l \in Int /\ loc[t].elevel \in Int
  BY LevelFacts, LockSets
<1>5. W \subseteq Linked[l]
  <2>1. CASE new
    BY <1>2, <2>1
  <2>2. CASE ~new
    <3>1. W \in SearchResults(t, loc[t].cand, {}, EfConstruction)
      BY <1>2, <2>2
    <3>2. l <= loc[t].elevel
      BY <1>4, <2>2
    <3> QED BY <1>1, <3>1, <3>2, CandType, SearchResultsLive, SearchLinked
  <2> QED BY <2>1, <2>2
<1>6. N \subseteq Linked[l] /\ N \in SUBSET Elements
  BY <1>3, <1>4, <1>5, SelectionsWithin, LinkedIs DEF Live
<1> DEFINE S == C(W)
           L == [loc[t] EXCEPT !.cand = S]
<1>7. /\ L.e = e /\ L.top = loc[t].top /\ L.level = l /\ L.elevel = loc[t].elevel
      /\ L.over = loc[t].over /\ L.cand = S
  <2> HIDE DEF S
  <2> QED BY CallFacts DEF Locals
<1>8. Set(t, L)
  BY <1>3
<1>9. Creates(t, N)
  BY <1>1, <1>3, <1>6, CreateRecords
<1>10. SearchOK(pc[t], loc[t], held[t], Linked, entry, entryLevel)
  BY CallLinked
<1>11. held[t][l] # "none"
  BY <1>1, <1>10 DEF SearchOK, FromPcs
<1>12. ASSUME NEW x \in S
       PROVE  /\ x \in Linked[CandAt(L)]
              /\ held[t][CandAt(L)] # "none" \/ (x = entry /\ CandAt(L) = entryLevel)
  <2>1. CandAt(L) = CandAt(loc[t])
    <3> HIDE DEF L
    <3> QED BY <1>7 DEF CandAt
  <2>2. CASE new
    BY <1>1, <1>10, <1>12, <2>1, <2>2 DEF SearchOK
  <2>3. CASE ~new
    <3>1. CandAt(loc[t]) = l
      BY <1>4, <2>3 DEF CandAt
    <3> QED BY <1>5, <1>11, <1>12, <2>1, <2>3, <3>1
  <2> QED BY <2>2, <2>3
<1> HIDE DEF S, L
<1>13. SearchOK(p, L, held[t], Linked, entry, entryLevel)
  <2>1. /\ p \in CandPcs \/ (p = "ins_link" /\ L.level = 0)
        /\ p \notin {"ins_search", "ins_descend", "ins_lock"} \cup KnnPcs
    BY <1>7 DEF CandPcs, KnnPcs
  <2> HIDE DEF p
  <2> QED BY <1>7, <1>11, <1>12, <2>1 DEF SearchOK
<1> QED BY <1>1, <1>6, <1>7, <1>8, <1>9, <1>13, CreateStep

-------------------------------------------------------------------------------
(* Linking.                                                                *)

\* The element of an insert that makes links.
LEMMA NewElement ==
  ASSUME GraphInv, LinkInv, NEW t \in Threads, pc[t] \in CreatedPcs
  PROVE  /\ loc[t].e \in Elements /\ loc[t].level \in Levels /\ loc[t].level \in Int
         /\ loc[t].top \in Int /\ loc[t].level <= loc[t].top
         /\ Exists(At(t), loc[t].e)
         /\ pc[t] # "ins_link" => loc[t].e \in Linked[loc[t].level]
<1>1. LocalsOK(pc[t], loc[t], height) /\ OwnsOK(pc[t], loc[t], nodes, handle)
  BY CallFacts
<1>2. /\ loc[t].e \in Elements /\ loc[t].level \in Levels /\ loc[t].level \in Int
      /\ loc[t].top \in Int /\ loc[t].level <= loc[t].top
      /\ loc[t].level \in 0 .. loc[t].top
  BY <1>1, LevelFacts, LockSets DEF LocalsOK, InsertPcs, CreatedPcs
<1>3. Exists(At(t), loc[t].e)
  BY <1>1, <1>2 DEF OwnsOK, ChainFrom, At
<1>4. ~Detached(pc[t], loc[t], loc[t].level) \/ pc[t] = "ins_link"
  BY <1>2 DEF Detached, InsertPcs, CreatedPcs, RepairPcs
<1> QED BY <1>2, <1>3, <1>4, LinkedOwn DEF At

\* The first step of link_neighbours: from now on the new node is linked.
LEMMA InsertLinkLinks ==
  ASSUME GraphInv, LinkInv, NEW t \in Threads, InsertLink(t)
  PROVE  LinkInv'
<1> DEFINE l == loc[t].level
           e == loc[t].e
           P == At(t)[e].inc
           L == [loc[t] EXCEPT !.link = e, !.cand = {}, !.pend = P]
<1>1. /\ pc[t] = "ins_link" /\ Set(t, L) /\ Goto(t, "ins_linking")
      /\ UNCHANGED <<nodes, entry, entryLevel, height, held, handle>>
  BY DEF InsertLink
<1>2. /\ NewOK("ins_link", loc[t], held[t], nodes, Linked)
      /\ ShrinkOK("ins_link", loc[t], Linked)
  BY <1>1, CallLinked
<1>3. /\ e \in Elements /\ l \in Levels /\ l \in Int /\ Exists(nodes[l], e)
  BY <1>1, NewElement DEF CreatedPcs, At
<1>4. /\ L.e = e /\ L.top = loc[t].top /\ L.level = l /\ L.cand = {} /\ L.pend = P
      /\ L.over = loc[t].over /\ L.link = e
  <2> HIDE DEF P
  <2> QED BY CallFacts DEF Locals
<1>5. pc'[t] = "ins_linking" /\ loc'[t] = L /\ held'[t] = held[t] /\ Others(t)
  BY <1>1, SameLocks DEF Goto, Set, Holds, Others, GraphInv, TypeOK
<1> HIDE DEF L
<1>6. \A k \in Levels : /\ Detached("ins_link", loc[t], k) <=> l < k \/ l = k
                        /\ Detached("ins_linking", L, k) <=> l < k
  BY <1>4 DEF Detached, InsertPcs, CreatedPcs, RepairPcs
<1>7. e \notin Linked[l]
  BY <1>1, <1>3, <1>6, LinkedOwn
<1>8. P = nodes[l][e].inc /\ nodes[l][e].out = {} /\ nodes[l][e].ovf = {} /\ P \subseteq Linked[l]
  <2>1. Detached("ins_link", loc[t], l)
    BY <1>3, <1>6
  <2> QED BY <1>2, <1>3, <2>1 DEF NewOK, InsertPcs, At
<1>9. \A k \in Levels : Linked'[k] = IF k = l THEN Linked[k] \cup {e} ELSE Linked[k]
  <2>1. ASSUME NEW k \in Levels, NEW x \in Elements
        PROVE  (\A u \in Threads : loc'[u].e = x => ~Detached(pc'[u], loc'[u], k))
               <=> \/ \A u \in Threads : loc[u].e = x => ~Detached(pc[u], loc[u], k)
                   \/ k = l /\ x = e
    <3>1. \A u \in Threads \ {t} : pc'[u] = pc[u] /\ loc'[u] = loc[u]
      BY <1>5 DEF Others
    <3>2. CASE x # e
      BY <1>4, <1>5, <3>1, <3>2
    <3>3. CASE x = e
      <4>1. \A u \in Threads \ {t} : loc[u].e # x
        BY <1>3, <3>3, GraphAssumption DEF GraphInv, OneCallEach
      <4>2. (\A u \in Threads : loc'[u].e = x => ~Detached(pc'[u], loc'[u], k)) <=> ~(l < k)
        BY <1>4, <1>5, <1>6, <3>1, <3>3, <4>1
      <4>3. (\A u \in Threads : loc[u].e = x => ~Detached(pc[u], loc[u], k))
              <=> ~(l < k \/ l = k)
        BY <1>1, <1>6, <3>3, <4>1
      <4> QED BY <1>3, <3>3, <4>2, <4>3, LockSets
    <3> QED BY <3>2, <3>3
  <2>2. ASSUME NEW k \in Levels, NEW x \in Elements
        PROVE  x \in Linked'[k] <=> x \in Linked[k] \/ (k = l /\ x = e)
    <3>1. x \in Linked'[k] <=>
            /\ Exists(nodes[k], x)
            /\ \A u \in Threads : loc'[u].e = x => ~Detached(pc'[u], loc'[u], k)
      BY <1>1 DEF Linked
    <3>2. x \in Linked[k] <=>
            /\ Exists(nodes[k], x)
            /\ \A u \in Threads : loc[u].e = x => ~Detached(pc[u], loc[u], k)
      BY LinkedIs
    <3> QED BY <1>3, <2>1, <3>1, <3>2
  <2>3. \A k \in Levels : Linked'[k] \subseteq Elements /\ Linked[k] \subseteq Elements
    BY DEF Linked
  <2> QED BY <1>3, <2>2, <2>3
<1>10. OthersKept(t)
  <2>1. \A k \in Levels : Linked[k] \subseteq Linked'[k]
    BY <1>9
  <2>2. \A r : SameLinks(r, r)
    BY DEF SameLinks
  <2> QED BY <1>1, <1>5, <2>1, <2>2 DEF OthersKept
<1>11. LevelLinks(nodes[l], Linked[l] \cup {e}) /\ \A b \in Linked[l] : e \notin Recorded(nodes[l][b])
  BY <1>3, <1>7, <1>8, LevelLinked, JoinLinks
<1>12. ASSUME NEW k \in Levels PROVE LevelOK(nodes'[k], Linked'[k], BeingLinked'[k])
  <2>1. ~Linking(t, k)
    BY <1>1 DEF Linking
  <2>2. CASE k # l
    <3>1. Linked'[k] = Linked[k]
      BY <1>9, <2>2
    <3>2. \A r : SameLinks(r, r)
      BY DEF SameLinks
    <3> QED BY <1>1, <1>5, <2>1, <3>1, <3>2, LevelKept
  <2>3. CASE k = l
    <3>1. \A a \in Linked[l] : nodes[l][a].inc # {} => a \in BeingLinked'[l]
      BY <1>3, <1>5, <2>1, <2>3, LevelLinked, BeingLinkedKept
    <3>2. e \in BeingLinked'[l]
      BY <1>3, <1>4, <1>5 DEF BeingLinked, Linking
    <3>3. Linked'[k] = Linked[l] \cup {e} /\ nodes'[k] = nodes[l]
      BY <1>1, <1>9, <2>3
    <3>4. \A a \in Elements \ Linked[l] : Exists(nodes[l], a) => nodes[l][a].out = {}
      BY <1>3, LevelLinked
    <3> QED BY <1>11, <2>3, <3>1, <3>2, <3>3, <3>4 DEF LevelOK
  <2> QED BY <2>2, <2>3
<1>13. ElementsOK'
  <2>1. \A k \in Levels : ~Cut(pc[t], loc[t], k)
    BY <1>1 DEF Cut
  <2>2. "ins_linking" \in InsertPcs
    BY DEF InsertPcs
  <2> QED BY <1>1, <1>4, <1>5, <2>1, <2>2, ElementsKept
<1>14. EntryAtTop'
  BY <1>1 DEF LinkInv, EntryAtTop
<1>15. SearchOK("ins_linking", L, held[t], Linked', entry, entryLevel)
  BY <1>4 DEF SearchOK, KnnPcs, FromPcs
<1>16. NewOK("ins_linking", L, held[t], nodes, Linked')
  <2>1. ASSUME NEW k \in Levels, Exists(nodes[k], L.e)
        PROVE  /\ held[t][k] # "none" /\ k <= L.top
               /\ Detached("ins_linking", L, k) =>
                    /\ nodes[k][L.e].out = {} /\ nodes[k][L.e].ovf = {}
                    /\ nodes[k][L.e].inc \subseteq Linked'[k]
    <3>1. /\ held[t][k] # "none" /\ k <= loc[t].top
          /\ Detached("ins_link", loc[t], k) =>
               /\ nodes[k][e].out = {} /\ nodes[k][e].ovf = {}
               /\ nodes[k][e].inc \subseteq Linked[k]
      BY <1>2, <1>4, <2>1 DEF NewOK, InsertPcs
    <3>2. Linked[k] \subseteq Linked'[k]
      BY <1>9
    <3> QED BY <1>4, <1>6, <3>1, <3>2
  <2> QED BY <2>1 DEF NewOK, CreatedPcs
<1>17. PendOK("ins_linking", L, nodes)
  BY <1>4, <1>8, <1>11 DEF PendOK
<1>18. ShrinkOK("ins_linking", L, Linked')
  <2>1. loc[t].over = {} /\ e \in Linked'[l]
    BY <1>2, <1>3, <1>9 DEF ShrinkOK, InsertPcs, ShrinkPcs
  <2> QED BY <1>4, <2>1 DEF ShrinkOK, RepairPcs, ShrinkPcs
<1>19. RemovalOK("ins_linking", L, nodes, Linked', entry)
  BY DEF RemovalOK, RemovePcs
<1>20. CallLinks(pc'[t], loc'[t], held'[t], nodes', Linked', entry', entryLevel')
  BY <1>1, <1>5, <1>15, <1>16, <1>17, <1>18, <1>19 DEF CallLinks
<1> QED BY <1>10, <1>12, <1>13, <1>14, <1>20, LinksTogether

\* What every other step of link_neighbours and shrink_neighbours keeps.
LEMMA LinkingOn ==
  ASSUME GraphInv, LinkInv, NEW t \in Threads,
         pc[t] \in {"ins_linking", "ins_shrink", "ins_replace"},
         NEW p \in CreatedPcs, NEW L, L.e = loc[t].e, L.top = loc[t].top,
         L.cand = loc[t].cand, NEW q, WriteLevel(t, q),
         \A y \in Elements : Exists(q, y) <=> Exists(At(t), y),
         \/ p # "ins_link" /\ L.level = loc[t].level
         \/ p = "ins_link" /\ L.level = loc[t].level + 1,
         p = "ins_done" => L.level = L.top
  PROVE  /\ GoesOn(t, p, L)
         /\ SearchOK(p, L, held[t], Linked, entry, entryLevel)
         /\ NewOK(p, L, held[t], nodes', Linked)
         /\ RemovalOK(p, L, nodes', Linked, entry)
<1> DEFINE l == loc[t].level
           e == loc[t].e
<1>1. e \in Elements /\ l \in Levels /\ l \in Int
  BY NewElement DEF CreatedPcs
<1>2. /\ SearchOK(pc[t], loc[t], held[t], Linked, entry, entryLevel)
      /\ NewOK(pc[t], loc[t], held[t], nodes, Linked)
  BY CallLinked
<1>3. \A k \in Levels : /\ Detached(pc[t], loc[t], k) <=> l < k
                        /\ Detached(p, L, k) <=> l < k
  <2>1. \A k \in Levels : k \in Int
    BY LockSets
  <2>2. \A k \in Levels : Detached(pc[t], loc[t], k) <=> l < k
    BY DEF Detached, InsertPcs, CreatedPcs, RepairPcs
  <2>3. CASE p # "ins_link" /\ L.level = l
    BY <2>2, <2>3 DEF Detached, InsertPcs, CreatedPcs, RepairPcs
  <2>4. CASE p = "ins_link" /\ L.level = l + 1
    <3>1. \A k \in Levels : L.level < k \/ L.level = k <=> l < k
      BY <1>1, <2>1, <2>4
    <3> QED BY <2>2, <2>4, <3>1 DEF Detached, InsertPcs, CreatedPcs, RepairPcs
  <2> QED BY <2>3, <2>4
<1>4. \A k \in Levels : nodes'[k] = IF k = l THEN q ELSE nodes[k]
  BY <1>1, LevelFacts DEF WriteLevel
<1>5. p \in InsertPcs \ (RemovePcs \cup FromPcs \cup KnnPcs \cup {"ins_search", "ins_descend", "ins_lock"})
      /\ p \notin {"ins_create", "ins_keep"}
  BY DEF CreatedPcs, InsertPcs, RemovePcs, FromPcs, KnnPcs
<1>6. loc[t].cand = {}
  BY <1>2 DEF SearchOK, CandPcs, KnnPcs
<1>7. GoesOn(t, p, L)
  <2>1. \A k \in Levels : ~Cut(pc[t], loc[t], k)
    BY DEF Cut
  <2> QED BY <1>3, <1>5, <2>1 DEF GoesOn
<1>8. SearchOK(p, L, held[t], Linked, entry, entryLevel)
  BY <1>5, <1>6 DEF SearchOK
<1>9. NewOK(p, L, held[t], nodes', Linked)
  <2>1. ASSUME NEW k \in Levels, Exists(nodes'[k], L.e)
        PROVE  /\ held[t][k] # "none" /\ k <= L.top
               /\ Detached(p, L, k) =>
                    /\ nodes'[k][L.e].out = {} /\ nodes'[k][L.e].ovf = {}
                    /\ nodes'[k][L.e].inc \subseteq Linked[k]
    <3>1. Exists(nodes[k], e)
      BY <1>1, <1>4, <2>1 DEF At
    <3>2. /\ held[t][k] # "none" /\ k <= loc[t].top
          /\ Detached(pc[t], loc[t], k) =>
               /\ nodes[k][e].out = {} /\ nodes[k][e].ovf = {}
               /\ nodes[k][e].inc \subseteq Linked[k]
      BY <1>2, <3>1 DEF NewOK, InsertPcs
    <3>3. Detached(p, L, k) => nodes'[k] = nodes[k]
      BY <1>1, <1>3, <1>4
    <3> QED BY <1>3, <3>2, <3>3
  <2> QED BY <1>5, <2>1 DEF NewOK
<1>10. RemovalOK(p, L, nodes', Linked, entry)
  BY <1>5 DEF RemovalOK, RemovePcs
<1> QED BY <1>7, <1>8, <1>9, <1>10

\* A neighbour links back: nobody else links it, and it has no link yet.
LEMMA InsertLinkBackLinks ==
  ASSUME GraphInv, LinkInv, NEW t \in Threads, InsertLinkBack(t)
  PROVE  LinkInv'
<1> DEFINE nd == At(t)
           l  == loc[t].level
           e  == loc[t].e
           A  == Linked[l]
<1>1. PICK n \in loc[t].pend :
        /\ WriteLevel(t, IF Exists(nd, n)
                         THEN [nd EXCEPT ![n] = LinkBack(@, l, e)]
                         ELSE nd)
        /\ Set(t, [loc[t] EXCEPT !.pend = @ \ {n},
                     !.over = IF Exists(nd, n) /\ ~HasRoom(nd[n], l)
                              THEN @ \cup {n} ELSE @])
  BY DEF InsertLinkBack
<1>2. /\ pc[t] = "ins_linking" /\ Goto(t, "ins_linking")
      /\ UNCHANGED <<entry, entryLevel, held, handle>>
  BY DEF InsertLinkBack, Goto, GraphInv, TypeOK
<1>3. /\ PendOK("ins_linking", loc[t], nodes) /\ ShrinkOK("ins_linking", loc[t], Linked)
  BY <1>2, CallLinked
<1>4. e \in Elements /\ l \in Levels /\ e \in A /\ nd \in LevelType /\ Live(nd, A)
      /\ nd = nodes[l]
  BY <1>2, NewElement, LevelFacts, LinkedIs DEF CreatedPcs, At
<1>5. /\ LevelLinks(nd, A) /\ \A a \in A : nd[a].inc # {} => a \in BeingLinked[l]
  BY <1>4, LevelLinked
<1>6. /\ loc[t].pend \subseteq nd[e].inc
      /\ \A b \in loc[t].pend : e \notin Recorded(nd[b])
      /\ \A b \in nd[e].inc \ loc[t].pend : e \in nd[b].out \cup nd[b].ovf
  BY <1>3 DEF PendOK, At
<1> DEFINE q == [nd EXCEPT ![n] = LinkBack(nd[n], l, e)]
           P == loc[t].pend \ {n}
           O == IF Exists(nd, n) /\ ~HasRoom(nd[n], l)
                THEN loc[t].over \cup {n} ELSE loc[t].over
           L == [loc[t] EXCEPT !.pend = P, !.over = O]
<1>7. /\ n \in A \ {e} /\ LevelLinks(q, A)
      /\ \A y \in Elements : y # n => q[y] = nd[y]
      /\ \A y \in A : q[y].inc = nd[y].inc
      /\ q[n].out \cup q[n].ovf = nd[n].out \cup nd[n].ovf \cup {e}
  <2>1. n \in nd[e].inc /\ e \notin Recorded(nd[n])
    BY <1>1, <1>6
  <2> HIDE DEF nd, A, e, l
  <2>2. LinksBack(nd, A, l, e, n, q)
    BY <1>4, <1>5, <2>1 DEF LinksBack
  <2> HIDE DEF q
  <2> QED BY <2>2, LinkBackLinks
<1>8. Exists(nd, n) /\ n \in Elements /\ nd[n] \in NodeRec
  BY <1>4, <1>7, NodeOfLevel DEF Live
<1>9. WriteLevel(t, q) /\ Set(t, L)
  BY <1>1, <1>8
<1>10. /\ q[n].lower = nd[n].lower /\ Exists(q, n)
  <2>1. q[n] = LinkBack(nd[n], l, e)
    BY <1>4, <1>8 DEF LevelType
  <2>2. LinkBack(nd[n], l, e).lower = nd[n].lower /\ LinkBack(nd[n], l, e) \in NodeRec
    BY <1>4, <1>8, LinkBackType
  <2> HIDE DEF q
  <2> QED BY <2>1, <2>2, NodeAssumption DEF Exists
<1>11. /\ L.e = e /\ L.top = loc[t].top /\ L.level = l /\ L.cand = loc[t].cand
       /\ L.over = O /\ L.pend = P /\ L.link = loc[t].link
  <2> HIDE DEF P, O
  <2> QED BY CallFacts DEF Locals
<1>12. O \subseteq loc[t].over \cup {n}
  OBVIOUS
<1> HIDE DEF q, L, O, nd
<1>13. \A y \in Elements : /\ Exists(q, y) <=> Exists(nd, y)
                           /\ Exists(nd, y) => q[y].lower = nd[y].lower
  BY <1>7, <1>8, <1>10 DEF Exists
<1>14. nodes' = [nodes EXCEPT ![l] = q] /\ nodes'[l] = q
  BY <1>4, <1>9, LevelFacts DEF WriteLevel
<1>15. /\ GoesOn(t, "ins_linking", L)
       /\ SearchOK("ins_linking", L, held[t], Linked, entry, entryLevel)
       /\ NewOK("ins_linking", L, held[t], nodes', Linked)
       /\ RemovalOK("ins_linking", L, nodes', Linked, entry)
  BY <1>2, <1>9, <1>11, <1>13, LinkingOn DEF CreatedPcs, nd
<1>16. PendOK("ins_linking", L, nodes')
  <2>1. q[e].inc = nd[e].inc /\ nd[e].inc \subseteq A /\ A \subseteq Elements
    BY <1>4, <1>5, <1>7 DEF LevelLinks, Recorded, Live
  <2>2. \A b \in P : e \notin Recorded(q[b])
    BY <1>6, <1>7, <2>1
  <2>3. \A b \in nd[e].inc \ P : e \in q[b].out \cup q[b].ovf
    <3>1. ASSUME NEW b \in nd[e].inc \ P PROVE e \in q[b].out \cup q[b].ovf
      <4>1. CASE b = n
        BY <1>7, <4>1
      <4>2. CASE b # n
        BY <1>6, <1>7, <2>1, <4>2
      <4> QED BY <4>1, <4>2
    <3> QED BY <3>1
  <2>4. P \subseteq nd[e].inc
    BY <1>6
  <2> QED BY <1>11, <1>14, <2>1, <2>2, <2>3, <2>4 DEF PendOK
<1>17. ShrinkOK("ins_linking", L, Linked)
  <2>1. loc[t].over \cup {loc[t].link} \subseteq A
    BY <1>3 DEF ShrinkOK, ShrinkPcs
  <2> QED BY <1>7, <1>11, <1>12, <2>1 DEF ShrinkOK, ShrinkPcs, RepairPcs
<1>18. CallLinks("ins_linking", L, held'[t], nodes', Linked, entry, entryLevel)
  BY <1>2, <1>15, <1>16, <1>17 DEF CallLinks
<1>19. \A y \in Elements \ A : SameLinks(q[y], nd[y])
  BY <1>7 DEF SameLinks
<1>20. \A a \in A : q[a].inc # {} => a \in BeingLinked[l]
  BY <1>5, <1>7
<1>21. ASSUME NEW u \in Threads \ {t}, Linking(u, l) PROVE KeepsLinking(u, nd, q, A)
  <2> DEFINE f == loc[u].e
  <2>1. f \in A /\ f # e
    <3>1. pc[u] = "ins_linking" /\ loc[u].level = l
      BY <1>21 DEF Linking
    <3>2. f \in A /\ f \in Elements
      BY <3>1, NewElement DEF CreatedPcs
    <3> QED BY <3>2, GraphAssumption DEF GraphInv, OneCallEach
  <2>2. ASSUME NEW b \in A
        PROVE  /\ f \in Recorded(q[b]) => f \in Recorded(nd[b])
               /\ f \in nd[b].out \cup nd[b].ovf => f \in q[b].out \cup q[b].ovf
    <3>1. CASE b = n
      <4>1. q[n].inc = nd[n].inc
        BY <1>7
      <4> QED BY <1>7, <2>1, <3>1, <4>1 DEF Recorded
    <3>2. CASE b # n
      <4>1. q[b] = nd[b]
        BY <1>4, <1>7, <3>2 DEF Live
      <4> QED BY <4>1
    <3> QED BY <3>1, <3>2
  <2> QED BY <1>7, <2>1, <2>2 DEF KeepsLinking
<1>22. Holds(t)
  BY <1>2, SameLocks
<1> QED BY <1>2, <1>5, <1>7, <1>9, <1>11, <1>13, <1>15, <1>18, <1>19, <1>20, <1>21, <1>22,
          WriteStep DEF nd

\* Where the links of a level are made.
LEMMA AfterLinksTo ==
  ASSUME NEW t \in Threads, NEW new \in Locals, AfterLinks(t, new),
         new.level <= new.top
  PROVE  \E p \in {"ins_done", "ins_link"}, L \in Locals :
           /\ Goto(t, p) /\ Set(t, L)
           /\ L.e = new.e /\ L.top = new.top /\ L.cand = new.cand /\ L.over = new.over
           /\ p = "ins_done" => L.level = L.top /\ L.level = new.level
           /\ p = "ins_link" => L.level = new.level + 1
<1>1. CASE new.level = new.top
  BY <1>1 DEF AfterLinks
<1>2. CASE new.level # new.top
  <2> DEFINE l == new.level + 1
             L == [new EXCEPT !.level = l]
  <2>1. new.level \in Levels /\ new.top \in Levels
    BY DEF Locals
  <2>2. l \in Levels
    BY <1>2, <2>1, GraphAssumption DEF Levels
  <2>3. /\ L \in Locals /\ L.e = new.e /\ L.top = new.top /\ L.cand = new.cand
        /\ L.over = new.over /\ L.level = l
    <3> HIDE DEF l
    <3> QED BY <2>2 DEF Locals
  <2>4. Goto(t, "ins_link") /\ Set(t, L)
    BY <1>2 DEF AfterLinks
  <2> HIDE DEF L
  <2> QED BY <2>3, <2>4
<1> QED BY <1>1, <1>2

\* A step that ends the links of a level, or goes on to shrink lists.
LEMMA LinksMade ==
  ASSUME GraphInv, LinkInv, NEW t \in Threads,
         pc[t] \in {"ins_linking", "ins_replace"},
         NEW new \in Locals, new.e = loc[t].e, new.top = loc[t].top,
         new.level = loc[t].level, new.cand = loc[t].cand, new.link = loc[t].link,
         new.over \subseteq loc[t].over,
         IF new.over # {} THEN Goto(t, "ins_shrink") /\ Set(t, new)
                          ELSE AfterLinks(t, new),
         NEW q, WriteLevel(t, q), UNCHANGED <<entry, entryLevel, held, handle>>,
         \A y \in Elements : /\ Exists(q, y) <=> Exists(At(t), y)
                             /\ Exists(At(t), y) => q[y].lower = At(t)[y].lower,
         \A y \in Elements \ Linked[loc[t].level] : SameLinks(q[y], At(t)[y]),
         LevelLinks(q, Linked[loc[t].level]),
         \A a \in Linked[loc[t].level] : q[a].inc # {} =>
           a # loc[t].e /\ a \in BeingLinked[loc[t].level],
         \A u \in Threads \ {t} : Linking(u, loc[t].level) =>
           KeepsLinking(u, At(t), q, Linked[loc[t].level])
  PROVE  LinkInv'
<1>1. /\ loc[t].level <= loc[t].top /\ loc[t].level \in Levels
      /\ ShrinkOK(pc[t], loc[t], Linked)
  BY NewElement, CallLinked DEF CreatedPcs
<1>2. PICK p \in CreatedPcs, L \in Locals :
        /\ Goto(t, p) /\ Set(t, L) /\ p \notin {"ins_linking", "ins_replace"}
        /\ L.e = loc[t].e /\ L.top = loc[t].top /\ L.cand = loc[t].cand
        /\ L.over = new.over
        /\ p # "ins_shrink" => L.over = {}
        /\ p = "ins_shrink" => L.link = loc[t].link
        /\ \/ p # "ins_link" /\ L.level = loc[t].level
           \/ p = "ins_link" /\ L.level = loc[t].level + 1
        /\ p = "ins_done" => L.level = L.top
  <2>1. CASE new.over # {}
    BY <2>1 DEF CreatedPcs
  <2>2. CASE new.over = {}
    BY <1>1, <2>2, AfterLinksTo DEF CreatedPcs
  <2> QED BY <2>1, <2>2
<1>3. /\ GoesOn(t, p, L)
      /\ SearchOK(p, L, held[t], Linked, entry, entryLevel)
      /\ NewOK(p, L, held[t], nodes', Linked)
      /\ RemovalOK(p, L, nodes', Linked, entry)
  BY <1>2, LinkingOn
<1>4. ShrinkOK(p, L, Linked)
  <2>1. loc[t].over \cup {loc[t].link} \subseteq Linked[loc[t].level]
    BY <1>1 DEF ShrinkOK, ShrinkPcs
  <2>2. p \notin RepairPcs \cup {"ins_replace", "rem_replace"} /\ (p \in ShrinkPcs => p = "ins_shrink")
        /\ "ins_shrink" \in ShrinkPcs
    BY <1>2 DEF CreatedPcs, RepairPcs, ShrinkPcs
  <2>3. p = "ins_shrink" => L.over \cup {L.link} \subseteq Linked[L.level]
    BY <1>2, <2>1
  <2> QED BY <1>2, <2>2, <2>3 DEF ShrinkOK
<1>5. PendOK(p, L, nodes')
  BY <1>2 DEF PendOK
<1>6. Holds(t) /\ held'[t] = held[t]
  BY SameLocks
<1>7. CallLinks(p, L, held'[t], nodes', Linked, entry, entryLevel)
  BY <1>3, <1>4, <1>5, <1>6 DEF CallLinks
<1> QED BY <1>2, <1>3, <1>6, <1>7, WriteStep

\* insert confirms its links once every neighbour has linked back.
LEMMA InsertConfirmLinks ==
  ASSUME GraphInv, LinkInv, NEW t \in Threads, InsertConfirm(t)
  PROVE  LinkInv'
<1> DEFINE nd == At(t)
           l  == loc[t].level
           e  == loc[t].e
           A  == Linked[l]
           q  == [nd EXCEPT ![e] = ConfirmLinks(nd[e])]
<1>1. /\ pc[t] = "ins_linking" /\ loc[t].pend = {} /\ WriteLevel(t, q)
      /\ IF loc[t].over # {}
         THEN Goto(t, "ins_shrink") /\ UNCHANGED loc
         ELSE AfterLinks(t, loc[t])
      /\ UNCHANGED <<entry, entryLevel, held, handle>>
  BY DEF InsertConfirm
<1>2. PendOK("ins_linking", loc[t], nodes)
  BY <1>1, CallLinked
<1>3. e \in Elements /\ l \in Levels /\ e \in A /\ nd \in LevelType /\ Live(nd, A)
      /\ nd = nodes[l] /\ nd[e] \in NodeRec
  BY <1>1, NewElement, LevelFacts, LinkedIs, NodeOfLevel DEF CreatedPcs, At
<1>4. /\ LevelLinks(nd, A) /\ \A a \in A : nd[a].inc # {} => a \in BeingLinked[l]
  BY <1>3, LevelLinked
<1>5. \A b \in nd[e].inc : e \in nd[b].out \cup nd[b].ovf
  BY <1>1, <1>2 DEF PendOK, At
<1>6. /\ LevelLinks(q, A) /\ \A y \in Elements : y # e => q[y] = nd[y]
      /\ q[e].inc = {} /\ q[e].ovf = nd[e].ovf /\ Recorded(q[e]) = Recorded(nd[e])
      /\ nd[e].out \subseteq q[e].out
  <2> HIDE DEF nd, A, e, l
  <2> QED BY <1>3, <1>4, <1>5, ConfirmedLinks
<1>7. q[e].lower = nd[e].lower /\ Exists(q, e) /\ Exists(nd, e)
  <2>1. q[e] = ConfirmLinks(nd[e])
    BY <1>3 DEF LevelType
  <2>2. ConfirmLinks(nd[e]).lower = nd[e].lower /\ ConfirmLinks(nd[e]) \in NodeRec
    BY <1>3, ConfirmLinksType
  <2> HIDE DEF q
  <2> QED BY <1>3, <2>1, <2>2, NodeAssumption DEF Exists
<1> HIDE DEF q, nd
<1>8. \A y \in Elements : /\ Exists(q, y) <=> Exists(nd, y)
                          /\ Exists(nd, y) => q[y].lower = nd[y].lower
  BY <1>6, <1>7 DEF Exists
<1>9. \A y \in Elements \ A : SameLinks(q[y], nd[y])
  BY <1>3, <1>6 DEF SameLinks
<1>10. \A a \in A : q[a].inc # {} => a # e /\ a \in BeingLinked[l]
  BY <1>3, <1>4, <1>6 DEF Live
<1>11. ASSUME NEW u \in Threads \ {t}, Linking(u, l) PROVE KeepsLinking(u, nd, q, A)
  <2> DEFINE f == loc[u].e
  <2>1. f \in Elements /\ f # e
    <3>1. f \in Elements
      BY <1>11, CallFacts DEF Linking, LocalsOK, InsertPcs
    <3> QED BY <3>1, GraphAssumption DEF GraphInv, OneCallEach
  <2>2. ASSUME NEW b \in A
        PROVE  /\ f \in Recorded(q[b]) => f \in Recorded(nd[b])
               /\ f \in nd[b].out \cup nd[b].ovf => f \in q[b].out \cup q[b].ovf
    BY <1>3, <1>6 DEF Live
  <2> QED BY <1>6, <2>1, <2>2 DEF KeepsLinking
<1>12. loc[t].over # {} => Set(t, loc[t])
  BY <1>1 DEF Set, GraphInv, TypeOK
<1>13. loc[t] \in Locals
  BY CallFacts
<1> QED BY <1>1, <1>6, <1>8, <1>9, <1>10, <1>11, <1>12, <1>13, LinksMade DEF nd

-------------------------------------------------------------------------------
(* Replacing links.                                                        *)

\* A step of a remove that repairs a level.
LEMMA RepairOn ==
  ASSUME GraphInv, LinkInv, NEW t \in Threads, pc[t] \in RepairPcs,
         NEW p \in RepairPcs, NEW L, L.e = loc[t].e, L.level = loc[t].level,
         L.cand = loc[t].cand, L.newEp = loc[t].newEp,
         \/ L.repl = loc[t].repl /\ L.rlevel = loc[t].rlevel
         \/ L.repl \in Linked[L.rlevel] /\ L.repl # L.e,
         NEW nds
  PROVE  /\ GoesOn(t, p, L)
         /\ SearchOK(p, L, held[t], Linked, entry, entryLevel)
         /\ NewOK(p, L, held[t], nds, Linked) /\ PendOK(p, L, nds)
         /\ RemovalOK(p, L, nds, Linked, entry)
<1>1. /\ SearchOK(pc[t], loc[t], held[t], Linked, entry, entryLevel)
      /\ RemovalOK(pc[t], loc[t], nodes, Linked, entry)
      /\ HeldOK(pc[t], loc[t], held[t], height)
  BY CallLinked, CallFacts
<1>2. /\ p \in RemovePcs \ {"rem_upgrade", "rem_drop", "rem_done"}
      /\ p \notin InsertPcs \cup CreatedPcs \cup KnnPcs \cup {"rem_lock", "rem_relock"}
      /\ pc[t] \in RemovePcs \ {"rem_upgrade", "rem_drop", "rem_done"}
      /\ pc[t] \notin InsertPcs \cup CreatedPcs \cup KnnPcs \cup {"rem_lock", "rem_relock"}
  BY DEF RepairPcs, RemovePcs, InsertPcs, CreatedPcs, KnnPcs
<1>3. "ins_link" \in InsertPcs /\ "ins_upgrade" \in InsertPcs /\ "ins_linking" \in InsertPcs
      /\ "ins_lock" \in InsertPcs /\ "ins_search" \in InsertPcs /\ "ins_descend" \in InsertPcs
      /\ "ins_done" \in InsertPcs /\ "ins_create" \in InsertPcs /\ "ins_keep" \in InsertPcs
      /\ CandPcs \subseteq InsertPcs \cup KnnPcs
  BY DEF InsertPcs, CandPcs
<1>4. loc[t].cand = {} /\ held[t][loc[t].level] # "none"
  BY <1>1, <1>2, <1>3 DEF SearchOK, HeldOK
<1>5. SearchOK(p, L, held[t], Linked, entry, entryLevel)
  BY <1>2, <1>3, <1>4 DEF SearchOK
<1>6. NewOK(p, L, held[t], nds, Linked) /\ PendOK(p, L, nds)
  BY <1>2, <1>3 DEF NewOK, PendOK
<1>7. RemovalOK(p, L, nds, Linked, entry)
  BY <1>1, <1>2 DEF RemovalOK
<1>8. GoesOn(t, p, L)
  <2>1. \A k \in Levels : Detached(p, L, k) <=> Detached(pc[t], loc[t], k)
    BY <1>2, <1>3 DEF Detached
  <2>2. \A k \in Levels : ~Cut(pc[t], loc[t], k)
    BY <1>2, <1>3 DEF Cut
  <2> QED BY <1>2, <2>1, <2>2 DEF GoesOn
<1> QED BY <1>5, <1>6, <1>7, <1>8

\* The selection that will replace a neighbour's list has linked nodes only.
LEMMA ReselectLinks ==
  ASSUME GraphInv, LinkInv, NEW t \in Threads, InsertShrink(t) \/ RemoveShrink(t)
  PROVE  LinkInv'
<1> DEFINE l == loc[t].level
           A == Linked[l]
           p == IF pc[t] = "ins_shrink" THEN "ins_replace" ELSE "rem_replace"
<1>1. /\ Reselect(t) /\ pc[t] \in {"ins_shrink", "rem_shrink"} /\ Goto(t, p)
      /\ UNCHANGED <<nodes, entry, entryLevel, height, held, handle>>
  BY DEF InsertShrink, RemoveShrink
<1>2. PICK v \in loc[t].over :
        \E new \in Selections((At(t)[v].out \cup {loc[t].link}) \ {v},
                              MaxNeighbours(loc[t].level)) :
          Set(t, [loc[t] EXCEPT !.shrink = v, !.shrunk = new])
  BY <1>1 DEF Reselect
<1>3. PICK new \in Selections((At(t)[v].out \cup {loc[t].link}) \ {v},
                              MaxNeighbours(loc[t].level)) :
        Set(t, [loc[t] EXCEPT !.shrink = v, !.shrunk = new])
  BY <1>2
<1>4. ShrinkOK(pc[t], loc[t], Linked) /\ l \in Levels
  BY CallLinked, LevelFacts
<1>5. v \in A /\ loc[t].link \in A /\ loc[t].over \subseteq A
  BY <1>1, <1>2, <1>4 DEF ShrinkOK, ShrinkPcs
<1>6. At(t)[v].out \subseteq A
  BY <1>4, <1>5, LevelLinked DEF LevelLinks, Recorded, At
<1>7. new \subseteq A \ {v}
  BY <1>3, <1>5, <1>6, SelectionsWithin
<1> DEFINE L == [loc[t] EXCEPT !.shrink = v, !.shrunk = new]
<1>8. /\ L.e = loc[t].e /\ L.top = loc[t].top /\ L.level = l /\ L.cand = loc[t].cand
      /\ L.over = loc[t].over /\ L.link = loc[t].link /\ L.shrink = v /\ L.shrunk = new
      /\ L.unl = loc[t].unl /\ L.orph = loc[t].orph /\ L.newEp = loc[t].newEp
      /\ L.repl = loc[t].repl /\ L.rlevel = loc[t].rlevel /\ Set(t, L)
  BY <1>3, CallFacts DEF Locals
<1> HIDE DEF L, p
<1>9. Holds(t) /\ held'[t] = held[t]
  BY <1>1, SameLocks
<1>10. WriteLevel(t, At(t))
  BY <1>1, <1>4, LevelFacts DEF WriteLevel, At
<1>11. CASE pc[t] = "ins_shrink"
  <2>1. p = "ins_replace" /\ p \in CreatedPcs
    BY <1>11 DEF p, CreatedPcs
  <2>2. /\ GoesOn(t, p, L)
        /\ SearchOK(p, L, held[t], Linked, entry, entryLevel)
        /\ NewOK(p, L, held[t], nodes', Linked)
        /\ RemovalOK(p, L, nodes', Linked, entry)
    BY <1>8, <1>10, <1>11, <2>1, LinkingOn
  <2>3. PendOK(p, L, nodes) /\ ShrinkOK(p, L, Linked)
    BY <1>5, <1>7, <1>8, <2>1 DEF PendOK, ShrinkOK, ShrinkPcs, RepairPcs
  <2>4. CallLinks(p, L, held'[t], nodes, Linked, entry, entryLevel)
    BY <1>1, <1>9, <2>2, <2>3 DEF CallLinks
  <2> QED BY <1>1, <1>8, <1>9, <1>11, <2>2, <2>4, QuietStep
<1>12. CASE pc[t] = "rem_shrink"
  <2>1. p = "rem_replace" /\ p \in RepairPcs /\ pc[t] \in RepairPcs
    BY <1>12 DEF p, RepairPcs
  <2>2. /\ GoesOn(t, p, L)
        /\ SearchOK(p, L, held[t], Linked, entry, entryLevel)
        /\ NewOK(p, L, held[t], nodes, Linked) /\ PendOK(p, L, nodes)
        /\ RemovalOK(p, L, nodes, Linked, entry)
    BY <1>8, <2>1, RepairOn
  <2>3. ShrinkOK(p, L, Linked)
    BY <1>4, <1>5, <1>7, <1>8, <2>1 DEF ShrinkOK, InsertPcs
  <2>4. CallLinks(p, L, held'[t], nodes, Linked, entry, entryLevel)
    BY <1>9, <2>2, <2>3 DEF CallLinks
  <2> QED BY <1>1, <1>8, <1>9, <1>12, <2>2, <2>4, QuietStep
<1> QED BY <1>1, <1>11, <1>12

\* replace_neighbours on a level where no links are being made.
Replaces(nd, A, l, x, new, q) ==
  /\ nd \in LevelType /\ Live(nd, A) /\ LevelLinks(nd, A) /\ Settled(nd, A)
  /\ x \in A /\ new \in SUBSET (A \ {x})
  /\ q = ReplaceNeighbours(nd, l, x, new)

\* It writes links of linked nodes, and leaves them as they should be.
Rewrites(nd, A, q) ==
  /\ \A y \in Elements : /\ Exists(q, y) <=> Exists(nd, y)
                         /\ Exists(nd, y) => q[y].lower = nd[y].lower
  /\ \A y \in Elements \ A : SameLinks(q[y], nd[y])
  /\ LevelLinks(q, A)
  /\ \A a \in A : q[a].inc = {}

\* A replacement rewrites links among linked nodes; what it cannot attach it
\* was given.
LEMMA ReplaceRewrites ==
  ASSUME NEW nd, NEW A, NEW l, NEW x, NEW new, NEW q, Replaces(nd, A, l, x, new, q)
  PROVE  Rewrites(nd, A, q) /\ Withheld(nd, l, x, new) \subseteq new
<1>1. /\ nd \in LevelType /\ Live(nd, A) /\ LevelLinks(nd, A) /\ Settled(nd, A)
      /\ x \in A /\ new \in SUBSET (A \ {x})
      /\ q = ReplaceNeighbours(nd, l, x, new)
  BY DEF Replaces
<1>2. /\ LevelLinks(ReplaceNeighbours(nd, l, x, new), A)
      /\ Settled(ReplaceNeighbours(nd, l, x, new), A)
      /\ \A y \in Elements \ A : ReplaceNeighbours(nd, l, x, new)[y] = nd[y]
      /\ Withheld(nd, l, x, new) \subseteq new
  <2>1. LET r == ReplaceNeighbours(nd, l, x, new)
        IN  /\ LevelLinks(r, A) /\ Settled(r, A)
            /\ \A y \in Elements \ A : r[y] = nd[y]
            /\ Withheld(nd, l, x, new) \subseteq new
    BY ONLY <1>1, ReplaceLinks, Zenon
  <2> QED BY <2>1
<1>3. x \in Elements /\ Exists(nd, x) /\ new \in SUBSET Elements
  BY <1>1 DEF Live
<1>4. \A y \in Elements :
        /\ Exists(ReplaceNeighbours(nd, l, x, new), y) <=> Exists(nd, y)
        /\ Exists(nd, y) => ReplaceNeighbours(nd, l, x, new)[y].lower = nd[y].lower
  BY <1>1, <1>3, ReplaceType
<1> QED BY <1>1, <1>2, <1>4 DEF Rewrites, Settled, SameLinks

\* The same of ReplaceNeighbours on the level a call is at.
LEMMA ReplaceWrites ==
  ASSUME GraphInv, LinkInv, NEW t \in Threads, NEW x \in Linked[loc[t].level],
         NEW new \in SUBSET (Linked[loc[t].level] \ {x}),
         \A u \in Threads : ~Linking(u, loc[t].level)
  PROVE  /\ Rewrites(At(t), Linked[loc[t].level],
                     ReplaceNeighbours(At(t), loc[t].level, x, new))
         /\ Withheld(At(t), loc[t].level, x, new) \subseteq new
<1>1. /\ loc[t].level \in Levels /\ At(t) \in LevelType /\ At(t) = nodes[loc[t].level]
  BY LevelFacts DEF At
<1>2. /\ Live(At(t), Linked[loc[t].level]) /\ LevelLinks(At(t), Linked[loc[t].level])
      /\ Settled(At(t), Linked[loc[t].level])
  BY <1>1, LinkedIs, LevelLinked, SettledLevel
<1>3. Replaces(At(t), Linked[loc[t].level], loc[t].level, x, new,
               ReplaceNeighbours(At(t), loc[t].level, x, new))
  BY <1>1, <1>2 DEF Replaces
<1> QED BY <1>3, ReplaceRewrites

\* The selected neighbours take the place of the links of an overfull node.
LEMMA ReplacedLinks ==
  ASSUME GraphInv, LinkInv, NEW t \in Threads, InsertReplace(t) \/ RemoveReplace(t)
  PROVE  LinkInv'
<1> DEFINE l == loc[t].level
           A == Linked[l]
           q == ReplaceNeighbours(At(t), l, loc[t].shrink, loc[t].shrunk)
           L == AfterReplace(t)
<1>1. /\ ReplaceSelected(t) /\ pc[t] \in {"ins_replace", "rem_replace"}
      /\ UNCHANGED <<entry, entryLevel, height, held, handle>>
  BY DEF InsertReplace, RemoveReplace
<1>2. WriteLevel(t, q) /\ \A u \in Threads : ~Linking(u, l)
  BY <1>1 DEF ReplaceSelected, Linking
<1>3. ShrinkOK(pc[t], loc[t], Linked) /\ l \in Levels
  BY CallLinked, LevelFacts
<1>4. loc[t].shrink \in A /\ loc[t].shrunk \in SUBSET (A \ {loc[t].shrink})
      /\ loc[t].over \cup {loc[t].link} \subseteq A
  BY <1>1, <1>3 DEF ShrinkOK, ShrinkPcs
<1>5. /\ L \in Locals /\ L.e = loc[t].e /\ L.top = loc[t].top /\ L.level = l
      /\ L.cand = loc[t].cand /\ L.link = loc[t].link /\ L.over \subseteq loc[t].over
      /\ L.unl = loc[t].unl /\ L.orph = loc[t].orph /\ L.newEp = loc[t].newEp
      /\ L.repl = loc[t].repl /\ L.rlevel = loc[t].rlevel
  <2>1. loc[t] \in Locals
    BY CallFacts
  <2> QED BY <2>1 DEF Locals, AfterReplace
<1>6. Rewrites(At(t), A, q)
  BY <1>2, <1>4, ReplaceWrites
<1> HIDE DEF L, q
<1>7. /\ \A y \in Elements : /\ Exists(q, y) <=> Exists(At(t), y)
                             /\ Exists(At(t), y) => q[y].lower = At(t)[y].lower
      /\ \A y \in Elements \ A : SameLinks(q[y], At(t)[y])
      /\ LevelLinks(q, A) /\ \A a \in A : q[a].inc = {}
  BY <1>6 DEF Rewrites
<1>8. CASE pc[t] = "ins_replace"
  <2>1. IF L.over # {} THEN Goto(t, "ins_shrink") /\ Set(t, L) ELSE AfterLinks(t, L)
    BY <1>8 DEF InsertReplace, RemoveReplace, L
  <2> QED BY <1>1, <1>2, <1>5, <1>7, <1>8, <2>1, LinksMade
<1>9. CASE pc[t] = "rem_replace"
  <2> DEFINE p == IF L.over # {} THEN "rem_shrink" ELSE "rem_repair"
  <2>1. Goto(t, p) /\ Set(t, L)
    BY <1>9 DEF InsertReplace, RemoveReplace, L
  <2>2. p \in RepairPcs /\ pc[t] \in RepairPcs /\ p # "rem_replace"
    BY <1>9 DEF RepairPcs
  <2> HIDE DEF p
  <2>3. /\ GoesOn(t, p, L)
        /\ SearchOK(p, L, held[t], Linked, entry, entryLevel)
        /\ NewOK(p, L, held[t], nodes', Linked) /\ PendOK(p, L, nodes')
        /\ RemovalOK(p, L, nodes', Linked, entry)
    BY <1>5, <2>2, RepairOn
  <2>4. ShrinkOK(p, L, Linked)
    BY <1>3, <1>4, <1>5, <2>2 DEF ShrinkOK, InsertPcs, RepairPcs
  <2>5. Holds(t) /\ held'[t] = held[t]
    BY <1>1, SameLocks
  <2>6. CallLinks(p, L, held'[t], nodes', Linked, entry, entryLevel)
    BY <2>3, <2>4, <2>5 DEF CallLinks
  <2> QED BY <1>1, <1>2, <1>7, <2>1, <2>3, <2>5, <2>6, WriteStep
<1> QED BY <1>1, <1>8, <1>9

-------------------------------------------------------------------------------
(* Calls that return, and the first steps of a remove.                     *)

\* A call returns, and the nodes that its element has are linked.
LEMMA ReturnLinks ==
  ASSUME GraphInv, LinkInv, NEW t \in Threads, pc[t] # "ins_linking",
         Return(t), UNCHANGED <<nodes, height>>, loc[t].e \in Elements,
         \A k \in Levels : Exists(nodes[k], loc[t].e) =>
           /\ ~Detached(pc[t], loc[t], k) /\ ~Cut(pc[t], loc[t], k)
           /\ k <= handle'[loc[t].e],
         \A x \in Elements \ {loc[t].e} : handle'[x] = handle[x],
         UNCHANGED <<entry, entryLevel>> \/ held[t][GraphLock] = "X",
         EntryAtTop'
  PROVE  LinkInv'
<1> DEFINE e == loc[t].e
<1>1. Others(t) /\ pc'[t] = "idle" /\ loc'[t] = NoLocals
  BY ReturnMoves DEF Moves, Others
<1>2. NoLocals.e = Nil /\ NoLocals.cand = {} /\ ~NoLocals.newEp /\ Nil \notin Elements
  BY GraphAssumption DEF NoLocals
<1>3. Linked' = Linked
  <2>1. \A x \in Elements, k \in Levels :
           (/\ Exists(nodes'[k], x)
            /\ loc'[t].e = x => ~Detached(pc'[t], loc'[t], k))
           <=> (/\ Exists(nodes[k], x)
                /\ loc[t].e = x => ~Detached(pc[t], loc[t], k))
    BY <1>1, <1>2
  <2> QED BY <1>1, <2>1, SameLinked
<1>4. \A r : SameLinks(r, r)
  BY DEF SameLinks
<1>5. OthersKept(t)
  BY <1>1, <1>3, <1>4 DEF OthersKept
<1>6. \A k \in Levels : LevelOK(nodes'[k], Linked'[k], BeingLinked'[k])
  <2>1. \A k \in Levels : ~Linking(t, k)
    BY DEF Linking
  <2> QED BY <1>1, <1>3, <1>4, <2>1, LevelKept
<1>7. ElementsOK'
  <2> SUFFICES ASSUME NEW x \in Elements, NEW k \in Levels, Exists(nodes[k], x)
               PROVE  /\ \/ k <= handle'[x]
                         \/ \E u \in Threads : loc'[u].e = x /\ pc'[u] \in InsertPcs
                      /\ k > 0 /\ ~nodes[k][x].lower =>
                           \E u \in Threads : loc'[u].e = x /\ Cut(pc'[u], loc'[u], k)
    BY DEF ElementsOK
  <2>1. /\ k <= handle[x] \/ \E u \in Threads : loc[u].e = x /\ pc[u] \in InsertPcs
        /\ k > 0 /\ ~nodes[k][x].lower =>
             \E u \in Threads : loc[u].e = x /\ Cut(pc[u], loc[u], k)
    BY DEF LinkInv, ElementsOK
  <2>2. CASE x # e
    <3>1. \A u \in Threads : loc[u].e = x => loc'[u] = loc[u] /\ pc'[u] = pc[u]
      BY <1>1, <2>2 DEF Others
    <3>2. handle'[x] = handle[x]
      BY <2>2
    <3> QED BY <2>1, <3>1, <3>2
  <2>3. CASE x = e
    <3>1. \A u \in Threads : loc[u].e = x => u = t
      BY <2>3, GraphAssumption DEF GraphInv, OneCallEach
    <3>2. ~Cut(pc[t], loc[t], k) /\ k <= handle'[x]
      BY <2>3
    <3> QED BY <2>1, <3>1, <3>2
  <2> QED BY <2>2, <2>3
<1>8. CallLinks(pc'[t], loc'[t], held'[t], nodes', Linked', entry', entryLevel')
  <2>1. SearchOK("idle", NoLocals, held'[t], Linked', entry', entryLevel')
    BY <1>2 DEF SearchOK, KnnPcs, FromPcs
  <2>2. NewOK("idle", NoLocals, held'[t], nodes', Linked') /\ PendOK("idle", NoLocals, nodes')
    BY DEF NewOK, PendOK, InsertPcs
  <2>3. ShrinkOK("idle", NoLocals, Linked')
    BY DEF ShrinkOK, InsertPcs, ShrinkPcs, RepairPcs
  <2>4. RemovalOK("idle", NoLocals, nodes', Linked', entry')
    BY DEF RemovalOK, RemovePcs
  <2> QED BY <1>1, <2>1, <2>2, <2>3, <2>4 DEF CallLinks
<1> QED BY <1>5, <1>6, <1>7, <1>8, LinksTogether

\* The new element is linked on every level up to the level of its handle.
LEMMA InsertReturnLinks ==
  ASSUME GraphInv, LinkInv, NEW t \in Threads, InsertReturn(t)
  PROVE  LinkInv'
<1> DEFINE e == loc[t].e
<1>1. /\ pc[t] = "ins_done" /\ Return(t) /\ UNCHANGED <<nodes, height>>
      /\ handle' = [handle EXCEPT ![e] = loc[t].top]
      /\ IF loc[t].newEp THEN entry' = e /\ entryLevel' = loc[t].top
                         ELSE UNCHANGED <<entry, entryLevel>>
  BY DEF InsertReturn, SetEntryPoint
<1>2. /\ LocalsOK("ins_done", loc[t], height) /\ FreshOK("ins_done", loc[t], handle)
      /\ EntryOK("ins_done", loc[t], held[t], entry, entryLevel)
      /\ NewOK("ins_done", loc[t], held[t], nodes, Linked)
  BY <1>1, CallFacts, CallLinked
<1>3. e \in Elements /\ loc[t].level = loc[t].top /\ handle[e] = NoLevel
  BY <1>2 DEF LocalsOK, NewOK, FreshOK, InsertPcs
<1>4. handle'[e] = loc[t].top /\ \A x \in Elements \ {e} : handle'[x] = handle[x]
  BY <1>1, <1>3 DEF GraphInv, TypeOK
<1>5. ASSUME NEW k \in Levels, Exists(nodes[k], e)
      PROVE  ~Detached("ins_done", loc[t], k) /\ ~Cut("ins_done", loc[t], k)
             /\ k <= loc[t].top
  <2>1. k <= loc[t].top
    BY <1>2, <1>5 DEF NewOK, InsertPcs
  <2>2. k \in Int /\ loc[t].top \in Int
    BY LevelFacts, LockSets
  <2>3. ~(loc[t].level < k)
    BY <1>3, <2>1, <2>2
  <2>4. ~Detached("ins_done", loc[t], k)
    BY <2>3 DEF Detached, InsertPcs, CreatedPcs, RepairPcs
  <2> QED BY <2>1, <2>4 DEF Cut
<1>6. UNCHANGED <<entry, entryLevel>> \/ held[t][GraphLock] = "X"
  BY <1>1, <1>2 DEF EntryOK
<1>7. EntryAtTop'
  <2>1. CASE loc[t].newEp
    BY <1>1, <1>4, <2>1 DEF EntryAtTop
  <2>2. CASE ~loc[t].newEp
    <3>1. entry # Nil => entryLevel = handle[entry] /\ entry \in Elements
          /\ entryLevel \in Levels
      BY DEF LinkInv, EntryAtTop, GraphInv, TypeOK
    <3>2. NoLevel \notin Levels
      BY GraphAssumption DEF NoLevel, Levels
    <3>3. entry # Nil => entry # e
      BY <1>3, <3>1, <3>2
    <3> QED BY <1>1, <1>4, <2>2, <3>1, <3>3 DEF EntryAtTop
  <2> QED BY <2>1, <2>2
<1> QED BY <1>1, <1>3, <1>4, <1>5, <1>6, <1>7, ReturnLinks

\* The removed element has no node left, and another entry point takes its place.
LEMMA RemoveReturnLinks ==
  ASSUME GraphInv, LinkInv, ~strayed', NEW t \in Threads, RemoveReturn(t)
  PROVE  LinkInv'
<1> DEFINE e == loc[t].e
<1>1. /\ pc[t] = "rem_done" /\ Return(t) /\ UNCHANGED <<nodes, height>>
      /\ handle' = [handle EXCEPT ![e] = NoLevel]
      /\ loc[t].newEp => /\ entry' = loc[t].repl
                         /\ loc[t].repl # Nil => entryLevel' = loc[t].rlevel
      /\ ~loc[t].newEp => UNCHANGED <<entry, entryLevel>>
      /\ ~Strays(t)
  BY DEF RemoveReturn, SetEntryPoint
<1>2. /\ LocalsOK("rem_done", loc[t], height) /\ loc[t] \in Locals
      /\ EntryOK("rem_done", loc[t], held[t], entry, entryLevel)
      /\ RemovalOK("rem_done", loc[t], nodes, Linked, entry)
  BY <1>1, CallFacts, CallLinked
<1>3. e \in Elements /\ loc[t].repl \in Elements \cup {Nil} /\ entry \in Elements \cup {Nil}
  BY <1>2, CandType DEF LocalsOK, RemovePcs, GraphInv, TypeOK
<1>4. \A x \in Elements \ {e} : handle'[x] = handle[x]
  BY <1>1, <1>3 DEF GraphInv, TypeOK
<1>5. \A k \in Levels : ~Exists(nodes[k], e)
  BY <1>2 DEF RemovalOK
<1>6. UNCHANGED <<entry, entryLevel>> \/ held[t][GraphLock] = "X"
  BY <1>1, <1>2 DEF EntryOK
<1>7. EntryAtTop'
  <2>1. CASE loc[t].newEp
    <3>1. loc[t].repl # Nil => loc[t].repl \in Elements \ {e}
                               /\ handle[loc[t].repl] = loc[t].rlevel
      BY <1>1, <1>2, <1>3, <2>1 DEF RemovalOK, RemovePcs, Strays
    <3>2. entry' # Nil => entryLevel' = handle'[entry']
      <4> HIDE DEF e
      <4> QED BY <1>1, <1>4, <2>1, <3>1
    <3> QED BY <3>2 DEF EntryAtTop
  <2>2. CASE ~loc[t].newEp
    <3>1. e # entry
      BY <1>2, <2>2 DEF RemovalOK, RemovePcs
    <3> QED BY <1>1, <1>3, <1>4, <2>2, <3>1 DEF LinkInv, EntryAtTop
  <2> QED BY <2>1, <2>2
<1>8. pc[t] # "ins_linking"
  BY <1>1
<1> QED BY <1>1, <1>3, <1>4, <1>5, <1>6, <1>7, <1>8, ReturnLinks

\* A remove or a mark begins: no insert works on its element, and so the nodes
\* the element has are those its handle knows of.
LEMMA HandleIsTop ==
  ASSUME GraphInv, LinkInv, NEW e \in Elements,
         \A u \in Threads : loc[u].e = e => pc[u] \notin InsertPcs,
         NEW k \in Levels, Exists(nodes[k], e)
  PROVE  k <= handle[e]
  BY DEF LinkInv, ElementsOK

\* remove starts at the top of the element's chain.
LEMMA RemoveCallLinks ==
  ASSUME GraphInv, LinkInv, NEW t \in Threads, NEW e \in Elements, RemoveCall(t, e)
  PROVE  LinkInv'
<1> DEFINE h == handle[e]
           L == [NoLocals EXCEPT !.e = e, !.top = h, !.level = h]
           p == IF SoleEntryPoint(e) THEN "rem_upgrade" ELSE "rem_lock"
<1>1. /\ pc[t] = "idle" /\ Unused(e) /\ h # NoLevel /\ Set(t, L) /\ Goto(t, p)
      /\ IF SoleEntryPoint(e) THEN UNCHANGED held ELSE HoldAlso(t, GraphLock, "S")
      /\ UNCHANGED <<nodes, entry, entryLevel, height, handle>>
  BY DEF RemoveCall
<1>2. loc[t].e = Nil /\ Nil \notin Elements
  BY <1>1, CallFacts, GraphAssumption DEF LocalsOK
<1>3. h \in Levels /\ h \in Int
  BY <1>1, LockSets DEF GraphInv, TypeOK
<1>4. /\ L.e = e /\ L.top = h /\ L.level = h /\ L.cand = {} /\ ~L.newEp /\ L.repl = Nil
  <2> HIDE DEF h
  <2> QED BY DEF NoLocals
<1>5. Holds(t)
  BY <1>1, SameLocks, HoldAlsoHolds, LockSets DEF Modes
<1>6. e = entry => SoleEntryPoint(e)
  BY <1>2 DEF LinkInv, EntryAtTop, SoleEntryPoint
<1>7. p \in RemovePcs /\ p \notin InsertPcs \cup KnnPcs \cup FromPcs \cup ShrinkPcs \cup RepairPcs
  BY DEF RemovePcs, InsertPcs, KnnPcs, FromPcs, ShrinkPcs, RepairPcs
<1>8. \A k \in Levels : Exists(nodes[k], e) => k <= h
  BY <1>1, HandleIsTop DEF Unused
<1> HIDE DEF L, h
<1>9. GoesOn(t, p, L)
  <2>1. ASSUME NEW k \in Levels, Exists(nodes[k], e) PROVE ~Detached(p, L, k)
    <3>1. ~(L.level < k)
      BY <1>3, <1>4, <1>8, <2>1, LockSets
    <3> QED BY <1>7, <3>1 DEF Detached, InsertPcs, CreatedPcs
  <2>2. pc[t] \notin InsertPcs /\ \A k \in Levels : ~Cut(pc[t], loc[t], k)
    BY <1>1 DEF InsertPcs, Cut
  <2> QED BY <1>2, <1>4, <2>1, <2>2 DEF GoesOn
<1>10. SearchOK(p, L, held'[t], Linked, entry, entryLevel)
  BY <1>4, <1>7 DEF SearchOK
<1>11. NewOK(p, L, held'[t], nodes, Linked) /\ PendOK(p, L, nodes)
  BY <1>7 DEF NewOK, PendOK
<1>12. ShrinkOK(p, L, Linked)
  BY <1>7 DEF ShrinkOK
<1>13. RemovalOK(p, L, nodes, Linked, entry)
  BY <1>4, <1>6 DEF RemovalOK
<1>14. CallLinks(p, L, held'[t], nodes, Linked, entry, entryLevel)
  BY <1>10, <1>11, <1>12, <1>13 DEF CallLinks
<1> HIDE DEF p
<1> QED BY <1>1, <1>5, <1>9, <1>14, QuietStep

\* remove reads again, under the exclusive lock, whether its element is the
\* entry point.
LEMMA RemoveUpgradeLinks ==
  ASSUME GraphInv, LinkInv, NEW t \in Threads, RemoveUpgrade(t)
  PROVE  LinkInv'
<1> DEFINE e == loc[t].e
           n == SoleEntryPoint(e)
           L == [loc[t] EXCEPT !.newEp = n]
<1>1. /\ pc[t] = "rem_upgrade" /\ Set(t, L) /\ Goto(t, "rem_lock")
      /\ HoldAlso(t, GraphLock, "X")
      /\ UNCHANGED <<nodes, entry, entryLevel, height, handle>>
  BY DEF RemoveUpgrade
<1>2. /\ LocalsOK("rem_upgrade", loc[t], height) /\ OwnsOK("rem_upgrade", loc[t], nodes, handle)
      /\ SearchOK("rem_upgrade", loc[t], held[t], Linked, entry, entryLevel)
      /\ RemovalOK("rem_upgrade", loc[t], nodes, Linked, entry)
  BY <1>1, CallFacts, CallLinked
<1>3. /\ e \in Elements /\ handle[e] = loc[t].top /\ loc[t].repl = Nil
      /\ loc[t].level = loc[t].top /\ loc[t].cand = {}
  BY <1>2 DEF LocalsOK, OwnsOK, RemovalOK, SearchOK, RemovePcs, CandPcs, KnnPcs
<1>4. /\ L.e = e /\ L.top = loc[t].top /\ L.level = loc[t].level /\ L.cand = loc[t].cand
      /\ L.newEp = n /\ L.repl = loc[t].repl
  <2> HIDE DEF n
  <2> QED BY CallFacts DEF Locals
<1>5. Holds(t)
  BY <1>1, HoldAlsoHolds, LockSets DEF Modes
<1>6. e = entry => n
  BY <1>3, GraphAssumption DEF LinkInv, EntryAtTop, SoleEntryPoint
<1>7. \A k \in Levels : Exists(nodes[k], e) => k <= handle[e]
  <2>1. \A u \in Threads : loc[u].e = e => u = t
    BY <1>3, GraphAssumption DEF GraphInv, OneCallEach
  <2>2. \A u \in Threads : loc[u].e = e => pc[u] \notin InsertPcs
    BY <1>1, <2>1 DEF InsertPcs
  <2> HIDE DEF e
  <2> QED BY <1>3, <2>2, HandleIsTop
<1> HIDE DEF L, n
<1>8. GoesOn(t, "rem_lock", L)
  <2>1. ASSUME NEW k \in Levels, Exists(nodes[k], e)
        PROVE  ~Detached("rem_lock", L, k) /\ ~Detached("rem_upgrade", loc[t], k)
    <3>1. k <= loc[t].top /\ k \in Int /\ loc[t].top \in Int
      BY <1>3, <1>7, <2>1, LevelFacts, LockSets
    <3>2. ~(L.level < k)
      BY <1>3, <1>4, <3>1
    <3> QED BY <3>2 DEF Detached, InsertPcs, CreatedPcs, RepairPcs
  <2>2. pc[t] \notin InsertPcs /\ \A k \in Levels : ~Cut(pc[t], loc[t], k)
    BY <1>1 DEF InsertPcs, Cut
  <2> QED BY <1>1, <1>4, <2>1, <2>2 DEF GoesOn
<1>9. SearchOK("rem_lock", L, held'[t], Linked, entry, entryLevel)
  BY <1>3, <1>4 DEF SearchOK, KnnPcs, FromPcs
<1>10. NewOK("rem_lock", L, held'[t], nodes, Linked) /\ PendOK("rem_lock", L, nodes)
       /\ ShrinkOK("rem_lock", L, Linked)
  BY DEF NewOK, PendOK, ShrinkOK, InsertPcs, ShrinkPcs, RepairPcs
<1>11. RemovalOK("rem_lock", L, nodes, Linked, entry)
  BY <1>3, <1>4, <1>6 DEF RemovalOK
<1>12. CallLinks("rem_lock", L, held'[t], nodes, Linked, entry, entryLevel)
  BY <1>9, <1>10, <1>11 DEF CallLinks
<1>13. pc[t] # "ins_linking"
  BY <1>1
<1> QED BY <1>1, <1>5, <1>8, <1>12, <1>13, QuietStep

-------------------------------------------------------------------------------
(* Unlinking.                                                              *)

\* unlink_neighbours takes x out of the linked nodes of a level.
Unlinks(nd, A, x, q) ==
  /\ \A y \in Elements : /\ Exists(q, y) <=> Exists(nd, y)
                         /\ Exists(nd, y) => q[y].lower = nd[y].lower
  /\ LevelLinks(q, A \ {x}) /\ Settled(q, A \ {x})
  /\ q[x].out = {}
  /\ \A y \in Elements \ A : q[y] = nd[y]
  /\ Severed(nd, x) \subseteq A \ {x}
  /\ IncomingNeighbours(q[x]) \subseteq A \ {x}

\* What unlink_neighbours writes on a level where no links are being made: the
\* records of the target are all the nodes that name it.
LEMMA UnlinkUnlinks ==
  ASSUME NEW nd \in LevelType, NEW A, Live(nd, A), LevelLinks(nd, A),
         Settled(nd, A), NEW x \in A
  PROVE  Unlinks(nd, A, x, UnlinkNeighbours(nd, x))
<1>1. x \in Elements /\ Exists(nd, x)
  BY DEF Live
<1>2. /\ LevelLinks(UnlinkNeighbours(nd, x), A \ {x})
      /\ Settled(UnlinkNeighbours(nd, x), A \ {x})
      /\ UnlinkNeighbours(nd, x)[x].out = {}
      /\ \A y \in Elements \ A : UnlinkNeighbours(nd, x)[y] = nd[y]
      /\ Severed(nd, x) \subseteq A \ {x}
  BY UnlinkLinks
<1>3. /\ \A y \in Elements : Exists(UnlinkNeighbours(nd, x), y) <=> Exists(nd, y)
      /\ \A y \in Elements : Exists(nd, y) =>
           UnlinkNeighbours(nd, x)[y].lower = nd[y].lower
      /\ IncomingNeighbours(UnlinkNeighbours(nd, x)[x]) \subseteq Orphaned(nd, x)
  BY <1>1, UnlinkType
<1>4. Orphaned(nd, x) \subseteq Severed(nd, x)
  BY <1>1, SeveredType
<1> QED BY <1>2, <1>3, <1>4 DEF Unlinks

\* From now on no link names the node of the element on this level.
LEMMA RemoveUnlinkLinks ==
  ASSUME GraphInv, LinkInv, NEW t \in Threads, RemoveUnlink(t)
  PROVE  LinkInv'
<1> DEFINE l  == loc[t].level
           e  == loc[t].e
           A  == Linked[l]
           q  == UnlinkNeighbours(At(t), e)
           O  == IncomingNeighbours(q[e])
           R(f) == IF loc[t].repl = Nil THEN f ELSE loc[t].repl
           r  == IF loc[t].repl = Nil THEN l ELSE loc[t].rlevel
<1>1. /\ pc[t] = "rem_lock" /\ CanLock(t, l) /\ HoldOnly(t, l, "X")
      /\ WriteLevel(t, q) /\ Goto(t, "rem_repair")
      /\ UNCHANGED <<entry, entryLevel, height, handle>>
  BY DEF RemoveUnlink
<1>2. PICK U \in Unlinked(At(t), l, e) : \E front \in Front(At(t), e, U) :
        Set(t, [loc[t] EXCEPT !.unl = U, !.orph = O,
                  !.repl   = IF @ = Nil THEN front ELSE @,
                  !.rlevel = IF loc[t].repl = Nil THEN l ELSE @])
  BY DEF RemoveUnlink
<1>3. PICK front \in Front(At(t), e, U) :
        Set(t, [loc[t] EXCEPT !.unl = U, !.orph = O, !.repl = R(front), !.rlevel = r])
  BY <1>2
<1>4. /\ LocalsOK("rem_lock", loc[t], height)
      /\ OwnsOK("rem_lock", loc[t], nodes, handle)
      /\ SearchOK("rem_lock", loc[t], held[t], Linked, entry, entryLevel)
      /\ RemovalOK("rem_lock", loc[t], nodes, Linked, entry)
  BY <1>1, CallFacts, CallLinked
<1>5. /\ l \in Levels /\ l \in Int /\ e \in Elements /\ At(t) \in LevelType
      /\ l \in 0 .. loc[t].top /\ At(t) = nodes[l]
  BY <1>4, LevelFacts, LockSets DEF LocalsOK, RemovePcs, At
<1>6. Exists(At(t), e)
  BY <1>4, <1>5 DEF OwnsOK, RemovePcs, ChainFrom, At
<1>7. e \in A
  <2>1. ~Detached("rem_lock", loc[t], l)
    BY <1>5 DEF Detached, InsertPcs, CreatedPcs, RepairPcs
  <2> QED BY <1>1, <1>5, <1>6, <2>1, LinkedOwn
<1>8. \A u \in Threads : ~Linking(u, l)
  BY <1>1, AloneOnLevel DEF Linking
<1>9. Live(At(t), A) /\ LevelLinks(At(t), A) /\ Settled(At(t), A)
  BY <1>5, <1>8, LinkedIs, LevelLinked, SettledLevel
<1>10. Unlinks(At(t), A, e, q)
  <2> HIDE DEF A, e
  <2> QED BY <1>5, <1>7, <1>9, UnlinkUnlinks
<1>11. /\ \A y \in Elements : /\ Exists(q, y) <=> Exists(At(t), y)
                              /\ Exists(At(t), y) => q[y].lower = At(t)[y].lower
       /\ LevelLinks(q, A \ {e}) /\ Settled(q, A \ {e})
       /\ q[e].out = {}
       /\ \A y \in Elements \ A : q[y] = At(t)[y]
       /\ O \subseteq A \ {e}
  <2>1. O \subseteq A \ {e}
    BY <1>10 DEF Unlinks
  <2> HIDE DEF O, q
  <2> QED BY <1>10, <2>1 DEF Unlinks
<1>12. U \subseteq A \ {e} /\ (front \in U \/ front = Nil)
  <2>1. Severed(At(t), e) \subseteq A \ {e}
    <3> HIDE DEF q
    <3> QED BY <1>10 DEF Unlinks
  <2>2. U \subseteq Severed(At(t), e) \ Orphaned(At(t), e)
    BY <1>2, UnlinkedWithin
  <2>3. front \in U \/ front = Nil
    BY <1>2, <1>3, UnlinkedWithin
  <2> QED BY <2>1, <2>2, <2>3
<1> DEFINE L == [loc[t] EXCEPT !.unl = U, !.orph = O, !.repl = R(front), !.rlevel = r]
<1>13. /\ L.e = e /\ L.top = loc[t].top /\ L.level = l /\ L.cand = loc[t].cand
       /\ L.newEp = loc[t].newEp /\ L.unl = U /\ L.orph = O
       /\ L.repl = R(front) /\ L.rlevel = r
  <2> HIDE DEF R, O, r
  <2> QED BY CallFacts DEF Locals
<1>14. Set(t, L)
  BY <1>3
<1> HIDE DEF L, q, r, O
<1>15. /\ Holds(t) /\ held'[t][l] = "X"
  BY <1>1, <1>5, HoldOnlyHolds DEF Modes
<1>16. pc'[t] = "rem_repair" /\ loc'[t] = L /\ Others(t)
  BY <1>1, <1>14, <1>15 DEF Goto, Set, Holds, Others, GraphInv, TypeOK
<1>17. \A k \in Levels : nodes'[k] = IF k = l THEN q ELSE nodes[k]
  BY <1>1, <1>5, LevelFacts DEF WriteLevel
<1>18. \A k \in Levels : /\ Detached("rem_lock", loc[t], k) <=> l < k
                         /\ Detached("rem_repair", L, k) <=> l <= k
  BY <1>13 DEF Detached, InsertPcs, CreatedPcs, RepairPcs
<1>19. \A x \in Elements, k \in Levels :
         /\ Exists(nodes'[k], x) <=> Exists(nodes[k], x)
         /\ Exists(nodes'[k], x) => nodes'[k][x].lower = nodes[k][x].lower
  BY <1>5, <1>11, <1>17
<1>20. \A k \in Levels : Linked'[k] = IF k = l THEN Linked[k] \ {e} ELSE Linked[k]
  <2>1. ASSUME NEW k \in Levels, NEW x \in Elements
        PROVE  (\A u \in Threads : loc'[u].e = x => ~Detached(pc'[u], loc'[u], k))
               <=> /\ \A u \in Threads : loc[u].e = x => ~Detached(pc[u], loc[u], k)
                   /\ ~(k = l /\ x = e)
    <3>1. \A u \in Threads \ {t} : pc'[u] = pc[u] /\ loc'[u] = loc[u]
      BY <1>16 DEF Others
    <3>2. CASE x # e
      BY <1>13, <1>16, <3>1, <3>2
    <3>3. CASE x = e
      <4>1. \A u \in Threads \ {t} : loc[u].e # x
        BY <1>5, <3>3, GraphAssumption DEF GraphInv, OneCallEach
      <4>2. (\A u \in Threads : loc'[u].e = x => ~Detached(pc'[u], loc'[u], k)) <=> ~(l <= k)
        BY <1>13, <1>16, <1>18, <3>1, <3>3, <4>1
      <4>3. (\A u \in Threads : loc[u].e = x => ~Detached(pc[u], loc[u], k)) <=> ~(l < k)
        BY <1>1, <1>18, <3>3, <4>1
      <4> QED BY <1>5, <3>3, <4>2, <4>3, LockSets
    <3> QED BY <3>2, <3>3
  <2>2. ASSUME NEW k \in Levels, NEW x \in Elements
        PROVE  x \in Linked'[k] <=> x \in Linked[k] /\ ~(k = l /\ x = e)
    <3>1. x \in Linked'[k] <=>
            /\ Exists(nodes'[k], x)
            /\ \A u \in Threads : loc'[u].e = x => ~Detached(pc'[u], loc'[u], k)
      BY DEF Linked
    <3>2. x \in Linked[k] <=>
            /\ Exists(nodes[k], x)
            /\ \A u \in Threads : loc[u].e = x => ~Detached(pc[u], loc[u], k)
      BY LinkedIs
    <3> QED BY <1>19, <2>1, <3>1, <3>2
  <2>3. \A k \in Levels : Linked'[k] \subseteq Elements /\ Linked[k] \subseteq Elements
    BY DEF Linked
  <2> QED BY <2>2, <2>3
<1>21. OthersKept(t)
  <2>1. ASSUME NEW k \in Levels, NEW x \in Linked[k]
        PROVE  x \in Linked'[k] \/ (pc[t] = "rem_lock" /\ x = loc[t].e /\ CanLock(t, k))
    BY <1>1, <1>20
  <2>2. ASSUME NEW k \in Levels, NEW x \in Elements, x \notin Linked[k]
        PROVE  nodes'[k][x] = nodes[k][x]
    BY <1>5, <1>11, <1>17, <2>2
  <2>3. \A u \in Threads \ {t}, k \in Levels : Linking(u, k) => nodes'[k] = nodes[k]
    BY <1>8, <1>17
  <2> QED BY <1>1, <1>16, <1>19, <2>1, <2>2, <2>3 DEF OthersKept, SameLinks
<1>22. ASSUME NEW k \in Levels PROVE LevelOK(nodes'[k], Linked'[k], BeingLinked'[k])
  <2>1. ~Linking(t, k)
    BY <1>1 DEF Linking
  <2>2. CASE k # l
    <3>1. Linked'[k] = Linked[k] /\ nodes'[k] = nodes[k]
      BY <1>17, <1>20, <2>2
    <3>2. \A s : SameLinks(s, s)
      BY DEF SameLinks
    <3> QED BY <1>16, <2>1, <3>1, <3>2, LevelKept
  <2>3. CASE k = l
    <3>1. Linked'[k] = A \ {e} /\ nodes'[k] = q
      BY <1>17, <1>20, <2>3
    <3>2. \A a \in Elements \ A : Exists(At(t), a) => At(t)[a].out = {}
      BY <1>5, LevelLinked
    <3>3. \A a \in Elements \ (A \ {e}) : Exists(q, a) => q[a].out = {}
      BY <1>11, <3>2
    <3> QED BY <1>11, <3>1, <3>3 DEF LevelOK, Settled
  <2> QED BY <2>2, <2>3
<1>23. ElementsOK'
  <2>1. pc[t] \notin InsertPcs /\ \A k \in Levels : ~Cut(pc[t], loc[t], k)
    BY <1>1 DEF InsertPcs, Cut
  <2> QED BY <1>1, <1>16, <1>19, <2>1, ElementsKept
<1>24. EntryAtTop'
  BY <1>1 DEF LinkInv, EntryAtTop
<1>25. SearchOK("rem_repair", L, held'[t], Linked', entry, entryLevel)
  <2>1. loc[t].cand = {}
    BY <1>4 DEF SearchOK, CandPcs, KnnPcs
  <2> QED BY <1>13, <1>15, <2>1 DEF SearchOK, KnnPcs
<1>26. NewOK("rem_repair", L, held'[t], nodes', Linked') /\ PendOK("rem_repair", L, nodes')
  BY DEF NewOK, PendOK, InsertPcs
<1>27. ShrinkOK("rem_repair", L, Linked')
  <2>1. L.unl \cup L.orph \subseteq Linked'[L.level]
    BY <1>5, <1>11, <1>12, <1>13, <1>20
  <2> QED BY <2>1 DEF ShrinkOK, InsertPcs, ShrinkPcs
<1>28. RemovalOK("rem_repair", L, nodes', Linked', entry)
  <2>1. e = entry => loc[t].newEp
    BY <1>4 DEF RemovalOK, RemovePcs
  <2>2. ASSUME loc[t].newEp, R(front) # Nil
        PROVE  R(front) \in Linked'[r] /\ R(front) # e
    <3>1. CASE loc[t].repl = Nil
      BY <1>5, <1>12, <1>20, <2>2, <3>1 DEF r
    <3>2. CASE loc[t].repl # Nil
      <4>1. loc[t].repl \in Linked[loc[t].rlevel] /\ loc[t].repl # e
        BY <1>4, <2>2, <3>2 DEF RemovalOK, RemovePcs
      <4>2. loc[t].rlevel \in Levels
        BY LevelFacts
      <4> QED BY <1>20, <3>2, <4>1, <4>2 DEF r
    <3> QED BY <3>1, <3>2
  <2> HIDE DEF R
  <2> QED BY <1>13, <2>1, <2>2 DEF RemovalOK
<1>29. CallLinks(pc'[t], loc'[t], held'[t], nodes', Linked', entry', entryLevel')
  BY <1>1, <1>16, <1>25, <1>26, <1>27, <1>28 DEF CallLinks
<1> QED BY <1>21, <1>22, <1>23, <1>24, <1>29, LinksTogether

-------------------------------------------------------------------------------
(* Repairing a level, and the two phases of a remove.                      *)

\* remove picks the orphans to repair among the nodes it unlinked.
LEMMA RemoveSeedLinks ==
  ASSUME GraphInv, LinkInv, NEW t \in Threads, RemoveSeed(t)
  PROVE  LinkInv'
<1> DEFINE l == loc[t].level
           e == loc[t].e
<1>1. /\ pc[t] = "rem_repair"
      /\ UNCHANGED <<nodes, entry, entryLevel, height, held, pc, handle>>
  BY DEF RemoveSeed
<1>2. PICK o \in loc[t].orph :
       Set(t, [loc[t] EXCEPT !.orph = @ \ {o}, !.unl = {o},
                             !.repl   = IF @ = Nil THEN o ELSE @,
                             !.rlevel = IF loc[t].repl = Nil THEN loc[t].level
                                                             ELSE @])
  BY DEF RemoveSeed
<1> DEFINE O == loc[t].orph \ {o}
           R == IF loc[t].repl = Nil THEN o ELSE loc[t].repl
           r == IF loc[t].repl = Nil THEN l ELSE loc[t].rlevel
           L == [loc[t] EXCEPT !.orph = O, !.unl = {o}, !.repl = R, !.rlevel = r]
<1>3. Set(t, L)
  BY <1>2
<1>4. LocalsOK("rem_repair", loc[t], height) /\ ShrinkOK("rem_repair", loc[t], Linked)
  BY <1>1, CallFacts, CallLinked
<1>5. e \in Elements /\ l \in Levels /\ l \in Int /\ loc[t].orph \subseteq Linked[l]
  BY <1>4, LevelFacts, LockSets DEF LocalsOK, ShrinkOK, RemovePcs, RepairPcs
<1>6. e \notin Linked[l]
  <2>1. Detached("rem_repair", loc[t], l)
    BY <1>5 DEF Detached, RepairPcs
  <2> QED BY <1>1, <1>5, <2>1, LinkedOwn
<1>7. /\ L.e = e /\ L.level = l /\ L.cand = loc[t].cand /\ L.newEp = loc[t].newEp
      /\ L.orph = O /\ L.unl = {o} /\ L.repl = R /\ L.rlevel = r
  <2> HIDE DEF O, R, r
  <2> QED BY CallFacts DEF Locals
<1> HIDE DEF L
<1>8. \/ L.repl = loc[t].repl /\ L.rlevel = loc[t].rlevel
      \/ L.repl \in Linked[L.rlevel] /\ L.repl # L.e
  BY <1>2, <1>5, <1>6, <1>7
<1>9. "rem_repair" \in RepairPcs /\ Goto(t, "rem_repair")
  BY <1>1 DEF RepairPcs, Goto, GraphInv, TypeOK
<1>10. /\ GoesOn(t, "rem_repair", L)
       /\ SearchOK("rem_repair", L, held[t], Linked, entry, entryLevel)
       /\ NewOK("rem_repair", L, held[t], nodes, Linked) /\ PendOK("rem_repair", L, nodes)
       /\ RemovalOK("rem_repair", L, nodes, Linked, entry)
  BY <1>1, <1>7, <1>8, <1>9, RepairOn
<1>11. ShrinkOK("rem_repair", L, Linked)
  BY <1>2, <1>5, <1>7 DEF ShrinkOK, InsertPcs, ShrinkPcs
<1>12. Holds(t) /\ held'[t] = held[t]
  BY <1>1, SameLocks
<1>13. CallLinks("rem_repair", L, held'[t], nodes, Linked, entry, entryLevel)
  BY <1>10, <1>11, <1>12 DEF CallLinks
<1>14. pc[t] # "ins_linking"
  BY <1>1
<1> QED BY <1>1, <1>3, <1>9, <1>10, <1>12, <1>13, <1>14, QuietStep

\* The orphan's new neighbours are found among the linked nodes, and it is not
\* one of them.
LEMMA RemoveRepairLinks ==
  ASSUME GraphInv, LinkInv, NEW t \in Threads, RemoveRepair(t)
  PROVE  LinkInv'
<1> DEFINE nd == At(t)
           l  == loc[t].level
           A  == Linked[l]
<1>1. /\ pc[t] = "rem_repair"
      /\ UNCHANGED <<entry, entryLevel, height, held, handle>>
  BY DEF RemoveRepair
<1>2. /\ ShrinkOK("rem_repair", loc[t], Linked)
      /\ HeldOK("rem_repair", loc[t], held[t], height)
      /\ l \in Levels /\ nd \in LevelType /\ nd = nodes[l] /\ l \in Locks
  BY <1>1, CallFacts, CallLinked, LevelFacts, LockSets DEF At
<1>3. loc[t].unl \subseteq A /\ loc[t].orph \subseteq A /\ held[t][l] = "X"
      /\ loc[t].unl \in SUBSET Elements
  BY <1>2, CandType DEF ShrinkOK, HeldOK, RepairPcs
<1>4. \A u \in Threads : ~Linking(u, l)
  <2>1. CanLock(t, l)
    BY <1>2, <1>3 DEF CanLock, GraphInv, LocksExclude
  <2> QED BY <1>1, <2>1, AloneOnLevel DEF Linking
<1>5. PICK o \in loc[t].orph, new \in SUBSET A :
        /\ o \notin new
        /\ WriteLevel(t, ReplaceNeighbours(nd, l, o, new))
        /\ Set(t, [loc[t] EXCEPT !.orph = @ \ {o}, !.unl = @ \cup {o},
                                 !.link = o, !.over = Withheld(nd, l, o, new)])
        /\ Goto(t, IF Withheld(nd, l, o, new) = {} THEN "rem_repair" ELSE "rem_shrink")
  <2>1. PICK o \in loc[t].orph :
          \E W \in SearchResults(t, loc[t].unl, {o}, EfConstruction) :
          \E new \in Selections(W, M) :
           LET over == Withheld(nd, l, o, new)
           IN  /\ WriteLevel(t, ReplaceNeighbours(nd, l, o, new))
               /\ Set(t, [loc[t] EXCEPT !.orph = @ \ {o}, !.unl = @ \cup {o},
                                        !.link = o, !.over = over])
               /\ Goto(t, IF over = {} THEN "rem_repair" ELSE "rem_shrink")
    BY DEF RemoveRepair
  <2>2. PICK W \in SearchResults(t, loc[t].unl, {o}, EfConstruction) :
          \E new \in Selections(W, M) :
           LET over == Withheld(nd, l, o, new)
           IN  /\ WriteLevel(t, ReplaceNeighbours(nd, l, o, new))
               /\ Set(t, [loc[t] EXCEPT !.orph = @ \ {o}, !.unl = @ \cup {o},
                                        !.link = o, !.over = over])
               /\ Goto(t, IF over = {} THEN "rem_repair" ELSE "rem_shrink")
    BY <2>1
  <2>3. W \subseteq Reachable(nd, loc[t].unl, {o})
    BY <1>3, <2>2, SearchResultsLive
  <2>4. Reachable(nd, loc[t].unl, {o}) \subseteq A
    <3>1. LevelLinks(nd, A)
      BY <1>2, LevelLinked
    <3> QED BY <1>3, <3>1, ReachLinked
  <2>5. Reachable(nd, loc[t].unl, {o}) \cap {o} = {}
    BY <1>2, <1>3, ReachableClosed
  <2>6. \A new \in Selections(W, M) : new \in SUBSET A /\ o \notin new
    <3>1. \A new \in Selections(W, M) : new \subseteq W
      BY SelectionsWithin
    <3> QED BY <2>3, <2>4, <2>5, <3>1
  <2> QED BY <2>1, <2>2, <2>6
<1> DEFINE q == ReplaceNeighbours(nd, l, o, new)
           V == Withheld(nd, l, o, new)
           O == loc[t].orph \ {o}
           U == loc[t].unl \cup {o}
           L == [loc[t] EXCEPT !.orph = O, !.unl = U, !.link = o, !.over = V]
           p == IF V = {} THEN "rem_repair" ELSE "rem_shrink"
<1>6. WriteLevel(t, q) /\ Set(t, L) /\ Goto(t, p)
  BY <1>5
<1>7. o \in A /\ new \in SUBSET (A \ {o})
  BY <1>3, <1>5
<1>8. Rewrites(nd, A, q) /\ V \subseteq new
  BY <1>4, <1>7, ReplaceWrites
<1>9. /\ L.e = loc[t].e /\ L.level = l /\ L.cand = loc[t].cand /\ L.newEp = loc[t].newEp
      /\ L.orph = O /\ L.unl = U /\ L.repl = loc[t].repl /\ L.rlevel = loc[t].rlevel
      /\ L.link = o /\ L.over = V
  <2> HIDE DEF O, U, V
  <2> QED BY CallFacts DEF Locals
<1>10. p \in RepairPcs /\ pc[t] \in RepairPcs /\ p # "rem_replace"
  BY <1>1 DEF RepairPcs
<1> HIDE DEF L, q, V, p
<1>11. /\ \A y \in Elements : /\ Exists(q, y) <=> Exists(At(t), y)
                              /\ Exists(At(t), y) => q[y].lower = At(t)[y].lower
       /\ \A y \in Elements \ A : SameLinks(q[y], At(t)[y])
       /\ LevelLinks(q, A) /\ \A a \in A : q[a].inc = {}
  BY <1>8 DEF Rewrites
<1>12. /\ GoesOn(t, p, L)
       /\ SearchOK(p, L, held[t], Linked, entry, entryLevel)
       /\ NewOK(p, L, held[t], nodes', Linked) /\ PendOK(p, L, nodes')
       /\ RemovalOK(p, L, nodes', Linked, entry)
  BY <1>9, <1>10, RepairOn
<1>13. ShrinkOK(p, L, Linked)
  BY <1>3, <1>7, <1>8, <1>9, <1>10 DEF ShrinkOK, InsertPcs, RepairPcs
<1>14. Holds(t) /\ held'[t] = held[t]
  BY <1>1, SameLocks
<1>15. CallLinks(p, L, held'[t], nodes', Linked, entry, entryLevel)
  BY <1>12, <1>13, <1>14 DEF CallLinks
<1> QED BY <1>1, <1>4, <1>6, <1>11, <1>12, <1>14, <1>15, WriteStep

\* A remove between the levels of a phase, or between its phases.
LEMMA RemoveOn ==
  ASSUME GraphInv, LinkInv, NEW t \in Threads, pc[t] \in RemovePcs \ {"rem_upgrade", "rem_drop", "rem_done"},
         NEW p \in {"rem_lock", "rem_relock", "rem_drop"}, NEW L,
         Goto(t, p), Set(t, L), Holds(t), L.e = loc[t].e, L.cand = loc[t].cand,
         L.newEp = loc[t].newEp, L.repl = loc[t].repl, L.rlevel = loc[t].rlevel,
         p = "rem_drop" => L.level = 0,
         \A k \in Levels : Detached(p, L, k) <=> Detached(pc[t], loc[t], k),
         UNCHANGED <<nodes, entry, entryLevel, handle>>
  PROVE  LinkInv'
<1>1. /\ SearchOK(pc[t], loc[t], held[t], Linked, entry, entryLevel)
      /\ RemovalOK(pc[t], loc[t], nodes, Linked, entry)
  BY CallLinked
<1>2. loc[t].cand = {}
  BY <1>1 DEF SearchOK, CandPcs, KnnPcs, RemovePcs
<1>3. SearchOK(p, L, held'[t], Linked, entry, entryLevel)
  BY <1>2 DEF SearchOK, KnnPcs, FromPcs
<1>4. NewOK(p, L, held'[t], nodes, Linked) /\ PendOK(p, L, nodes) /\ ShrinkOK(p, L, Linked)
  BY DEF NewOK, PendOK, ShrinkOK, InsertPcs, ShrinkPcs, RepairPcs
<1>5. RemovalOK(p, L, nodes, Linked, entry)
  <2>1. p \in RemovePcs \ {"rem_upgrade", "rem_done"}
    BY DEF RemovePcs
  <2>2. \A k \in Levels : k >= 0
    BY LockSets
  <2> QED BY <1>1, <2>1, <2>2 DEF RemovalOK
<1>6. GoesOn(t, p, L)
  <2>1. pc[t] \notin InsertPcs /\ \A k \in Levels : ~Cut(pc[t], loc[t], k)
    BY DEF InsertPcs, RemovePcs, Cut
  <2> QED BY <2>1 DEF GoesOn
<1>7. CallLinks(p, L, held'[t], nodes, Linked, entry, entryLevel)
  BY <1>3, <1>4, <1>5 DEF CallLinks
<1>8. pc[t] # "ins_linking"
  BY DEF RemovePcs
<1> QED BY <1>6, <1>7, <1>8, QuietStep

\* remove goes on with the next level when a level is repaired.
LEMMA RemoveNextLevelLinks ==
  ASSUME GraphInv, LinkInv, NEW t \in Threads, RemoveNextLevel(t)
  PROVE  LinkInv'
<1> DEFINE l == IF loc[t].level = 0 THEN loc[t].top ELSE loc[t].level - 1
           p == IF loc[t].level = 0 THEN "rem_relock" ELSE "rem_lock"
           L == [loc[t] EXCEPT !.unl = {}, !.orph = {}, !.link = Nil, !.level = l]
<1>1. /\ pc[t] = "rem_repair" /\ UNCHANGED <<nodes, entry, entryLevel, height, handle>>
  BY DEF RemoveNextLevel
<1>2. loc[t] \in Locals /\ loc[t].level \in Int /\ loc[t].level >= 0
  BY CallFacts, LevelFacts, LockSets
<1>3. Set(t, L) /\ Goto(t, p)
  <2>1. CASE loc[t].level = 0
    <3>1. Set(t, [[loc[t] EXCEPT !.unl = {}, !.orph = {}, !.link = Nil]
                    EXCEPT !.level = loc[t].top]) /\ Goto(t, p)
      BY <2>1 DEF RemoveNextLevel
    <3> QED BY <1>2, <2>1, <3>1 DEF Locals
  <2>2. CASE loc[t].level # 0
    <3>1. Set(t, [[loc[t] EXCEPT !.unl = {}, !.orph = {}, !.link = Nil]
                    EXCEPT !.level = @ - 1]) /\ Goto(t, p)
      BY <2>2 DEF RemoveNextLevel
    <3> QED BY <1>2, <2>2, <3>1 DEF Locals
  <2> QED BY <2>1, <2>2
<1>4. /\ L.e = loc[t].e /\ L.level = l /\ L.cand = loc[t].cand /\ L.newEp = loc[t].newEp
      /\ L.repl = loc[t].repl /\ L.rlevel = loc[t].rlevel
  <2> HIDE DEF l
  <2> QED BY <1>2 DEF Locals
<1>5. Holds(t)
  <2>1. CASE loc[t].level = 0
    BY <2>1, DropLevelsHolds DEF RemoveNextLevel
  <2>2. CASE loc[t].level # 0
    BY <2>2, SameLocks DEF RemoveNextLevel
  <2> QED BY <2>1, <2>2
<1> HIDE DEF L
<1>6. ASSUME NEW k \in Levels
      PROVE  Detached(p, L, k) <=> Detached(pc[t], loc[t], k)
  <2>1. k \in Int /\ k >= 0
    BY <1>6, LockSets
  <2>2. Detached(pc[t], loc[t], k) <=> loc[t].level <= k
    BY <1>1 DEF Detached, InsertPcs, CreatedPcs, RepairPcs
  <2>3. Detached(p, L, k) <=> loc[t].level = 0 \/ l < k
    BY <1>4 DEF Detached, InsertPcs, CreatedPcs, RepairPcs
  <2> QED BY <1>2, <2>1, <2>2, <2>3
<1>7. p \in {"rem_lock", "rem_relock", "rem_drop"} /\ p # "rem_drop"
      /\ pc[t] \in RemovePcs \ {"rem_upgrade", "rem_drop", "rem_done"}
  BY <1>1 DEF RemovePcs
<1> HIDE DEF p
<1> QED BY <1>1, <1>3, <1>4, <1>5, <1>6, <1>7, RemoveOn

\* remove starts phase 2 from the bottom when no level names its element.
LEMMA RemoveRelockLinks ==
  ASSUME GraphInv, LinkInv, NEW t \in Threads, RemoveRelock(t)
  PROVE  LinkInv'
<1> DEFINE l == loc[t].level
<1>1. /\ pc[t] = "rem_relock" /\ HoldAlso(t, l, "S")
      /\ IF l = 0 THEN Goto(t, "rem_drop") /\ UNCHANGED loc
         ELSE UNCHANGED pc /\ Set(t, [loc[t] EXCEPT !.level = l - 1])
      /\ UNCHANGED <<nodes, entry, entryLevel, height, handle>>
  BY DEF RemoveRelock
<1>2. Holds(t)
  BY <1>1, LevelFacts, HoldAlsoHolds, LockSets DEF Modes
<1>3. pc[t] \in RemovePcs \ {"rem_upgrade", "rem_drop", "rem_done"}
  BY <1>1 DEF RemovePcs
<1>4. \A L : \A k \in Levels : /\ Detached(pc[t], loc[t], k)
                               /\ Detached("rem_relock", L, k) /\ Detached("rem_drop", L, k)
  BY <1>1 DEF Detached
<1>5. CASE l = 0
  <2>1. Goto(t, "rem_drop") /\ Set(t, loc[t])
    BY <1>1, <1>5 DEF Set, GraphInv, TypeOK
  <2>2. \A k \in Levels : Detached("rem_drop", loc[t], k) <=> Detached(pc[t], loc[t], k)
    BY <1>4
  <2> QED BY <1>1, <1>2, <1>3, <1>5, <2>1, <2>2, RemoveOn
<1>6. CASE l # 0
  <2> DEFINE L == [loc[t] EXCEPT !.level = l - 1]
  <2>1. /\ L.e = loc[t].e /\ L.cand = loc[t].cand /\ L.newEp = loc[t].newEp
        /\ L.repl = loc[t].repl /\ L.rlevel = loc[t].rlevel
    BY CallFacts DEF Locals
  <2>2. Goto(t, "rem_relock") /\ Set(t, L)
    BY <1>1, <1>6 DEF Goto, GraphInv, TypeOK
  <2> HIDE DEF L
  <2>3. \A k \in Levels : Detached("rem_relock", L, k) <=> Detached(pc[t], loc[t], k)
    BY <1>4
  <2> QED BY <1>1, <1>2, <1>3, <2>1, <2>2, <2>3, RemoveOn
<1> QED BY <1>5, <1>6

-------------------------------------------------------------------------------
(* Freeing and marking nodes.                                              *)

\* drop_node frees the node of the element on the level of the call, and cuts
\* the chain of the one above it.
Drops(t) ==
  LET l == loc[t].level
      e == loc[t].e
  IN  \A k \in Levels :
        /\ \A x \in Elements \ {e} : nodes'[k][x] = nodes[k][x]
        /\ k = l => ~Exists(nodes'[k], e)
        /\ k # l => /\ Exists(nodes'[k], e) <=> Exists(nodes[k], e)
                    /\ SameLinks(nodes'[k][e], nodes[k][e])

\* The records after drop_node, in the form RemoveDropLinks takes.
LEMMA DropRecords ==
  ASSUME GraphInv, NEW t \in Threads, RemoveDrop(t)
  PROVE  Drops(t)
<1> DEFINE l == loc[t].level
           e == loc[t].e
<1>1. /\ pc[t] = "rem_drop"
      /\ nodes' = [k \in Levels |->
           IF k = l THEN [nodes[k] EXCEPT ![e] = FreeNode]
           ELSE IF k = l + 1 /\ l < loc[t].top
                THEN [nodes[k] EXCEPT ![e].lower = FALSE]
           ELSE nodes[k]]
  BY DEF RemoveDrop
<1>2. /\ LocalsOK("rem_drop", loc[t], height)
      /\ OwnsOK("rem_drop", loc[t], nodes, handle)
  BY <1>1, CallFacts
<1>3. l \in Levels /\ l \in Int /\ loc[t].top \in Int /\ l <= loc[t].top /\ e \in Elements
  BY <1>2, LevelFacts, LockSets DEF LocalsOK, RemovePcs
<1>4. ASSUME NEW k \in Levels
      PROVE  /\ \A x \in Elements \ {e} : nodes'[k][x] = nodes[k][x]
             /\ k = l => ~Exists(nodes'[k], e)
             /\ k # l => /\ Exists(nodes'[k], e) <=> Exists(nodes[k], e)
                         /\ SameLinks(nodes'[k][e], nodes[k][e])
  <2>1. nodes[k] \in LevelType /\ k \in Int
    BY <1>4, LevelFacts, LockSets
  <2>2. CASE k = l
    <3>1. nodes'[k] = [nodes[k] EXCEPT ![e] = FreeNode]
      BY <1>1, <2>2
    <3> QED BY <1>3, <2>1, <2>2, <3>1 DEF LevelType, Exists
  <2>3. CASE k = l + 1 /\ l < loc[t].top
    <3>1. nodes'[k] = [nodes[k] EXCEPT ![e].lower = FALSE] /\ k # l
      BY <1>1, <1>3, <2>3
    <3>2. Exists(nodes[k], e)
      BY <1>2, <1>3, <2>3 DEF OwnsOK, ChainFrom
    <3>3. nodes[k][e] \in NodeRec
      BY <1>3, <2>1, <3>2, NodeOfLevel
    <3> DEFINE rec == [nodes[k][e] EXCEPT !.lower = FALSE]
    <3>4. rec \in NodeRec /\ SameLinks(rec, nodes[k][e])
      BY <3>3 DEF NodeRec, SameLinks
    <3>5. nodes'[k] = [nodes[k] EXCEPT ![e] = rec]
      BY <3>1
    <3> HIDE DEF rec
    <3>6. rec # FreeNode
      BY <3>4, NodeAssumption
    <3>7. nodes'[k][e] = rec /\ \A x \in Elements \ {e} : nodes'[k][x] = nodes[k][x]
      BY <1>3, <2>1, <3>5 DEF LevelType
    <3> QED BY <3>1, <3>2, <3>4, <3>6, <3>7 DEF Exists
  <2>4. CASE k # l /\ ~(k = l + 1 /\ l < loc[t].top)
    <3>1. nodes'[k] = nodes[k]
      BY <1>1, <2>4
    <3> QED BY <2>4, <3>1 DEF SameLinks
  <2> QED BY <2>2, <2>3, <2>4
<1> QED BY <1>4 DEF Drops

\* No link names the node that is freed.
LEMMA RemoveDropLinks ==
  ASSUME GraphInv, LinkInv, NEW t \in Threads, RemoveDrop(t)
  PROVE  LinkInv'
<1> DEFINE l == loc[t].level
           e == loc[t].e
           p == IF l = loc[t].top THEN "rem_done" ELSE "rem_drop"
           L == IF l = loc[t].top THEN loc[t] ELSE [loc[t] EXCEPT !.level = l + 1]
<1>1. /\ pc[t] = "rem_drop"
      /\ IF l = loc[t].top THEN Goto(t, "rem_done") /\ UNCHANGED loc
         ELSE UNCHANGED pc /\ Set(t, [loc[t] EXCEPT !.level = l + 1])
      /\ UNCHANGED <<entry, entryLevel, height, held, handle>>
  BY DEF RemoveDrop
<1>2. /\ LocalsOK("rem_drop", loc[t], height) /\ loc[t] \in Locals
      /\ OwnsOK("rem_drop", loc[t], nodes, handle)
      /\ SearchOK("rem_drop", loc[t], held[t], Linked, entry, entryLevel)
      /\ RemovalOK("rem_drop", loc[t], nodes, Linked, entry)
  BY <1>1, CallFacts, CallLinked
<1>3. /\ l \in Levels /\ l \in Int /\ loc[t].top \in Int /\ l <= loc[t].top
      /\ e \in Elements /\ handle[e] = loc[t].top /\ loc[t].cand = {}
  BY <1>2, LevelFacts, LockSets DEF LocalsOK, OwnsOK, SearchOK, RemovePcs, CandPcs, KnnPcs
<1>4. pc'[t] = p /\ loc'[t] = L /\ held'[t] = held[t] /\ Others(t)
  <2>1. Goto(t, p) /\ Set(t, L)
    BY <1>1 DEF Goto, Set, GraphInv, TypeOK
  <2>2. Holds(t) /\ held'[t] = held[t]
    BY <1>1, SameLocks
  <2> HIDE DEF p, L
  <2> QED BY <2>1, <2>2 DEF Goto, Set, Holds, Others, GraphInv, TypeOK
<1>5. /\ L.e = e /\ L.cand = {} /\ L.newEp = loc[t].newEp
      /\ L.repl = loc[t].repl /\ L.rlevel = loc[t].rlevel
      /\ l # loc[t].top => L.level = l + 1
  BY <1>2, <1>3 DEF Locals
<1>6. \A k \in Levels :
        /\ \A x \in Elements \ {e} : nodes'[k][x] = nodes[k][x]
        /\ k = l => ~Exists(nodes'[k], e)
        /\ k # l => /\ Exists(nodes'[k], e) <=> Exists(nodes[k], e)
                    /\ SameLinks(nodes'[k][e], nodes[k][e])
  BY DropRecords DEF Drops
<1> HIDE DEF L
<1>7. \A k \in Levels : Detached(pc[t], loc[t], k) /\ Detached(p, L, k)
  BY <1>1 DEF Detached
<1>8. \A k \in Levels : e \notin Linked[k] /\ Linked[k] \subseteq Elements \ {e}
  BY <1>3, <1>7, LinkedOwn, LinkedIs DEF Live
<1>9. Linked' = Linked
  <2>1. ASSUME NEW x \in Elements, NEW k \in Levels
        PROVE  (/\ Exists(nodes'[k], x)
                /\ loc'[t].e = x => ~Detached(pc'[t], loc'[t], k))
               <=> (/\ Exists(nodes[k], x)
                    /\ loc[t].e = x => ~Detached(pc[t], loc[t], k))
    BY <1>4, <1>5, <1>6, <1>7 DEF Exists
  <2> QED BY <1>4, <2>1, SameLinked
<1>10. ASSUME NEW k \in Levels, Exists(nodes'[k], e)
       PROVE  /\ Exists(nodes[k], e) /\ k # l /\ k <= handle[e]
              /\ l # loc[t].top /\ k >= l + 1
  <2>1. Exists(nodes[k], e) /\ k # l
    BY <1>6, <1>10
  <2>2. k >= l
    BY <1>2, <2>1 DEF RemovalOK
  <2>3. k <= handle[e]
    <3>1. \A u \in Threads : loc[u].e = e => u = t
      BY <1>3, GraphAssumption DEF GraphInv, OneCallEach
    <3>2. \A u \in Threads : loc[u].e = e => pc[u] \notin InsertPcs
      BY <1>1, <3>1 DEF InsertPcs
    <3> HIDE DEF e
    <3> QED BY <1>3, <1>10, <2>1, <3>2, HandleIsTop
  <2>4. k \in Int
    BY <1>10, LockSets
  <2> QED BY <1>3, <2>1, <2>2, <2>3, <2>4
<1> HIDE DEF e, l
<1>11. OthersKept(t)
  <2>1. \A k \in Levels : \A x \in Elements \ {e} :
          /\ Exists(nodes'[k], x) <=> Exists(nodes[k], x)
          /\ SameLinks(nodes'[k][x], nodes[k][x])
    BY <1>6 DEF Exists, SameLinks
  <2>2. ASSUME NEW u \in Threads \ {t}, NEW k \in Levels, Linking(u, k)
        PROVE  /\ nodes'[k][loc[u].e] = nodes[k][loc[u].e]
               /\ \A b \in Linked[k] : nodes'[k][b] = nodes[k][b]
    <3>1. loc[u].e \in Elements /\ loc[u].e # e
      <4>1. loc[u].e \in Elements
        BY <2>2, CallFacts DEF Linking, LocalsOK, InsertPcs
      <4> QED BY <4>1, GraphAssumption DEF GraphInv, OneCallEach, e
    <3> QED BY <1>6, <1>8, <3>1
  <2> QED BY <1>1, <1>4, <1>9, <2>1, <2>2 DEF OthersKept, e
<1>12. ASSUME NEW k \in Levels PROVE LevelOK(nodes'[k], Linked'[k], BeingLinked'[k])
  <2>1. \A x \in Linked[k] : SameLinks(nodes'[k][x], nodes[k][x])
    BY <1>6, <1>8 DEF SameLinks
  <2>2. ASSUME NEW x \in Elements \ Linked[k], Exists(nodes'[k], x)
        PROVE  Exists(nodes[k], x) /\ SameLinks(nodes'[k][x], nodes[k][x])
    <3>1. CASE x # e
      BY <1>6, <2>2, <3>1 DEF Exists, SameLinks
    <3>2. CASE x = e
      BY <1>6, <2>2, <3>2
    <3> QED BY <3>1, <3>2
  <2>3. ~Linking(t, k)
    BY <1>1 DEF Linking
  <2> QED BY <1>4, <1>9, <2>1, <2>2, <2>3, LevelKept
<1>13. ElementsOK'
  <2> SUFFICES ASSUME NEW x \in Elements, NEW k \in Levels, Exists(nodes'[k], x)
               PROVE  /\ \/ k <= handle[x]
                         \/ \E u \in Threads : loc'[u].e = x /\ pc'[u] \in InsertPcs
                      /\ k > 0 /\ ~nodes'[k][x].lower =>
                           \E u \in Threads : loc'[u].e = x /\ Cut(pc'[u], loc'[u], k)
    BY <1>1 DEF ElementsOK
  <2>1. CASE x # e
    <3>1. nodes'[k][x] = nodes[k][x] /\ Exists(nodes[k], x)
      BY <1>6, <2>1 DEF Exists
    <3>2. \A u \in Threads : loc[u].e = x => loc'[u] = loc[u] /\ pc'[u] = pc[u]
      BY <1>4, <2>1 DEF Others, e
    <3>3. /\ k <= handle[x] \/ \E u \in Threads : loc[u].e = x /\ pc[u] \in InsertPcs
          /\ k > 0 /\ ~nodes[k][x].lower =>
               \E u \in Threads : loc[u].e = x /\ Cut(pc[u], loc[u], k)
      BY <3>1 DEF LinkInv, ElementsOK
    <3> QED BY <3>1, <3>2, <3>3
  <2>2. CASE x = e
    <3>1. k <= handle[x] /\ l # loc[t].top
      BY <1>10, <2>2
    <3>2. loc'[t].e = x /\ Cut(pc'[t], loc'[t], k)
      BY <1>4, <1>5, <2>2, <3>1 DEF Cut
    <3> QED BY <3>1, <3>2
  <2> QED BY <2>1, <2>2
<1>14. EntryAtTop'
  BY <1>1 DEF LinkInv, EntryAtTop
<1>15. p \in RemovePcs \ {"rem_upgrade"} /\ p \notin InsertPcs \cup KnnPcs \cup FromPcs
       /\ p \notin ShrinkPcs \cup RepairPcs
  BY DEF RemovePcs, InsertPcs, KnnPcs, FromPcs, ShrinkPcs, RepairPcs
<1>16. SearchOK(p, L, held[t], Linked, entry, entryLevel)
  BY <1>5, <1>15 DEF SearchOK, InsertPcs
<1>17. NewOK(p, L, held[t], nodes', Linked) /\ PendOK(p, L, nodes') /\ ShrinkOK(p, L, Linked)
  BY <1>15 DEF NewOK, PendOK, ShrinkOK, InsertPcs, ShrinkPcs
<1>18. RemovalOK(p, L, nodes', Linked, entry)
  <2>1. /\ e = entry => loc[t].newEp
        /\ loc[t].newEp /\ loc[t].repl # Nil =>
             loc[t].repl \in Linked[loc[t].rlevel] /\ loc[t].repl # e
    BY <1>2 DEF RemovalOK, RemovePcs, e
  <2>2. p = "rem_drop" => \A k \in Levels : Exists(nodes'[k], e) => k >= L.level
    BY <1>5, <1>10
  <2>3. p = "rem_done" => \A k \in Levels : ~Exists(nodes'[k], e)
    BY <1>10
  <2> QED BY <1>5, <1>15, <2>1, <2>2, <2>3 DEF RemovalOK
<1>19. CallLinks(pc'[t], loc'[t], held'[t], nodes', Linked', entry', entryLevel')
  BY <1>1, <1>4, <1>9, <1>16, <1>17, <1>18 DEF CallLinks
<1> QED BY <1>11, <1>12, <1>13, <1>14, <1>19, LinksTogether

\* A call that marks has no locals of interest.
LEMMA NothingLinks ==
  ASSUME NEW p \in {"idle", "mark_lock"}, NEW L, L.cand = {}, NEW H, NEW nds
  PROVE  CallLinks(p, L, H, nds, Linked, entry, entryLevel)
<1>1. SearchOK(p, L, H, Linked, entry, entryLevel)
  BY DEF SearchOK, KnnPcs, FromPcs
<1>2. NewOK(p, L, H, nds, Linked) /\ PendOK(p, L, nds) /\ ShrinkOK(p, L, Linked)
  BY DEF NewOK, PendOK, ShrinkOK, InsertPcs, ShrinkPcs, RepairPcs
<1>3. RemovalOK(p, L, nds, Linked, entry)
  BY DEF RemovalOK, RemovePcs
<1> QED BY <1>1, <1>2, <1>3 DEF CallLinks

\* It detaches nothing.
LEMMA MarkGoesOn ==
  ASSUME GraphInv, NEW t \in Threads, pc[t] \in {"idle", "mark_lock"},
         NEW p \in {"idle", "mark_lock"}, NEW L
  PROVE  GoesOn(t, p, L)
<1>1. \A k \in Levels : ~Detached(p, L, k) /\ ~Detached(pc[t], loc[t], k)
  BY DEF Detached, InsertPcs, CreatedPcs, RepairPcs
<1>2. pc[t] \notin InsertPcs /\ \A k \in Levels : ~Cut(pc[t], loc[t], k)
  BY DEF InsertPcs, Cut
<1> QED BY <1>1, <1>2 DEF GoesOn

\* mark_delete starts at the top of the element's chain.
LEMMA MarkCallLinks ==
  ASSUME GraphInv, LinkInv, NEW t \in Threads, NEW e \in Elements, NEW mark \in BOOLEAN,
         MarkCall(t, e, mark)
  PROVE  LinkInv'
<1> DEFINE L == [NoLocals EXCEPT !.e = e, !.level = handle[e], !.mark = mark]
<1>1. /\ pc[t] = "idle" /\ Set(t, L) /\ Goto(t, "mark_lock") /\ HoldAlso(t, GraphLock, "S")
      /\ UNCHANGED <<nodes, entry, entryLevel, height, handle>>
  BY DEF MarkCall
<1>2. L.cand = {}
  BY DEF NoLocals
<1>3. Holds(t)
  BY <1>1, HoldAlsoHolds, LockSets DEF Modes
<1> HIDE DEF L
<1>4. GoesOn(t, "mark_lock", L)
  BY <1>1, MarkGoesOn
<1>5. CallLinks("mark_lock", L, held'[t], nodes, Linked, entry, entryLevel)
  BY <1>2, NothingLinks
<1>6. pc[t] # "ins_linking"
  BY <1>1
<1> QED BY <1>1, <1>3, <1>4, <1>5, <1>6, QuietStep

\* LevelLinks is about links alone.
LEMMA SameLevelLinks ==
  ASSUME NEW nd, NEW A, LevelLinks(nd, A), NEW q, \A a \in A : SameLinks(q[a], nd[a])
  PROVE  LevelLinks(q, A)
<1>1. \A a \in A : /\ Recorded(q[a]) = Recorded(nd[a]) /\ Primary(q[a]) = Primary(nd[a])
                   /\ q[a].out = nd[a].out /\ q[a].ovf = nd[a].ovf
  BY DEF SameLinks, Recorded, Primary
<1> SUFFICES ASSUME NEW a \in A
             PROVE  /\ Recorded(q[a]) \subseteq A \ {a}
                    /\ Primary(q[a]) \cap q[a].ovf = {}
                    /\ \A b \in q[a].out : a \in Recorded(q[b])
                    /\ \A b \in q[a].ovf : a \in Primary(q[b])
  BY DEF LevelLinks
<1>2. /\ Recorded(nd[a]) \subseteq A \ {a} /\ Primary(nd[a]) \cap nd[a].ovf = {}
      /\ \A b \in nd[a].out : a \in Recorded(nd[b])
      /\ \A b \in nd[a].ovf : a \in Primary(nd[b])
  BY DEF LevelLinks
<1>3. nd[a].out \subseteq A /\ nd[a].ovf \subseteq A
  BY <1>2 DEF Recorded
<1> QED BY <1>1, <1>2, <1>3

\* A mark changes no link.
LEMMA MarkLevelLinks ==
  ASSUME GraphInv, LinkInv, NEW t \in Threads, MarkLevel(t)
  PROVE  LinkInv'
<1> DEFINE l  == loc[t].level
           e  == loc[t].e
           A  == Linked[l]
           nd == At(t)
           q  == [nd EXCEPT ![e].marked = loc[t].mark]
<1>1. /\ pc[t] = "mark_lock" /\ WriteLevel(t, q)
      /\ IF l = 0 THEN Return(t)
         ELSE /\ UNCHANGED pc
              /\ Set(t, [loc[t] EXCEPT !.level = l - 1])
              /\ HoldOnly(t, l, "S")
      /\ UNCHANGED <<entry, entryLevel, height, handle>>
  BY DEF MarkLevel
<1>2. /\ LocalsOK("mark_lock", loc[t], height) /\ loc[t] \in Locals
      /\ OwnsOK("mark_lock", loc[t], nodes, handle)
      /\ SearchOK("mark_lock", loc[t], held[t], Linked, entry, entryLevel)
  BY <1>1, CallFacts, CallLinked
<1>3. /\ e \in Elements /\ l \in Levels /\ l \in Int /\ l >= 0
      /\ nd \in LevelType /\ nd = nodes[l] /\ loc[t].cand = {}
  BY <1>2, LevelFacts, LockSets DEF LocalsOK, SearchOK, At, CandPcs, KnnPcs
<1>4. Exists(nd, e)
  <2>1. handle[e] \in Levels \cup {NoLevel} /\ l <= handle[e] /\ ChainFrom(nodes, e, 0, handle[e])
    BY <1>2, <1>3 DEF GraphInv, TypeOK, OwnsOK
  <2>2. handle[e] \in Int
    BY <2>1, LockSets DEF NoLevel
  <2>3. l \in 0 .. handle[e]
    BY <1>3, <2>1, <2>2
  <2> QED BY <1>3, <2>1, <2>3 DEF ChainFrom
<1>5. /\ \A y \in Elements : /\ Exists(q, y) <=> Exists(nd, y)
                             /\ Exists(nd, y) => q[y].lower = nd[y].lower
      /\ \A y \in Elements : SameLinks(q[y], nd[y])
  <2>1. nd[e] \in NodeRec
    BY <1>3, <1>4, NodeOfLevel
  <2> DEFINE rec == [nd[e] EXCEPT !.marked = loc[t].mark]
  <2>2. rec \in NodeRec /\ SameLinks(rec, nd[e]) /\ rec.lower = nd[e].lower
    BY <1>2, <2>1 DEF NodeRec, SameLinks, Locals
  <2>3. q = [nd EXCEPT ![e] = rec]
    OBVIOUS
  <2> HIDE DEF rec, q
  <2>4. rec # FreeNode
    BY <2>2, NodeAssumption
  <2>5. q[e] = rec /\ \A y \in Elements \ {e} : q[y] = nd[y]
    BY <1>3, <2>3 DEF LevelType
  <2> QED BY <1>4, <2>2, <2>4, <2>5 DEF Exists, SameLinks
<1> HIDE DEF q
<1>6. LevelLinks(nd, A) /\ A \subseteq Elements
      /\ \A a \in A : nd[a].inc # {} => a \in BeingLinked[l]
  BY <1>3, LevelLinked, LinkedIs DEF Live
<1>7. LevelLinks(q, A)
  BY <1>5, <1>6, SameLevelLinks
<1>8. \A a \in A : q[a].inc # {} => a \in BeingLinked[l]
  BY <1>5, <1>6 DEF SameLinks
<1>9. ASSUME NEW u \in Threads \ {t}, Linking(u, l) PROVE KeepsLinking(u, nd, q, A)
  <2>1. loc[u].e \in Elements
    BY <1>9, CallFacts DEF Linking, LocalsOK, InsertPcs
  <2> QED BY <1>5, <1>6, <2>1 DEF KeepsLinking, SameLinks, Recorded
<1>10. ~Linking(t, l)
  BY <1>1 DEF Linking
<1>11. CASE l = 0
  <2>1. Goto(t, "idle") /\ Set(t, NoLocals) /\ Holds(t)
    BY <1>1, <1>11, ReturnMoves DEF Return, Moves, Holds
  <2>2. GoesOn(t, "idle", NoLocals)
    BY <1>1, MarkGoesOn
  <2>3. NoLocals.cand = {}
    BY DEF NoLocals
  <2>4. CallLinks("idle", NoLocals, held'[t], nodes', Linked, entry, entryLevel)
    BY <2>3, NothingLinks
  <2> QED BY <1>1, <1>5, <1>7, <1>8, <1>9, <1>10, <2>1, <2>2, <2>4, WriteStep
<1>12. CASE l # 0
  <2> DEFINE L == [loc[t] EXCEPT !.level = l - 1]
  <2>1. Goto(t, "mark_lock") /\ Set(t, L)
    BY <1>1, <1>12 DEF Goto, GraphInv, TypeOK
  <2>2. Holds(t)
    BY <1>1, <1>3, <1>12, HoldOnlyHolds DEF Modes
  <2>3. L.cand = {}
    BY <1>2, <1>3 DEF Locals
  <2> HIDE DEF L
  <2>4. GoesOn(t, "mark_lock", L)
    BY <1>1, MarkGoesOn
  <2>5. CallLinks("mark_lock", L, held'[t], nodes', Linked, entry, entryLevel)
    BY <2>3, NothingLinks
  <2> QED BY <1>1, <1>5, <1>7, <1>8, <1>9, <1>10, <2>1, <2>2, <2>4, <2>5, WriteStep
<1> QED BY <1>11, <1>12

-------------------------------------------------------------------------------
(* Every step, and the theorems.                                           *)

\* An empty index has no links.
LEMMA InitLinks == Init => LinkInv
<1> SUFFICES ASSUME Init PROVE LinkInv
  OBVIOUS
<1>1. /\ \A l \in Levels, x \in Elements : ~Exists(nodes[l], x)
      /\ \A t \in Threads : pc[t] = "idle" /\ loc[t] = NoLocals
      /\ entry = Nil
  BY DEF Init, Exists
<1>2. \A l \in Levels : Linked[l] = {}
  BY <1>1 DEF Linked
<1>3. LevelsOK
  BY <1>1, <1>2 DEF LevelsOK, LevelOK, LevelLinks
<1>4. NoLocals.cand = {}
  BY DEF NoLocals
<1>5. \A t \in Threads :
        CallLinks(pc[t], loc[t], held[t], nodes, Linked, entry, entryLevel)
  BY <1>1, <1>4, NothingLinks
<1> QED BY <1>1, <1>3, <1>5 DEF LinkInv, ElementsOK, EntryAtTop

\* LinkInv depends on the variables alone.
LEMMA SameStateLinks ==
  ASSUME LinkInv, UNCHANGED vars
  PROVE  LinkInv'
<1>1. UNCHANGED <<nodes, entry, entryLevel, held, pc, loc, handle>>
  BY DEF vars
<1>2. Linked' = Linked /\ BeingLinked' = BeingLinked
  BY <1>1 DEF Linked, BeingLinked, Linking
<1>3. LevelsOK' /\ ElementsOK' /\ EntryAtTop'
  BY <1>1, <1>2 DEF LinkInv, LevelsOK, ElementsOK, EntryAtTop
<1> QED BY <1>1, <1>2, <1>3 DEF LinkInv

\* Every step of every call keeps LinkInv.
LEMMA NextLinks ==
  ASSUME GraphInv, LinkInv, ~strayed', [Next]_vars, ~Faults
  PROVE  LinkInv'
<1>1. CASE UNCHANGED vars
  BY <1>1, SameStateLinks
<1>2. CASE Next
  <2>1. PICK t \in Threads :
    \/ \E e \in Elements, top \in InsertLevels : InsertCall(t, e, top)
    \/ InsertStep(t)
    \/ \E e \in Elements : RemoveCall(t, e)
    \/ RemoveStep(t)
    \/ KnnCall(t)
    \/ KnnStep(t)
    \/ \E e \in Elements, mark \in BOOLEAN : MarkCall(t, e, mark)
    \/ MarkLevel(t)
    \/ ReadFails(t)
    \/ Fail(t)
    BY <1>2 DEF Next
  <2>2. CASE \E e \in Elements, top \in InsertLevels : InsertCall(t, e, top)
    BY <2>2, InsertCallLinks, InsertLevelsType
  <2>3. CASE InsertStep(t)
    BY <2>3, InsertUpgradeLinks, FirstLockLinks, NarrowLinks, DescendLinks,
       InsertCreateLinks, InsertKeepLinks, InsertLinkLinks, InsertLinkBackLinks,
       InsertConfirmLinks, ReselectLinks, ReplacedLinks, InsertReturnLinks
    DEF InsertStep
  <2>4. CASE \E e \in Elements : RemoveCall(t, e)
    BY <2>4, RemoveCallLinks
  <2>5. CASE RemoveStep(t)
    BY <2>5, RemoveUpgradeLinks, RemoveUnlinkLinks, RemoveSeedLinks, RemoveRepairLinks,
       ReselectLinks, ReplacedLinks, RemoveNextLevelLinks, RemoveRelockLinks,
       RemoveDropLinks, RemoveReturnLinks
    DEF RemoveStep
  <2>6. CASE KnnCall(t) \/ KnnStep(t)
    BY <2>6, KnnCallLinks, FirstLockLinks, NarrowLinks, DescendLinks, KnnReturnLinks
    DEF KnnStep
  <2>7. CASE \E e \in Elements, mark \in BOOLEAN : MarkCall(t, e, mark)
    BY <2>7, MarkCallLinks
  <2>8. CASE MarkLevel(t)
    BY <2>8, MarkLevelLinks
  <2>9. CASE ReadFails(t) \/ Fail(t)
    BY <2>9, NoReadFails DEF ReadFails, Fail
  <2> QED BY <2>1, <2>2, <2>3, <2>4, <2>5, <2>6, <2>7, <2>8, <2>9
<1> QED BY <1>1, <1>2

\* The history variable: a remove that returns may set it, nothing resets it.
LEMMA StrayedStep ==
  ASSUME [Next]_vars
  PROVE  \/ strayed' = strayed
         \/ \E t \in Threads : /\ pc[t] = "rem_done"
                               /\ strayed' = (strayed \/ Strays(t))
<1>1. CASE UNCHANGED vars
  BY <1>1 DEF vars
<1>2. CASE Next
  <2>1. PICK t \in Threads :
    \/ \E e \in Elements, top \in InsertLevels : InsertCall(t, e, top)
    \/ InsertStep(t)
    \/ \E e \in Elements : RemoveCall(t, e)
    \/ RemoveStep(t)
    \/ KnnCall(t)
    \/ KnnStep(t)
    \/ \E e \in Elements, mark \in BOOLEAN : MarkCall(t, e, mark)
    \/ MarkLevel(t)
    \/ ReadFails(t)
    \/ Fail(t)
    BY <1>2 DEF Next
  <2>2. CASE \/ \E e \in Elements, top \in InsertLevels : InsertCall(t, e, top)
             \/ \E e \in Elements : RemoveCall(t, e)
             \/ KnnCall(t)
             \/ \E e \in Elements, mark \in BOOLEAN : MarkCall(t, e, mark)
    BY <2>2 DEF InsertCall, RemoveCall, KnnCall, MarkCall
  <2>3. CASE InsertStep(t)
    BY <2>3 DEF InsertStep, InsertUpgrade, InsertLock, InsertSearch, InsertDescend,
       InsertCreate, InsertKeep, InsertLink, InsertLinkBack, InsertConfirm,
       InsertShrink, InsertReplace, InsertReturn
  <2>4. CASE RemoveStep(t)
    BY <2>4 DEF RemoveStep, RemoveUpgrade, RemoveUnlink, RemoveSeed, RemoveRepair,
       RemoveShrink, RemoveReplace, RemoveNextLevel, RemoveRelock, RemoveDrop,
       RemoveReturn
  <2>5. CASE KnnStep(t) \/ MarkLevel(t)
    BY <2>5 DEF KnnStep, KnnLock, KnnSearch, KnnDescend, KnnReturn, MarkLevel
  <2>6. CASE ReadFails(t) \/ Fail(t)
    BY <2>6 DEF ReadFails, Fail, FailCall
  <2> QED BY <2>1, <2>2, <2>3, <2>4, <2>5, <2>6
<1> QED BY <1>1, <1>2

LEMMA NextLinksHold ==
  ASSUME GraphInv, LinksHold, [Next]_vars, ~Faults
  PROVE  LinksHold'
<1> SUFFICES ASSUME ~strayed' PROVE LinkInv'
  BY DEF LinksHold
<1>1. ~strayed
  BY StrayedStep
<1> QED BY <1>1, NextLinks DEF LinksHold

\* LinkInv implies the four properties of the links.
LEMMA LinksAreRecorded ==
  ASSUME GraphInv, LinkInv
  PROVE  LinksRecorded
<1> SUFFICES ASSUME NEW l \in Levels, NEW a \in Elements, NEW b \in Elements,
                    Exists(nodes[l], a), b \in nodes[l][a].out
             PROVE  Exists(nodes[l], b) /\ a \in Recorded(nodes[l][b])
  BY DEF LinksRecorded
<1>1. a \in Linked[l]
  BY LevelLinked
<1>2. b \in Linked[l] /\ a \in Recorded(nodes[l][b])
  BY <1>1, LevelLinked DEF LevelLinks, Recorded
<1> QED BY <1>2, LinkedIs

LEMMA LinkedAtMostOnce ==
  ASSUME GraphInv, LinkInv
  PROVE  LinkedOnce
<1> SUFFICES ASSUME NEW t \in Threads, pc[t] = "ins_linking", NEW n \in loc[t].pend
             PROVE  Exists(At(t), n) /\ loc[t].e \notin Recorded(At(t)[n])
  BY DEF LinkedOnce
<1>1. loc[t].level \in Levels /\ loc[t].e \in Linked[loc[t].level]
  BY NewElement DEF CreatedPcs
<1>2. n \in At(t)[loc[t].e].inc /\ loc[t].e \notin Recorded(At(t)[n])
  BY CallLinked DEF PendOK, At
<1>3. n \in Linked[loc[t].level]
  BY <1>1, <1>2, LevelLinked DEF LevelLinks, Recorded, At
<1> QED BY <1>1, <1>2, <1>3, LinkedIs DEF At

LEMMA ReachableChains ==
  ASSUME GraphInv, LinkInv
  PROVE  ReachableHaveChain
<1>1. ASSUME NEW l \in Levels, NEW a \in Elements, Exists(nodes[l], a),
             NEW b \in nodes[l][a].out
      PROVE  HasChain(b, l)
  <2>1. a \in Linked[l]
    BY <1>1, LevelLinked
  <2>2. b \in Linked[l]
    BY <1>1, <2>1, LevelLinked DEF LevelLinks, Recorded
  <2> QED BY <1>1, <2>2, LinkedHasChain
<1>2. ASSUME entry # Nil, \A t \in Threads : held[t][GraphLock] # "X"
      PROVE  HasChain(entry, entryLevel)
  <2>1. entryLevel \in Levels
    BY DEF GraphInv, TypeOK
  <2> QED BY <1>2, <2>1, EntryLinked, LinkedHasChain
<1> QED BY <1>1, <1>2 DEF ReachableHaveChain

LEMMA TraversalsLive ==
  ASSUME GraphInv, LinkInv
  PROVE  TraversalsReadLiveNodes
<1> SUFFICES ASSUME NEW t \in Threads, pc[t] # "ins_upgrade",
                    NEW x \in Reachable(nodes[CandLevel(t)], loc[t].cand, {})
             PROVE  Exists(nodes[CandLevel(t)], x)
  BY DEF TraversalsReadLiveNodes
<1> DEFINE m == IF pc[t] \in {"ins_descend", "ins_keep", "knn_descend"}
                THEN loc[t].level - 1 ELSE loc[t].level
           c == CandLevel(t)
<1>1. /\ loc[t].level \in Levels /\ loc[t].level \in Int /\ loc[t].level >= 0
      /\ loc[t].elevel \in Levels /\ loc[t].elevel \in Int /\ loc[t].elevel >= 0
  BY LevelFacts, LockSets
<1>2. m \in Int /\ m >= 0 /\ m <= loc[t].level
  <2>1. pc[t] \in {"ins_keep", "knn_descend"} => loc[t].level > 0
    BY CallFacts DEF LocalsOK
  <2>2. pc[t] = "ins_descend" => loc[t].level > loc[t].top
    BY CallFacts DEF LocalsOK
  <2>3. loc[t].top \in Int /\ loc[t].top >= 0
    BY LevelFacts, LockSets
  <2> QED BY <1>1, <2>1, <2>2, <2>3
<1>3. c = IF loc[t].elevel <= m THEN loc[t].elevel ELSE m
  <2>1. c = Min({loc[t].elevel, m})
    BY DEF CandLevel
  <2> HIDE DEF m, c
  <2> QED BY <1>1, <1>2, <2>1, MinOfTwo
<1>4. CandAt(loc[t]) = IF loc[t].level <= loc[t].elevel THEN loc[t].level ELSE loc[t].elevel
  BY DEF CandAt
<1> HIDE DEF m, c
<1>5. c \in 0 .. CandAt(loc[t]) /\ CandAt(loc[t]) \in Levels /\ c \in Levels
  <2>1. c \in Int /\ c >= 0 /\ c <= loc[t].level /\ c <= loc[t].elevel
    BY <1>1, <1>2, <1>3
  <2>2. CandAt(loc[t]) \in Levels /\ c \in 0 .. CandAt(loc[t])
    BY <1>1, <1>4, <2>1
  <2> QED BY <2>2, LockSets
<1>6. loc[t].cand \subseteq Linked[CandAt(loc[t])]
  BY CallLinked DEF SearchOK
<1>7. loc[t].cand \subseteq Linked[c]
  BY <1>5, <1>6, LinkedBelow
<1>8. LevelLinks(nodes[c], Linked[c])
  BY <1>5, LevelLinked
<1>9. Reachable(nodes[c], loc[t].cand, {}) \subseteq Linked[c]
  BY <1>7, <1>8, ReachLinked
<1> QED BY <1>5, <1>9, LinkedIs DEF c, Live

\* On one level every replacement is entered at the top.
LEMMA OneLevelAtTop ==
  ASSUME GraphInv, LinkInv, MaxLevel = 0, NEW t \in Threads, pc[t] = "rem_done"
  PROVE  ~Strays(t)
<1> SUFFICES ASSUME loc[t].newEp, loc[t].repl # Nil
             PROVE  handle[loc[t].repl] = loc[t].rlevel
  BY DEF Strays
<1> DEFINE x == loc[t].repl
<1>1. Levels = {0} /\ loc[t].rlevel = 0
  <2>1. Levels = {0}
    BY DEF Levels
  <2> QED BY <2>1, LevelFacts
<1>2. x \in Linked[0]
  BY <1>1, CallLinked DEF RemovalOK, RemovePcs
<1>3. x \in Elements /\ Exists(nodes[0], x)
      /\ \A u \in Threads : loc[u].e = x => ~Detached(pc[u], loc[u], 0)
  BY <1>1, <1>2, LinkedIs
<1>4. held[t][GraphLock] = "X"
  BY CallFacts DEF EntryOK
<1>5. ASSUME NEW u \in Threads, loc[u].e = x PROVE pc[u] \notin InsertPcs
  <2> SUFFICES ASSUME pc[u] \in InsertPcs PROVE FALSE
    OBVIOUS
  <2>1. u # t
    BY DEF InsertPcs
  <2>2. held[u][GraphLock] = "none"
    BY <1>4, <2>1, LockSets DEF GraphInv, LocksExclude
  <2>3. pc[u] \in NoLockPcs
    BY <2>2, CallFacts DEF HeldOK
  <2>4. Detached(pc[u], loc[u], 0)
    BY <2>3 DEF Detached, NoLockPcs, InsertPcs, CreatedPcs
  <2> QED BY <1>3, <1>5, <2>4
<1>6. 0 <= handle[x]
  <2> HIDE DEF x
  <2> QED BY <1>1, <1>3, <1>5, HandleIsTop
<1>7. handle[x] \in {0, NoLevel}
  BY <1>1, <1>3 DEF GraphInv, TypeOK
<1> QED BY <1>1, <1>6, <1>7 DEF NoLevel

\* The inductive invariant on the links of the graph: what a level's nodes link to
\* is linked on that level and records the link, and what each insert, remove,
\* search and mark has in its locals is linked where it will use it.  A call that
\* fails leaves links half made, so calls do not fail here (~Faults); and an entry
\* point that a remove has entered below its element's highest level is not seen to
\* be the entry point by the remove of that element (RemoveUpgrade compares
\* levels), so it could be freed and still be named: the invariant is about the
\* graph as long as no remove has done that.
THEOREM LinkInvHolds ==
  ASSUME ~Faults
  PROVE  Spec => []LinksHold
<1>1. Init => LinksHold
  BY InitLinks DEF LinksHold
<1>2. GraphInv /\ LinksHold /\ [Next]_vars => LinksHold'
  BY NextLinksHold
<1> QED BY <1>1, <1>2, GraphInvHolds, PTL DEF Spec

\* The target of every link records the link, in its list or in its overflow
\* chain, whatever inserts and removals of other elements rewrite the links of the
\* level meanwhile: unlink_neighbours, which looks at the target's records only,
\* so finds every node that names the target.  As long as no remove has entered
\* the graph at a lower node of an element.
THEOREM TargetsRecordLinks ==
  ASSUME ~Faults
  PROVE  Spec => [](~strayed => LinksRecorded)
<1>1. GraphInv /\ LinksHold => (~strayed => LinksRecorded)
  BY LinksAreRecorded DEF LinksHold
<1> QED BY <1>1, LinkInvHolds, GraphInvHolds, PTL

\* A neighbour that has yet to link back is still there and has no record of the
\* new node, although an insert links its neighbours one by one and other inserts
\* write to them in between: link_neighbours may take a free slot, or add to the
\* overflow chain, without looking whether the node is there already.  LinkedOnce
\* has the condition on the entry point in it.
THEOREM NeighboursLinkOnce ==
  ASSUME ~Faults
  PROVE  Spec => []LinkedOnce
<1>1. GraphInv /\ LinksHold => LinkedOnce
  <2>1. strayed => LinkedOnce
    BY DEF LinkedOnce
  <2> QED BY <2>1, LinkedAtMostOnce DEF LinksHold
<1> QED BY <1>1, LinkInvHolds, GraphInvHolds, PTL

\* Any node reachable at level N has already been fully inserted at all lower
\* levels, as graph_ops_impl.h says: what a link names, and what the entry point
\* names when nobody has the graph lock exclusively, has a node on every level
\* below and each names the next one down, also while removals take chains apart.
\* ReachableHaveChain has the condition on the entry point in it.
THEOREM ReachableComplete ==
  ASSUME ~Faults
  PROVE  Spec => []ReachableHaveChain
<1>1. GraphInv /\ LinksHold => ReachableHaveChain
  <2>1. strayed => ReachableHaveChain
    BY DEF ReachableHaveChain
  <2> QED BY <2>1, ReachableChains DEF LinksHold
<1> QED BY <1>1, LinkInvHolds, GraphInvHolds, PTL

\* At no point of its descent can insert or search_knn come to a freed node,
\* neither as a candidate it brought from the level above nor along the links of
\* the level, whatever elements are removed in the meantime: a remove unlinks its
\* element on every level before it frees the first node, and waits for the calls
\* that have seen the element, as they hold the level's lock.
\* TraversalsReadLiveNodes has the condition on the entry point in it.
THEOREM TraversalsMeetLiveNodes ==
  ASSUME ~Faults
  PROVE  Spec => []TraversalsReadLiveNodes
<1>1. GraphInv /\ LinksHold => TraversalsReadLiveNodes
  <2>1. strayed => TraversalsReadLiveNodes
    BY DEF TraversalsReadLiveNodes
  <2> QED BY <2>1, TraversalsLive DEF LinksHold
<1> QED BY <1>1, LinkInvHolds, GraphInvHolds, PTL

\* No call reads a freed node or goes down from a node without a lower level, as
\* long as no remove has entered the graph at a lower node of an element: where
\* the code checks the result of a read in search, in the repair of an orphan and
\* in the shrinking of a list, the error path is never taken for that reason.
\* ReadFails, the action for it, is never enabled then.
THEOREM ReadsSucceed ==
  ASSUME ~Faults
  PROVE  Spec => [](~strayed => \A t \in Threads : ~ReadsFreed(t))
<1>1. GraphInv /\ LinksHold => (~strayed => \A t \in Threads : ~ReadsFreed(t))
  BY NoReadFails DEF LinksHold
<1> QED BY <1>1, LinkInvHolds, GraphInvHolds, PTL

\* With level 0 alone, every replacement of the entry point is entered at its
\* element's highest level: no remove strays, so the four properties hold of every
\* behaviour of the code in which calls do not fail, with no condition.
THEOREM OneLevelSafe ==
  ASSUME ~Faults, MaxLevel = 0
  PROVE  Spec => [](/\ ~strayed /\ LinksRecorded /\ LinkedOnce
                    /\ ReachableHaveChain /\ TraversalsReadLiveNodes)
<1>1. Init => ~strayed /\ LinkInv
  BY InitLinks DEF Init
<1>2. GraphInv /\ ~strayed /\ LinkInv /\ [Next]_vars => ~strayed' /\ LinkInv'
  <2> SUFFICES ASSUME GraphInv, ~strayed, LinkInv, [Next]_vars
               PROVE  ~strayed' /\ LinkInv'
    OBVIOUS
  <2>1. ~strayed'
    BY StrayedStep, OneLevelAtTop
  <2> QED BY <2>1, NextLinks
<1>3. GraphInv /\ LinkInv => /\ LinksRecorded /\ LinkedOnce
                             /\ ReachableHaveChain /\ TraversalsReadLiveNodes
  BY LinksAreRecorded, LinkedAtMostOnce, ReachableChains, TraversalsLive
<1> QED BY <1>1, <1>2, <1>3, GraphInvHolds, PTL DEF Spec
===============================================================================
