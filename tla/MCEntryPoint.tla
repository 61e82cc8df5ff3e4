----------------------------- MODULE MCEntryPoint -----------------------------
(***************************************************************************)
(* Behaviours of GraphOperations with real distances: the elements are six *)
(* points of the plane, a cluster of three around each of two centres, and *)
(* every selection is the one the heuristic of LayerOperations makes.  All *)
(* six are on level 1.  Every step here is a step of GraphOperations.      *)
(***************************************************************************)
EXTENDS GraphOperations

\* The points, in the order they are inserted.
X == <<0, 100, 101, 102, -1, -2>>
Y == <<0, 0, 9, -13, 10, -12>>

Dist(a, b) ==
  (X[a] - X[b]) * (X[a] - X[b]) + (Y[a] - Y[b]) * (Y[a] - Y[b])

\* consume_heuristic and is_dominated: nearest first, a candidate is taken
\* unless a selected one is nearer to it than q is, until n are selected.
IsHeuristic(q, W, T, n) ==
  /\ T \subseteq W
  /\ \A e \in W :
       LET closer == {r \in T : Dist(q, r) < Dist(q, e)}
       IN  e \in T <=> /\ Cardinality(closer) < n
                       /\ \A r \in closer : Dist(e, r) >= Dist(e, q)

\* The selections the step of t makes.
Selects(t) ==
  LET l == loc[t].level
      e == loc[t].e
  IN  /\ pc[t] = "ins_create" /\ l <= loc[t].elevel =>
           IsHeuristic(e, loc'[t].cand, nodes'[l][e].inc, M)
      /\ pc[t] \in {"ins_shrink", "rem_shrink"} =>
           LET v == loc'[t].shrink
           IN  IsHeuristic(v, (At(t)[v].out \cup {loc[t].link}) \ {v},
                           loc'[t].shrunk, MaxNeighbours(l))
      /\ pc[t] = "rem_repair" /\ loc[t].unl # {} =>
           \A o \in loc[t].orph \ loc'[t].orph :
             IsHeuristic(o, Reachable(At(t), loc[t].unl, {o}),
                         nodes'[l][o].out, M)

Present(S) == \A e \in S : handle[e] # NoLevel

InsertInOrder(t) ==
  \E e \in Elements :
    /\ Present({f \in Elements : f < e})
    /\ \A f \in Elements : f > e => handle[f] = NoLevel
    /\ InsertCall(t, e, MaxLevel)

NextInPlane ==
  \E t \in Threads :
    \/ InsertInOrder(t)
    \/ InsertStep(t) /\ Selects(t)
    \/ \E e \in Elements : RemoveCall(t, e)
    \/ RemoveStep(t) /\ Selects(t)

SpecInPlane == Init /\ [][NextInPlane]_vars

\* "its replacement is the first survivor found at the topmost level that still
\* has one": whenever no call is replacing it, the entry point of remove and
\* insert is on the highest level that any element of the index reaches.
EntryPointOnTop ==
  \A e \in Elements :
    handle[e] # NoLevel /\ (\A t \in Threads : held[t][GraphLock] # "X") =>
      entry # Nil /\ handle[e] <= entryLevel

\* "Once this completes target_node is unreachable from any concurrent traversal
\* -- nothing else in the graph points to it any more": whenever no call is
\* under way, the entry point, where every traversal starts, is a node that no
\* remove has freed.
EntryPointNotFreed ==
  (\A t \in Threads : pc[t] = "idle") /\ entry # Nil =>
    Exists(nodes[entryLevel], entry)
===============================================================================
