---------------------------- MODULE LayerOperations ----------------------------
(***************************************************************************)
(* One search of LayerOperations (index/hnsw/layer_ops_impl.h) on a level  *)
(* whose links do not change meanwhile, and what its callers do with the   *)
(* result: insert and remove select neighbours with consume_heuristic,     *)
(* shrink_neighbours does so without a search, from the links of the query *)
(* node, and search_knn takes the k nearest with consume_simple and hands  *)
(* them to a Cursor.                                                       *)
(*                                                                         *)
(* The elements are points on a line.  Equal distances come off a heap in  *)
(* any order.  Found and Selections of IndexGraph, which GraphOperations   *)
(* uses in place of a search and of a selection, are checked here.         *)
(***************************************************************************)
EXTENDS IndexGraph, Sequences

CONSTANTS
  Layouts,   \* positions of the elements; the query vector is at 0
  Queries,   \* query nodes; Nil stands for a vector that has no node
  Entries,   \* sets of entry points
  Widths     \* values of ef

ASSUME LayerAssumption ==
  /\ Layouts # {} /\ Layouts \subseteq [Elements -> Int]
  /\ Queries \subseteq Elements \cup {Nil}
  /\ Entries \subseteq SUBSET Elements
  /\ Widths \subseteq Nat \ {0}

VARIABLES
  nd,          \* the node records of the level
  at,          \* the positions of the elements
  call,        \* the caller, the query node, the entry points and ef
  visited,     \* m_visited
  candidates,  \* m_candidates, the search frontier and then the queue W
  results,     \* m_results
  todo,        \* m_expand_buf of expand, as far as it is not done yet
  phase,       \* the place in the protocol
  selected,    \* R of consume_heuristic
  nearest,     \* the result of search_knn
  pos          \* the cursor's position in it

vars == <<nd, at, call, visited, candidates, results, todo, phase, selected,
          nearest, pos>>

graph == <<nd, at, call>>

EOF_POS == 0

Callers == {"build", "shrink", "knn"}

CallType ==
  [by : Callers, query : Queries, seeds : SUBSET Elements, ef : Widths]

\* Type correctness.
TypeOK ==
  /\ nd \in [Elements -> NodeRec]
  /\ at \in Layouts
  /\ call \in CallType
  /\ visited \subseteq Elements
  /\ candidates \subseteq Elements
  /\ results \subseteq Elements
  /\ todo \subseteq Elements
  /\ phase \in {"search", "consume", "select", "selected", "scan", "end"}
  /\ selected \subseteq Elements
  /\ nearest \in Seq(Elements)
  /\ pos \in 0 .. Len(nearest)

Gap(a, b) == IF a < b THEN b - a ELSE a - b

\* IndexGraph::distance: from the query vector, or from the query node.
Distance(e) == Gap(at[e], IF call.query = Nil THEN 0 ELSE at[call.query])

\* The nearest and the furthest elements of S, on top of a MinQueue and of a
\* MaxQueue.
Top(S) == {e \in S : \A f \in S : Distance(e) <= Distance(f)}

Bottom(S) == {e \in S : \A f \in S : Distance(e) >= Distance(f)}

\* "candidate < m_results.top()" and the reverse.
NearerThanResults(e) == \A f \in Bottom(results) : Distance(e) < Distance(f)

BeyondResults(e) == results # {} /\ \A f \in results : Distance(f) < Distance(e)

\* AlwaysVisiblePolicy, and GraphVisiblePolicy for the search of search_knn:
\* IndexGraph::visible is a stub that shows every node, a delete-marked one too.
Visible(e) == TRUE

QueryNode == {call.query} \ {Nil}

\* The neighbours a selection may have: M, or Mmax of level 0 for the list of
\* a node that shrinks.
Limit == IF call.by = "shrink" THEN MaxNeighbours(0) ELSE M

\* What a caller passes.  shrink_neighbours adds the node that did not fit to
\* the links of the query node.
Calls(out) ==
  {c \in CallType :
     CASE c.by = "build"  -> c.seeds \in Entries
       [] c.by = "knn"    -> /\ c.seeds \in Entries /\ Cardinality(c.seeds) = 1
                             /\ c.query = Nil
       [] c.by = "shrink" -> /\ c.query # Nil /\ c.ef = Min(Widths)
                             /\ \E e \in Elements \ (out[c.query] \cup {c.query}) :
                                  c.seeds = out[c.query] \cup {e}}

\* seed_impl, on a level with any links, at most M from each node: the query
\* node is visited, the entry points are candidates, the visible ones results.
\* A search goes on from there, seed does not.  No step reads a mark.
Init ==
  /\ at \in Layouts
  /\ \E out \in [Elements -> {S \in SUBSET Elements : Cardinality(S) <= M}] :
       /\ \A e \in Elements : e \notin out[e]
       /\ call \in Calls(out)
       /\ nd = [e \in Elements |->
                  [out |-> out[e], inc |-> {}, ovf |-> {}, lower |-> FALSE,
                   marked |-> FALSE]]
  /\ visited = call.seeds \cup QueryNode
  /\ candidates = call.seeds \ QueryNode
  /\ results = {e \in call.seeds \ QueryNode : Visible(e)}
  /\ todo = {}
  /\ phase = IF call.by = "shrink" THEN "consume" ELSE "search"
  /\ selected = {}
  /\ nearest = <<>>
  /\ pos = EOF_POS

-------------------------------------------------------------------------------
(* search.                                                                 *)

\* The nearest candidate is further than every result: the search is over.
StopSearch ==
  /\ phase = "search" /\ todo = {}
  /\ \E c \in Top(candidates) :
       /\ BeyondResults(c)
       /\ candidates' = candidates \ {c}
  /\ phase' = "consume"
  /\ UNCHANGED <<graph, visited, results, todo, selected, nearest, pos>>

\* Mutant: neighbours are not marked visited.
ExpandUnvisited ==
  /\ phase = "search" /\ todo = {}
  /\ \E c \in Top(candidates) :
       /\ ~BeyondResults(c)
       /\ candidates' = candidates \ {c}
       /\ todo' = nd[c].out \ visited
  /\ UNCHANGED <<graph, visited, results, phase, selected, nearest, pos>>

\* Mutant: the candidate stays on the heap.
ExpandKeeping ==
  /\ phase = "search" /\ todo = {}
  /\ \E c \in Top(candidates) :
       /\ ~BeyondResults(c)
       /\ todo' = nd[c].out \ visited
       /\ visited' = visited \cup nd[c].out
  /\ UNCHANGED <<graph, candidates, results, phase, selected, nearest, pos>>

\* expand: the neighbours of the nearest candidate not seen before.
Expand ==
  /\ phase = "search" /\ todo = {}
  /\ \E c \in Top(candidates) :
       /\ ~BeyondResults(c)
       /\ candidates' = candidates \ {c}
       /\ todo' = nd[c].out \ visited
       /\ visited' = visited \cup nd[c].out
  /\ UNCHANGED <<graph, results, phase, selected, nearest, pos>>

\* Mutant: a full result set takes no nearer node.
ConsiderUntilFull ==
  /\ \E e \in todo :
       /\ todo' = todo \ {e}
       /\ IF Cardinality(results) < call.ef
          THEN /\ candidates' = candidates \cup {e}
               /\ results' = IF Visible(e) THEN results \cup {e} ELSE results
          ELSE UNCHANGED <<candidates, results>>
  /\ UNCHANGED <<graph, visited, phase, selected, nearest, pos>>

\* One new neighbour: a candidate when there is room or it is nearer than the
\* furthest result, and a result when it is visible too; the furthest result
\* gives way when there are more than ef.
Consider ==
  /\ \E e \in todo :
       /\ todo' = todo \ {e}
       /\ IF Cardinality(results) < call.ef \/ NearerThanResults(e)
          THEN /\ candidates' = candidates \cup {e}
               /\ IF ~Visible(e) THEN UNCHANGED results
                  ELSE IF Cardinality(results) < call.ef
                       THEN results' = results \cup {e}
                  ELSE \E f \in Bottom(results \cup {e}) :
                         results' = (results \cup {e}) \ {f}
          ELSE UNCHANGED <<candidates, results>>
  /\ UNCHANGED <<graph, visited, phase, selected, nearest, pos>>

\* No candidate is left.
Exhaust ==
  /\ phase = "search" /\ todo = {} /\ candidates = {}
  /\ phase' = "consume"
  /\ UNCHANGED <<graph, visited, candidates, results, todo, selected, nearest,
                 pos>>

-------------------------------------------------------------------------------
(* consume_heuristic, without extended candidates and pruned connections,  *)
(* as every caller has it.                                                 *)

BeginSelect ==
  /\ phase = "consume" /\ call.by # "knn"
  /\ candidates' = results
  /\ phase' = "select"
  /\ UNCHANGED <<graph, visited, results, todo, selected, nearest, pos>>

\* Mutant: compared with the distance of the selected node.
IsDominatedByNearer(e) == \E r \in selected : Gap(at[e], at[r]) < Distance(r)

\* is_dominated: a selected node is nearer to e than the query is.
IsDominated(e) == \E r \in selected : Gap(at[e], at[r]) < Distance(e)

\* Nearest first: a candidate is selected unless it is dominated.
Select ==
  /\ phase = "select" /\ Cardinality(selected) < Limit
  /\ \E e \in Top(candidates) :
       /\ candidates' = candidates \ {e}
       /\ selected' = IF IsDominated(e) THEN selected ELSE selected \cup {e}
  /\ UNCHANGED <<graph, visited, results, todo, phase, nearest, pos>>

EndSelect ==
  /\ phase = "select"
  /\ candidates = {} \/ Cardinality(selected) >= Limit
  /\ phase' = "selected"
  /\ UNCHANGED <<graph, visited, candidates, results, todo, selected, nearest,
                 pos>>

-------------------------------------------------------------------------------
(* consume_simple, and the cursor.                                         *)

\* Mutant: the results in the order the heap gives them.
DescendingResults ==
  {s \in [1 .. Cardinality(results) -> results] :
     \A i, j \in DOMAIN s :
       i < j => s[i] # s[j] /\ Distance(s[i]) >= Distance(s[j])}

\* consume_result: the heap emptied from the back.
AscendingResults ==
  {s \in [1 .. Cardinality(results) -> results] :
     \A i, j \in DOMAIN s :
       i < j => s[i] # s[j] /\ Distance(s[i]) <= Distance(s[j])}

\* begin: the k nearest (k is at most ef), and a cursor on the first.
Begin ==
  /\ phase = "consume" /\ call.by = "knn"
  /\ \E s \in AscendingResults, k \in 1 .. call.ef :
       nearest' = SubSeq(s, 1, Min({k, Len(s)}))
  /\ pos' = IF nearest' = <<>> THEN EOF_POS ELSE 1
  /\ phase' = "scan"
  /\ UNCHANGED <<graph, visited, candidates, results, todo, selected>>

\* Mutant: the end is noticed one position late.
AdvanceLate ==
  /\ phase = "scan"
  /\ pos # EOF_POS
  /\ pos' = IF pos <= Len(nearest) THEN pos + 1 ELSE EOF_POS
  /\ UNCHANGED <<graph, visited, candidates, results, todo, phase, selected,
                 nearest>>

\* position: a cursor past either end stays there.
Advance ==
  /\ phase = "scan"
  /\ pos # EOF_POS
  /\ \/ pos' = IF pos < Len(nearest) THEN pos + 1 ELSE EOF_POS
     \/ pos' = IF pos > 1 THEN pos - 1 ELSE EOF_POS
  /\ UNCHANGED <<graph, visited, candidates, results, todo, phase, selected,
                 nearest>>

\* end.
End ==
  /\ phase = "scan"
  /\ nearest' = <<>> /\ pos' = EOF_POS
  /\ phase' = "end"
  /\ UNCHANGED <<graph, visited, candidates, results, todo, selected>>

Step ==
  \/ StopSearch \/ Expand \/ Consider \/ Exhaust
  \/ BeginSelect \/ Select \/ EndSelect \/ Begin

Next == Step \/ Advance \/ End

Spec == Init /\ [][Next]_vars

\* The thread of the call runs on.
FairSpec == Spec /\ WF_vars(Step)

-------------------------------------------------------------------------------
(* Properties.                                                             *)

\* Every search, of search_knn too, finds what IndexGraph says: nodes it can
\* reach, and fewer than ef only when it has found them all.  Stopping at a
\* candidate beyond all results, and keeping far nodes out of the frontier,
\* never cuts it short.
SearchFinds ==
  call.by # "shrink" /\ phase # "search" =>
    results \in Found(nd, call.seeds, QueryNode, call.ef)

\* No link leads from a result to a better one: a neighbour of a result is a
\* result itself, or ef others are at least as near.
LocallyNearest ==
  call.by # "shrink" /\ phase # "search" =>
    \A r \in results : \A e \in nd[r].out \ (results \cup QueryNode) :
      /\ Cardinality(results) >= call.ef
      /\ \A f \in results : Distance(f) <= Distance(e)

\* The selection is diverse and covers its candidates: the assertion of
\* remove that some neighbour is always selected, every pair of neighbours
\* at least as far apart as either is from the query, and every node left
\* out is dominated by a selected one or further than all of a full list.
SelectionCovers ==
  phase = "selected" =>
    /\ selected \in Selections(results, Limit)
    /\ \A a, b \in selected :
         a # b => Gap(at[a], at[b]) >= Distance(a)
    /\ \A e \in results \ selected :
         \/ \E r \in selected : /\ Distance(r) <= Distance(e)
                                /\ Gap(at[r], at[e]) < Distance(e)
         \/ /\ Cardinality(selected) = Limit
            /\ \A r \in selected : Distance(r) <= Distance(e)

\* The cursor walks rows one after the other, nearest first, and none it has
\* not come to is nearer than the one it is at: no result, and no neighbour of a
\* row it has been at, whether search_knn cut it off at k, the search dropped
\* it for a nearer one, or the search never kept it.
ScanInOrder ==
  phase = "scan" /\ pos # EOF_POS =>
    LET seen == {nearest[i] : i \in 1 .. pos}
    IN  /\ Cardinality(seen) = pos
        /\ \A e \in (results \cup UNION {nd[r].out : r \in seen}) \ seen :
             Distance(nearest[pos]) <= Distance(e)

\* Every search ends and its result is consumed.
Terminates == <>(phase \in {"selected", "scan", "end"})
===============================================================================
