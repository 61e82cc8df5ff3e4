---------------------------- MODULE GraphOperations ----------------------------
(***************************************************************************)
(* insert, remove, mark_delete and search_knn of GraphOperations           *)
(* (index/hnsw/graph_ops_impl.h) run by concurrent threads under the graph *)
(* lock, the level locks and the level operation locks of IndexGraph.      *)
(*                                                                         *)
(* Lock k of a thread is its lock on level k, and lock GraphLock the one   *)
(* on the graph: the lock hierarchy is the descending order.  A thread     *)
(* that changes locks hand over hand is between two steps while it waits.  *)
(* Distances are left out: a search may return any nodes it can reach, and *)
(* a heuristic may select any of its candidates.                           *)
(***************************************************************************)
EXTENDS IndexGraph

CONSTANTS
  Threads,
  EfSearch,
  Marking,    \* TRUE when callers mark and unmark
  Faults      \* TRUE when reading or writing a record may fail

ASSUME OperationAssumption ==
  /\ IsFiniteSet(Threads)
  /\ EfSearch \in Nat \ {0}
  /\ Marking \in BOOLEAN
  /\ Faults \in BOOLEAN

VARIABLES
  nodes,       \* the node records of each level
  entry,       \* the element of the entry point
  entryLevel,  \* the level of the entry point
  height,      \* the highest level ensure_levels has created
  held,        \* the locks of each thread
  pc,          \* where each thread is
  loc,         \* the locals of the call each thread is in
  handle,      \* the level of the node insert returned for each element
  \* History, which no action reads.
  strayed      \* some remove made a node the entry point that has one above it

vars == <<nodes, entry, entryLevel, height, held, pc, loc, handle, strayed>>

GraphLock == MaxLevel + 1

Locks == 0 .. GraphLock

NoLevel == -1

\* GraphOperations::GREEDY_DESCENT_EF
GREEDY_DESCENT_EF == 1

\* e, top: the element and its highest level, or the level a search ends at.
\* elevel, newEp: entry_level and new_entry_point.  cand: candidates.
\* link: the node whose links are being made; pend: its neighbours not yet
\* linked back; over: overflowed; shrink, shrunk: the neighbour whose list is
\* reselected and the selection.  unl, orph: unlinked and orphaned.  repl,
\* rlevel: replacement and replacement_level.
Locals ==
  [e : Elements \cup {Nil}, top : Levels, level : Levels, elevel : Levels,
   newEp : BOOLEAN, mark : BOOLEAN, cand : SUBSET Elements,
   link : Elements \cup {Nil}, pend : SUBSET Elements, over : SUBSET Elements,
   shrink : Elements \cup {Nil}, shrunk : SUBSET Elements,
   unl : SUBSET Elements, orph : SUBSET Elements,
   repl : Elements \cup {Nil}, rlevel : Levels]

NoLocals ==
  [e |-> Nil, top |-> 0, level |-> 0, elevel |-> 0, newEp |-> FALSE,
   mark |-> FALSE, cand |-> {}, link |-> Nil, pend |-> {}, over |-> {},
   shrink |-> Nil, shrunk |-> {}, unl |-> {}, orph |-> {}, repl |-> Nil,
   rlevel |-> 0]

InsertPcs == {"ins_upgrade", "ins_lock", "ins_search", "ins_descend",
              "ins_create", "ins_keep", "ins_link", "ins_linking",
              "ins_shrink", "ins_replace", "ins_done"}

RemovePcs == {"rem_upgrade", "rem_lock", "rem_repair", "rem_shrink",
              "rem_replace", "rem_relock", "rem_drop", "rem_done"}

KnnPcs == {"knn_lock", "knn_search", "knn_descend"}

Pcs == InsertPcs \cup RemovePcs \cup KnnPcs \cup {"idle", "mark_lock"}

\* Type correctness.
TypeOK ==
  /\ nodes \in [Levels -> [Elements -> NodeRec \cup {FreeNode}]]
  /\ entry \in Elements \cup {Nil}
  /\ entryLevel \in Levels
  /\ height \in Levels
  /\ held \in [Threads -> [Locks -> {"none", "S", "X"}]]
  /\ pc \in [Threads -> Pcs]
  /\ loc \in [Threads -> Locals]
  /\ handle \in [Elements -> Levels \cup {NoLevel}]
  /\ strayed \in BOOLEAN

NoLocks == [k \in Locks |-> "none"]

Init ==
  /\ nodes = [l \in Levels |-> [e \in Elements |-> FreeNode]]
  /\ entry = Nil
  /\ entryLevel = 0
  /\ height = 0
  /\ held = [t \in Threads |-> NoLocks]
  /\ pc = [t \in Threads |-> "idle"]
  /\ loc = [t \in Threads |-> NoLocals]
  /\ handle = [e \in Elements |-> NoLevel]
  /\ strayed = FALSE

-------------------------------------------------------------------------------
(* Locks.                                                                  *)

CanShare(t, k) == \A u \in Threads \ {t} : held[u][k] # "X"

CanLock(t, k) == \A u \in Threads \ {t} : held[u][k] = "none"

\* LockLevels::descend with the policies Release and Keep, and the first
\* lock of a LockLevels: the thread ends up with lock k.
HoldOnly(t, k, mode) ==
  held' = [held EXCEPT ![t] = [j \in Locks |->
             IF j = k THEN mode
             ELSE IF j = GraphLock THEN held[t][j]
             ELSE "none"]]

HoldAlso(t, k, mode) == held' = [held EXCEPT ![t] = [@ EXCEPT ![k] = mode]]

DropLevels(t) ==
  held' = [held EXCEPT ![t] = [NoLocks EXCEPT ![GraphLock] = held[t][GraphLock]]]

DropAll(t) == held' = [held EXCEPT ![t] = NoLocks]

\* A thread in link_neighbours holds the level operation lock, shared.
Linking(u, l) == pc[u] = "ins_linking" /\ loc[u].level = l

Goto(t, label) == pc' = [pc EXCEPT ![t] = label]

Set(t, new) == loc' = [loc EXCEPT ![t] = new]

\* Mutant: the graph lock is not released.
ReturnKeepingGraph(t) ==
  /\ Goto(t, "idle")
  /\ Set(t, NoLocals)
  /\ DropLevels(t)

Return(t) ==
  /\ Goto(t, "idle")
  /\ Set(t, NoLocals)
  /\ DropAll(t)

\* IndexStore::set_entry_point; no element stands for the invalid node.
SetEntryPoint(e, l) == entry' = e /\ entryLevel' = l

\* The nodes of the level a thread is at.
At(t) == nodes[loc[t].level]

WriteLevel(t, nd) == nodes' = [nodes EXCEPT ![loc[t].level] = nd]

\* No other call works on e: callers lock the row.
Unused(e) == \A t \in Threads : loc[t].e # e

-------------------------------------------------------------------------------
(* insert.                                                                 *)

\* Mutant: the level drawn is not limited.
UnlimitedLevels == 0 .. MaxLevel + 1

\* get_insert_level: a random level, at most max_level.
InsertLevels == {Min({drawn, MaxLevel}) : drawn \in 0 .. MaxLevel + 1}

\* Mutant: the exclusive lock is waited for with the shared one held.
InsertCallUpgrading(t, e, top) ==
  LET elevel == IF entry = Nil THEN 0 ELSE entryLevel
      up     == entry = Nil \/ top > elevel
  IN  /\ pc[t] = "idle"
      /\ Unused(e) /\ \A l \in Levels : ~Exists(nodes[l], e)
      /\ CanShare(t, GraphLock)
      /\ Set(t, [NoLocals EXCEPT !.e = e, !.top = top, !.elevel = elevel,
                                 !.level = Max({elevel, top}),
                                 !.cand = {entry} \ {Nil}])
      /\ Goto(t, IF up THEN "ins_upgrade" ELSE "ins_lock")
      /\ HoldAlso(t, GraphLock, "S")
      /\ UNCHANGED <<nodes, entry, entryLevel, height, handle, strayed>>

\* The graph lock, the entry point and the level of the new element.  The
\* shared lock is dropped again when the entry point may have to change.
InsertCall(t, e, top) ==
  LET elevel == IF entry = Nil THEN 0 ELSE entryLevel
      up     == entry = Nil \/ top > elevel
  IN  /\ pc[t] = "idle"
      /\ Unused(e) /\ \A l \in Levels : ~Exists(nodes[l], e)
      /\ CanShare(t, GraphLock)
      /\ Set(t, [NoLocals EXCEPT !.e = e, !.top = top, !.elevel = elevel,
                                 !.level = Max({elevel, top}),
                                 !.cand = {entry} \ {Nil}])
      /\ Goto(t, IF up THEN "ins_upgrade" ELSE "ins_lock")
      /\ IF up THEN UNCHANGED held ELSE HoldAlso(t, GraphLock, "S")
      /\ UNCHANGED <<nodes, entry, entryLevel, height, handle, strayed>>

\* Mutant: the topmost level is not created.
EnsureLevelsBelow(level) == height' = Max({height, level - 1})

\* ensure_levels: levels are created and never dropped.
EnsureLevels(level) == height' = Max({height, level})

\* Mutant: the entry point is not read again.
InsertUpgradeStale(t) ==
  /\ pc[t] = "ins_upgrade"
  /\ CanLock(t, GraphLock)
  /\ Set(t, [loc[t] EXCEPT !.newEp = TRUE])
  /\ EnsureLevels(loc[t].level)
  /\ Goto(t, "ins_lock")
  /\ HoldAlso(t, GraphLock, "X")
  /\ UNCHANGED <<nodes, entry, entryLevel, handle, strayed>>

\* The exclusive graph lock; the entry point is read again (its level only
\* if there is one), and the missing levels are created.
InsertUpgrade(t) ==
  LET elevel == IF entry = Nil THEN loc[t].elevel ELSE entryLevel
      level  == Max({elevel, loc[t].top})
  IN  /\ pc[t] = "ins_upgrade"
      /\ CanLock(t, GraphLock)
      /\ Set(t, [loc[t] EXCEPT !.elevel = elevel, !.level = level,
                               !.cand = {entry} \ {Nil},
                               !.newEp = entry = Nil \/ loc[t].top > elevel])
      /\ EnsureLevels(level)
      /\ Goto(t, "ins_lock")
      /\ HoldAlso(t, GraphLock, "X")
      /\ UNCHANGED <<nodes, entry, entryLevel, handle, strayed>>

\* The first level lock.
InsertLock(t) ==
  /\ pc[t] = "ins_lock"
  /\ CanShare(t, loc[t].level)
  /\ HoldOnly(t, loc[t].level, "S")
  /\ Goto(t, IF loc[t].level > loc[t].top THEN "ins_search" ELSE "ins_create")
  /\ UNCHANGED <<nodes, entry, entryLevel, height, loc, handle, strayed>>

\* The results of a search at the level t is at; reading a freed node or
\* going down from a node without a lower level is an error (ReadFails).
SearchResults(t, seeds, avoid, ef) ==
  IF \A x \in Reachable(At(t), seeds, avoid) : Exists(At(t), x)
  THEN Found(At(t), seeds, avoid, ef)
  ELSE {}

AllHaveLower(t, W) == \A x \in W : At(t)[x].lower

\* Greedy search of a level and advance_to_next_level.
Narrow(t) ==
  \E W \in SearchResults(t, loc[t].cand, {}, GREEDY_DESCENT_EF) :
    /\ AllHaveLower(t, W)
    /\ Set(t, [loc[t] EXCEPT !.cand = W])

InsertSearch(t) ==
  /\ pc[t] = "ins_search"
  /\ Narrow(t)
  /\ Goto(t, "ins_descend")
  /\ UNCHANGED <<nodes, entry, entryLevel, height, held, handle, strayed>>

\* levels.descend() with the policy Release.
InsertDescend(t) ==
  LET l == loc[t].level - 1
  IN  /\ pc[t] = "ins_descend"
      /\ CanShare(t, l)
      /\ HoldOnly(t, l, "S")
      /\ Set(t, [loc[t] EXCEPT !.level = l])
      /\ Goto(t, IF l > loc[t].top THEN "ins_search" ELSE "ins_create")
      /\ UNCHANGED <<nodes, entry, entryLevel, height, handle, strayed>>

\* Mutant: the neighbours link to the new node as soon as it exists.
InsertCreateLinked(t) ==
  LET l   == loc[t].level
      e   == loc[t].e
      new == l > loc[t].elevel
  IN  /\ pc[t] = "ins_create"
      /\ \E W \in IF new THEN {{}}
                ELSE SearchResults(t, loc[t].cand, {}, EfConstruction) :
         \E neighbours \in Selections(W, M) :
           /\ nodes' = [k \in Levels |->
                IF k = l
                THEN [x \in Elements |->
                        IF x = e THEN NewNode(neighbours)
                        ELSE IF x \in neighbours
                             THEN LinkBack(nodes[k][x], k, e)
                        ELSE nodes[k][x]]
                ELSE IF k = l + 1 /\ l < loc[t].top
                     THEN [nodes[k] EXCEPT ![e].lower = TRUE]
                ELSE nodes[k]]
           /\ Set(t, [loc[t] EXCEPT !.cand = IF new THEN @ ELSE W])
      /\ Goto(t, IF l = 0 THEN "ins_link" ELSE "ins_keep")
      /\ UNCHANGED <<entry, entryLevel, height, held, handle, strayed>>

\* Mutant: the parent's LowerLevel is not set.
InsertCreateDetached(t) ==
  LET l   == loc[t].level
      e   == loc[t].e
      new == l > loc[t].elevel
  IN  /\ pc[t] = "ins_create"
      /\ \E W \in IF new THEN {{}}
                ELSE SearchResults(t, loc[t].cand, {}, EfConstruction) :
         \E neighbours \in Selections(W, M) :
           /\ l > 0 => AllHaveLower(t, W)
           /\ nodes' = [nodes EXCEPT ![l] = [@ EXCEPT ![e] = NewNode(neighbours)]]
           /\ Set(t, [loc[t] EXCEPT !.cand = IF new THEN @ ELSE W])
      /\ Goto(t, IF l = 0 THEN "ins_link" ELSE "ins_keep")
      /\ UNCHANGED <<entry, entryLevel, height, held, handle, strayed>>

\* Search a level, select neighbours and create the node, linked from its
\* parent; the candidates are the entry points of the next level.
InsertCreate(t) ==
  LET l   == loc[t].level
      e   == loc[t].e
      new == l > loc[t].elevel
  IN  /\ pc[t] = "ins_create"
      /\ \E W \in IF new THEN {{}}
                ELSE SearchResults(t, loc[t].cand, {}, EfConstruction) :
         \E neighbours \in Selections(W, M) :
           /\ l > 0 => AllHaveLower(t, W)
           /\ nodes' = [k \in Levels |->
                IF k = l THEN [nodes[k] EXCEPT ![e] = NewNode(neighbours)]
                ELSE IF k = l + 1 /\ l < loc[t].top
                     THEN [nodes[k] EXCEPT ![e].lower = TRUE]
                ELSE nodes[k]]
           /\ Set(t, [loc[t] EXCEPT !.cand = IF new THEN @ ELSE W])
      /\ Goto(t, IF l = 0 THEN "ins_link" ELSE "ins_keep")
      /\ UNCHANGED <<entry, entryLevel, height, held, handle, strayed>>

\* levels.descend() with the policy Keep.
InsertKeep(t) ==
  LET l == loc[t].level - 1
  IN  /\ pc[t] = "ins_keep"
      /\ CanShare(t, l)
      /\ HoldAlso(t, l, "S")
      /\ Set(t, [loc[t] EXCEPT !.level = l])
      /\ Goto(t, "ins_create")
      /\ UNCHANGED <<nodes, entry, entryLevel, height, handle, strayed>>

\* link_neighbours, from level 0 upwards: the level operation lock and the
\* list of the new node.
InsertLink(t) ==
  /\ pc[t] = "ins_link"
  /\ Set(t, [loc[t] EXCEPT !.link = loc[t].e, !.cand = {},
                           !.pend = At(t)[loc[t].e].inc])
  /\ Goto(t, "ins_linking")
  /\ UNCHANGED <<nodes, entry, entryLevel, height, held, handle, strayed>>

\* One neighbour links back, or records the link in its chain.
InsertLinkBack(t) ==
  LET nd == At(t)
  IN  /\ pc[t] = "ins_linking"
      /\ \E n \in loc[t].pend :
           /\ WriteLevel(t, IF Exists(nd, n)
                            THEN [nd EXCEPT ![n] =
                                    LinkBack(@, loc[t].level, loc[t].e)]
                            ELSE nd)
           /\ Set(t, [loc[t] EXCEPT !.pend = @ \ {n},
                        !.over = IF Exists(nd, n) /\ ~HasRoom(nd[n], loc[t].level)
                                 THEN @ \cup {n} ELSE @])
      /\ UNCHANGED <<entry, entryLevel, height, held, pc, handle, strayed>>

\* The links of this level are made: go on one level up, or finish.
AfterLinks(t, new) ==
  IF new.level = new.top
  THEN Goto(t, "ins_done") /\ Set(t, new)
  ELSE Goto(t, "ins_link") /\ Set(t, [new EXCEPT !.level = @ + 1])

\* The new node's links become outgoing ones; the lock is dropped.
InsertConfirm(t) ==
  /\ pc[t] = "ins_linking"
  /\ loc[t].pend = {}
  /\ WriteLevel(t, [At(t) EXCEPT ![loc[t].e] = ConfirmLinks(@)])
  /\ IF loc[t].over # {}
     THEN Goto(t, "ins_shrink") /\ UNCHANGED loc
     ELSE AfterLinks(t, loc[t])
  /\ UNCHANGED <<entry, entryLevel, height, held, handle, strayed>>

\* shrink_neighbours: read a neighbour's links and select from them.
Reselect(t) ==
  \E v \in loc[t].over :
    /\ Exists(At(t), v)
    /\ \E new \in Selections((At(t)[v].out \cup {loc[t].link}) \ {v},
                             MaxNeighbours(loc[t].level)) :
         Set(t, [loc[t] EXCEPT !.shrink = v, !.shrunk = new])

\* replace_neighbours under the exclusive level operation lock.
ReplaceSelected(t) ==
  /\ \A u \in Threads \ {t} : ~Linking(u, loc[t].level)
  /\ Exists(At(t), loc[t].shrink)
  /\ WriteLevel(t, ReplaceNeighbours(At(t), loc[t].level, loc[t].shrink,
                                     loc[t].shrunk))

AfterReplace(t) ==
  [loc[t] EXCEPT !.over = @ \ {loc[t].shrink}, !.shrink = Nil, !.shrunk = {}]

InsertShrink(t) ==
  /\ pc[t] = "ins_shrink"
  /\ Reselect(t)
  /\ Goto(t, "ins_replace")
  /\ UNCHANGED <<nodes, entry, entryLevel, height, held, handle, strayed>>

InsertReplace(t) ==
  LET new == AfterReplace(t)
  IN  /\ pc[t] = "ins_replace"
      /\ ReplaceSelected(t)
      /\ IF new.over # {} THEN Goto(t, "ins_shrink") /\ Set(t, new)
                          ELSE AfterLinks(t, new)
      /\ UNCHANGED <<entry, entryLevel, height, held, handle, strayed>>

\* The entry point is set and every lock dropped.
InsertReturn(t) ==
  /\ pc[t] = "ins_done"
  /\ IF loc[t].newEp THEN SetEntryPoint(loc[t].e, loc[t].top)
                     ELSE UNCHANGED <<entry, entryLevel>>
  /\ handle' = [handle EXCEPT ![loc[t].e] = loc[t].top]
  /\ Return(t)
  /\ UNCHANGED <<nodes, height, strayed>>

-------------------------------------------------------------------------------
(* remove.                                                                 *)

SoleEntryPoint(e) == entry = e /\ entryLevel = handle[e]

\* The graph lock, and whether the target is the entry point.
RemoveCall(t, e) ==
  /\ pc[t] = "idle"
  /\ Unused(e) /\ handle[e] # NoLevel
  /\ CanShare(t, GraphLock)
  /\ Set(t, [NoLocals EXCEPT !.e = e, !.top = handle[e], !.level = handle[e]])
  /\ Goto(t, IF SoleEntryPoint(e) THEN "rem_upgrade" ELSE "rem_lock")
  /\ IF SoleEntryPoint(e) THEN UNCHANGED held ELSE HoldAlso(t, GraphLock, "S")
  /\ UNCHANGED <<nodes, entry, entryLevel, height, handle, strayed>>

RemoveUpgrade(t) ==
  /\ pc[t] = "rem_upgrade"
  /\ CanLock(t, GraphLock)
  /\ Set(t, [loc[t] EXCEPT !.newEp = SoleEntryPoint(loc[t].e)])
  /\ Goto(t, "rem_lock")
  /\ HoldAlso(t, GraphLock, "X")
  /\ UNCHANGED <<nodes, entry, entryLevel, height, handle, strayed>>

\* Phase 1 on one level: the exclusive level lock, the one above dropped, and
\* unlink_neighbours.  The replacement is the front of unlinked.
RemoveUnlink(t) ==
  LET l  == loc[t].level
      e  == loc[t].e
      nd == UnlinkNeighbours(At(t), e)
  IN  /\ pc[t] = "rem_lock"
      /\ CanLock(t, l)
      /\ HoldOnly(t, l, "X")
      /\ WriteLevel(t, nd)
      /\ \E U \in Unlinked(At(t), l, e) : \E front \in Front(At(t), e, U) :
           Set(t, [loc[t] EXCEPT !.unl = U, !.orph = IncomingNeighbours(nd[e]),
                     !.repl   = IF @ = Nil THEN front ELSE @,
                     !.rlevel = IF loc[t].repl = Nil THEN l ELSE @])
      /\ Goto(t, "rem_repair")
      /\ UNCHANGED <<entry, entryLevel, height, handle, strayed>>

\* Nothing to search from: the orphan is what the others attach to.
RemoveSeed(t) ==
  /\ pc[t] = "rem_repair"
  /\ loc[t].unl = {}
  /\ \E o \in loc[t].orph :
       Set(t, [loc[t] EXCEPT !.orph = @ \ {o}, !.unl = {o},
                             !.repl   = IF @ = Nil THEN o ELSE @,
                             !.rlevel = IF loc[t].repl = Nil THEN loc[t].level
                                                             ELSE @])
  /\ UNCHANGED <<nodes, entry, entryLevel, height, held, pc, handle, strayed>>

\* Search from unlinked and give the orphan the neighbours found.
RemoveRepair(t) ==
  LET nd == At(t)
      l  == loc[t].level
  IN  /\ pc[t] = "rem_repair"
      /\ loc[t].unl # {}
      /\ \E o \in loc[t].orph :
         \E W \in SearchResults(t, loc[t].unl, {o}, EfConstruction) :
         \E new \in Selections(W, M) :
           LET over == Withheld(nd, l, o, new)
           IN  /\ WriteLevel(t, ReplaceNeighbours(nd, l, o, new))
               /\ Set(t, [loc[t] EXCEPT !.orph = @ \ {o}, !.unl = @ \cup {o},
                                        !.link = o, !.over = over])
               /\ Goto(t, IF over = {} THEN "rem_repair" ELSE "rem_shrink")
      /\ UNCHANGED <<entry, entryLevel, height, held, handle, strayed>>

RemoveShrink(t) ==
  /\ pc[t] = "rem_shrink"
  /\ Reselect(t)
  /\ Goto(t, "rem_replace")
  /\ UNCHANGED <<nodes, entry, entryLevel, height, held, handle, strayed>>

RemoveReplace(t) ==
  LET new == AfterReplace(t)
  IN  /\ pc[t] = "rem_replace"
      /\ ReplaceSelected(t)
      /\ Set(t, new)
      /\ Goto(t, IF new.over # {} THEN "rem_shrink" ELSE "rem_repair")
      /\ UNCHANGED <<entry, entryLevel, height, held, handle, strayed>>

\* The level is done: on to the next one, still under its lock, or the end
\* of phase 1, which drops the last level lock.
RemoveNextLevel(t) ==
  LET new == [loc[t] EXCEPT !.unl = {}, !.orph = {}, !.link = Nil]
  IN  /\ pc[t] = "rem_repair"
      /\ loc[t].orph = {}
      /\ IF loc[t].level = 0
         THEN /\ Set(t, [new EXCEPT !.level = loc[t].top])
              /\ Goto(t, "rem_relock")
              /\ DropLevels(t)
         ELSE /\ Set(t, [new EXCEPT !.level = @ - 1])
              /\ Goto(t, "rem_lock")
              /\ UNCHANGED held
      /\ UNCHANGED <<nodes, entry, entryLevel, height, handle, strayed>>

\* Phase 2: every level shared, top down.
RemoveRelock(t) ==
  LET l == loc[t].level
  IN  /\ pc[t] = "rem_relock"
      /\ CanShare(t, l)
      /\ HoldAlso(t, l, "S")
      /\ IF l = 0 THEN Goto(t, "rem_drop") /\ UNCHANGED loc
         ELSE UNCHANGED pc /\ Set(t, [loc[t] EXCEPT !.level = @ - 1])
      /\ UNCHANGED <<nodes, entry, entryLevel, height, handle, strayed>>

\* drop_node, bottom up: the parent's LowerLevel is cleared with it.
RemoveDrop(t) ==
  LET l == loc[t].level
      e == loc[t].e
  IN  /\ pc[t] = "rem_drop"
      /\ nodes' = [k \in Levels |->
           IF k = l THEN [nodes[k] EXCEPT ![e] = FreeNode]
           ELSE IF k = l + 1 /\ l < loc[t].top
                THEN [nodes[k] EXCEPT ![e].lower = FALSE]
           ELSE nodes[k]]
      /\ IF l = loc[t].top THEN Goto(t, "rem_done") /\ UNCHANGED loc
         ELSE UNCHANGED pc /\ Set(t, [loc[t] EXCEPT !.level = @ + 1])
      /\ UNCHANGED <<entry, entryLevel, height, held, handle, strayed>>

\* The replacement is not the node its element's insert returned.
Strays(t) ==
  /\ loc[t].newEp /\ loc[t].repl # Nil
  /\ handle[loc[t].repl] # loc[t].rlevel

RemoveReturn(t) ==
  /\ pc[t] = "rem_done"
  /\ IF loc[t].newEp
     THEN SetEntryPoint(loc[t].repl,
                        IF loc[t].repl = Nil THEN 0 ELSE loc[t].rlevel)
     ELSE UNCHANGED <<entry, entryLevel>>
  /\ handle' = [handle EXCEPT ![loc[t].e] = NoLevel]
  /\ strayed' = (strayed \/ Strays(t))
  /\ Return(t)
  /\ UNCHANGED <<nodes, height>>

-------------------------------------------------------------------------------
(* search_knn and mark_delete.                                             *)

\* The graph lock and the entry point; an empty graph has no result.
KnnCall(t) ==
  /\ pc[t] = "idle"
  /\ CanShare(t, GraphLock)
  /\ entry # Nil
  /\ Set(t, [NoLocals EXCEPT !.cand = {entry}, !.level = entryLevel,
                             !.elevel = entryLevel])
  /\ Goto(t, "knn_lock")
  /\ HoldAlso(t, GraphLock, "S")
  /\ UNCHANGED <<nodes, entry, entryLevel, height, handle, strayed>>

KnnLock(t) ==
  /\ pc[t] = "knn_lock"
  /\ CanShare(t, loc[t].level)
  /\ HoldOnly(t, loc[t].level, "S")
  /\ Goto(t, "knn_search")
  /\ UNCHANGED <<nodes, entry, entryLevel, height, loc, handle, strayed>>

\* Mutant: the level lock is released before the next one is held.
KnnSearchReleasing(t) ==
  /\ pc[t] = "knn_search"
  /\ loc[t].level > 0
  /\ Narrow(t)
  /\ Goto(t, "knn_descend")
  /\ DropLevels(t)
  /\ UNCHANGED <<nodes, entry, entryLevel, height, handle, strayed>>

KnnSearch(t) ==
  /\ pc[t] = "knn_search"
  /\ loc[t].level > 0
  /\ Narrow(t)
  /\ Goto(t, "knn_descend")
  /\ UNCHANGED <<nodes, entry, entryLevel, height, held, handle, strayed>>

KnnDescend(t) ==
  LET l == loc[t].level - 1
  IN  /\ pc[t] = "knn_descend"
      /\ CanShare(t, l)
      /\ HoldOnly(t, l, "S")
      /\ Set(t, [loc[t] EXCEPT !.level = l])
      /\ Goto(t, "knn_search")
      /\ UNCHANGED <<nodes, entry, entryLevel, height, handle, strayed>>

\* The search of the bottom level returns what it found.
KnnReturn(t) ==
  /\ pc[t] = "knn_search"
  /\ loc[t].level = 0
  /\ SearchResults(t, loc[t].cand, {}, EfSearch) # {}
  /\ Return(t)
  /\ UNCHANGED <<nodes, entry, entryLevel, height, handle, strayed>>

\* mark_delete: the graph lock, then one level at a time.
MarkCall(t, e, mark) ==
  /\ Marking
  /\ pc[t] = "idle"
  /\ Unused(e) /\ handle[e] # NoLevel
  /\ CanShare(t, GraphLock)
  /\ Set(t, [NoLocals EXCEPT !.e = e, !.level = handle[e], !.mark = mark])
  /\ Goto(t, "mark_lock")
  /\ HoldAlso(t, GraphLock, "S")
  /\ UNCHANGED <<nodes, entry, entryLevel, height, handle, strayed>>

\* Mutant: the walk ends one level above the lowest.
MarkLevelShort(t) ==
  LET l == loc[t].level
      e == loc[t].e
  IN  /\ pc[t] = "mark_lock"
      /\ CanShare(t, l)
      /\ WriteLevel(t, [At(t) EXCEPT ![e].marked = loc[t].mark])
      /\ IF l <= 1 THEN Return(t)
         ELSE /\ UNCHANGED pc
              /\ Set(t, [loc[t] EXCEPT !.level = @ - 1])
              /\ HoldOnly(t, l, "S")
      /\ UNCHANGED <<entry, entryLevel, height, handle, strayed>>

MarkLevel(t) ==
  LET l == loc[t].level
      e == loc[t].e
  IN  /\ pc[t] = "mark_lock"
      /\ CanShare(t, l)
      /\ WriteLevel(t, [At(t) EXCEPT ![e].marked = loc[t].mark])
      /\ IF l = 0 THEN Return(t)
         ELSE /\ UNCHANGED pc
              /\ Set(t, [loc[t] EXCEPT !.level = @ - 1])
              /\ HoldOnly(t, l, "S")
      /\ UNCHANGED <<entry, entryLevel, height, handle, strayed>>

-------------------------------------------------------------------------------
(* Failing reads and writes: the call returns an error and leaves what it  *)
(* has written.  Nobody knows the handle of a failed insert, and a failed  *)
(* remove is not attempted again.                                          *)

\* What a failed call writes: a failed remove is not attempted again.
FailCall(t) ==
  /\ handle' = IF pc[t] \in RemovePcs
               THEN [handle EXCEPT ![loc[t].e] = NoLevel] ELSE handle
  /\ Return(t)
  /\ UNCHANGED <<nodes, entry, entryLevel, height, strayed>>

\* The next step of t reads a freed node, or goes down from a node that has no
\* lower level.
ReadsFreed(t) ==
  LET nd == At(t)
  IN  \/ /\ \/ pc[t] \in {"ins_search", "knn_search"}
            \/ pc[t] = "ins_create" /\ loc[t].level <= loc[t].elevel
         /\ \E x \in Reachable(nd, loc[t].cand, {}) :
              ~(Exists(nd, x) /\ (loc[t].level > 0 => nd[x].lower))
      \/ /\ pc[t] = "rem_repair"
         /\ \E o \in loc[t].orph : \E x \in Reachable(nd, loc[t].unl, {o}) :
              ~Exists(nd, x)
      \/ /\ pc[t] \in {"ins_shrink", "rem_shrink"}
         /\ \E v \in loc[t].over : ~Exists(nd, v)
      \/ /\ pc[t] \in {"ins_replace", "rem_replace"}
         /\ ~Exists(nd, loc[t].shrink)

ReadFails(t) == ReadsFreed(t) /\ FailCall(t)

Fail(t) ==
  /\ Faults
  /\ pc[t] \notin {"idle", "ins_upgrade", "rem_upgrade"}
  /\ FailCall(t)

InsertStep(t) ==
  \/ InsertUpgrade(t) \/ InsertLock(t) \/ InsertSearch(t) \/ InsertDescend(t)
  \/ InsertCreate(t) \/ InsertKeep(t) \/ InsertLink(t) \/ InsertLinkBack(t)
  \/ InsertConfirm(t) \/ InsertShrink(t) \/ InsertReplace(t) \/ InsertReturn(t)

RemoveStep(t) ==
  \/ RemoveUpgrade(t) \/ RemoveUnlink(t) \/ RemoveSeed(t) \/ RemoveRepair(t)
  \/ RemoveShrink(t) \/ RemoveReplace(t) \/ RemoveNextLevel(t)
  \/ RemoveRelock(t) \/ RemoveDrop(t) \/ RemoveReturn(t)

KnnStep(t) == KnnLock(t) \/ KnnSearch(t) \/ KnnDescend(t) \/ KnnReturn(t)

Step(t) ==
  InsertStep(t) \/ RemoveStep(t) \/ KnnStep(t) \/ MarkLevel(t) \/ ReadFails(t)

Next ==
  \E t \in Threads :
    \/ \E e \in Elements, top \in InsertLevels : InsertCall(t, e, top)
    \/ InsertStep(t)
    \/ \E e \in Elements : RemoveCall(t, e)
    \/ RemoveStep(t)
    \/ KnnCall(t)
    \/ KnnStep(t)
    \/ \E e \in Elements, mark \in BOOLEAN : MarkCall(t, e, mark)
    \/ MarkLevel(t)
    \/ ReadFails(t)
    \/ Fail(t)

Spec == Init /\ [][Next]_vars

\* A thread in a call goes on when the lock it waits for is free.
FairSpec == Spec /\ \A t \in Threads : WF_vars(Step(t))

-------------------------------------------------------------------------------
(* Properties.                                                             *)

\* The level of t's candidates; above the entry level nothing is searched.
CandLevel(t) ==
  Min({loc[t].elevel,
       IF pc[t] \in {"ins_descend", "ins_keep", "knn_descend"}
       THEN loc[t].level - 1 ELSE loc[t].level})

\* A traversal never meets a freed node, at whatever point of the descent
\* removals of other threads run: neither among its candidates nor behind
\* any link it can follow.  This, ReachableHaveChain and LinkedOnce are said of
\* a graph whose entry point has always been the top node of an element.  The
\* remove of an element does not know its lower node as the entry point
\* (SoleEntryPoint), and frees it: then they fail.
TraversalsReadLiveNodes ==
  ~strayed => \A t \in Threads :
    LET nd == nodes[CandLevel(t)]
    IN  pc[t] \notin {"ins_upgrade"} =>
          \A x \in Reachable(nd, loc[t].cand, {}) : Exists(nd, x)

\* "any node reachable at level N has already been fully inserted at all lower
\* levels": a node that a link or the entry point names has its whole chain,
\* as long as every replacement of the entry point was a top node.
HasChain(e, l) ==
  \A k \in 0 .. l : Exists(nodes[k], e) /\ (k > 0 => nodes[k][e].lower)

ReachableHaveChain ==
  ~strayed =>
    /\ \A l \in Levels, a \in Elements :
         Exists(nodes[l], a) => \A b \in nodes[l][a].out : HasChain(b, l)
    /\ entry # Nil /\ (\A t \in Threads : held[t][GraphLock] # "X")
         => HasChain(entry, entryLevel)

\* The target of a link records the link, so that its removal finds every
\* node that names it.
LinksRecorded ==
  \A l \in Levels, a, b \in Elements :
    Exists(nodes[l], a) /\ b \in nodes[l][a].out =>
      Exists(nodes[l], b) /\ a \in Recorded(nodes[l][b])

\* A node is linked back to at most once: what link_neighbours relies on when
\* it takes a free slot without looking for the node.  As long as every
\* replacement of the entry point was a top node.
LinkedOnce ==
  ~strayed => \A t \in Threads : pc[t] = "ins_linking" =>
    \A n \in loc[t].pend : Exists(At(t), n) /\ loc[t].e \notin Recorded(At(t)[n])

\* An entry point gives way to the higher node of an insert or, when it is
\* itself removed, to its replacement, also if other calls changed it while
\* a caller waited for the exclusive graph lock.
EntryPointGivesWay ==
  [][<<entry, entryLevel>>' # <<entry, entryLevel>> =>
       \E t \in Threads :
         \/ /\ pc[t] = "ins_done" /\ entry' = loc[t].e
            /\ entry = Nil \/ entryLevel' > entryLevel
         \/ pc[t] = "rem_done" /\ entry = loc[t].e]_vars

\* "a level cannot be locked until it does" exist: no call locks a level that
\* ensure_levels has not created, whoever created it.
LockedLevelsExist ==
  \A t \in Threads, l \in Levels : held[t][l] # "none" => l <= height

\* The nodes of an element that no call works on all have the same mark.
MarkedTogether ==
  \A e \in Elements : Unused(e) /\ handle[e] # NoLevel =>
    \A k \in 0 .. handle[e] : nodes[k][e].marked = nodes[0][e].marked

\* The locks the next step of t waits for.
WantsShared(t) ==
  {k \in Levels :
     \/ pc[t] \in {"ins_lock", "rem_relock", "knn_lock", "mark_lock"}
        /\ k = loc[t].level
     \/ pc[t] \in {"ins_descend", "ins_keep", "knn_descend"}
        /\ k = loc[t].level - 1}

WantsExclusive(t) ==
  {k \in Locks :
     \/ pc[t] \in {"ins_upgrade", "rem_upgrade"} /\ k = GraphLock
     \/ pc[t] = "rem_lock" /\ k = loc[t].level}

\* t waits for u: u holds a lock that excludes t's, waits for one exclusively
\* that t wants to share, or is linking while t waits to replace links.
WaitsFor(t, u) ==
  \/ \E k \in WantsShared(t) : held[u][k] = "X" \/ k \in WantsExclusive(u)
  \/ \E k \in WantsExclusive(t) : held[u][k] # "none"
  \/ pc[t] \in {"ins_replace", "rem_replace"} /\ Linking(u, loc[t].level)

\* No threads wait for each other in a circle, upgrades of the graph lock and
\* the two phases of remove included ("Lock hierarchy", graph.h).
NoLockDeadlock ==
  \A S \in (SUBSET Threads) \ {{}} :
    \E t \in S : \A u \in S \ {t} : ~WaitsFor(t, u)

\* Once no call begins any more, every call returns.
CallsDrain ==
  <>[][\A t \in Threads : pc[t] = "idle" => pc'[t] = "idle"]_vars
    => <>[](\A t \in Threads : pc[t] = "idle")
===============================================================================
