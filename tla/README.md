# A TLA+ model of vsql-vector

vsql-vector is a VillageSQL extension: a vector column type, distance functions,
and an HNSW nearest-neighbour index kept in the server's own pages. This
directory holds TLA+ modules for the storage engine under the index and for the
index itself, the TLC configurations that check them, and TLAPS proofs of every
safety property that the passing runs check.

Paths below are relative to the repository root.

## The system

```
 SQL layer ── src/vector.cc, src/native_vector.*       type, text form, distances
 index     ── src/index/hnsw/graph_ops*                insert, search, mark, remove
              src/index/hnsw/layer_ops*                one layer: search, heuristic
              src/index/hnsw/graph.*                   nodes, links, graph/level locks
              src/index/hnsw/storage.*                 levels, entry point, cursor
 storage   ── src/storage/storage.*                    ColumnStore, MultiColumnStore
              src/storage/root_page.*                  free lists, list of data pages
              src/storage/data_page.*                  records, bitmap, hints
 server    ── pages, page latches, mini-transactions, segments, redo (external)
```

| Component | State | Operations | What makes it correct |
|---|---|---|---|
| Data page | bitmap of (free, marked) bits, free counter, links, records | format, insert, purge, mark, find_free_slot | a record is never overwritten by an insert; the counter is the number of free records |
| Root page | slot array with a list of non-full pages per slot, list of all pages, per-thread slot cache | page_select, grow, add/remove free page, add data page | lists linked, disjoint and complete; a listed page has room |
| Column store | one root page, its data pages, insert concurrency counter | insert (optimistic, pessimistic), fetch, update, mark_delete, purge | a map from references to records; no latch deadlock; calls return |
| Multi-column store | one column store per column, one of them owning the segment | create, load, drop, get_root_index | every store finds its root page and segment again after a restart |
| HNSW index store | two column stores per level, the levels there are, persisted entry point | create, drop, load, ensure_levels, set_entry_point, locate | no root page is lost; memory agrees with the pages after every load; the persisted entry point leads down to level 0 |
| HNSW index graph | a node per level of an element; links out, links in, overflow chain; graph lock, level locks | create_node, link_neighbours, repair, drop_node, lock classes | links are reciprocal; no link names a freed node |
| HNSW graph operations | the entry point; locals of the calls | insert, mark_delete, remove (two phases), search | see GraphOperations below |
| HNSW layer operations | candidate and result heaps of one call | search, seed, select neighbours | result is what best-first search must return |
| Cursor | a materialised result set and a position | begin, next | no row is lost or returned twice |

Interaction. A graph operation takes the graph lock and level locks, walks nodes
by `ColumnStore::fetch` inside mini-transactions, and writes them with `insert`,
`update`, `mark_delete` and `purge` of the level's stores. Page latches live as
long as the mini-transaction; graph and level locks live as long as the graph
operation. Nothing passes messages: threads share the pages, the entry point and
the locks.

What is hard here: the insert of a column store reads under a shared latch,
drops it and acts under an exclusive one; a purge does the same with the page;
thread-local hints outlive the state they were taken from; a failed page load
leaves a call half done; a call of the index is many mini-transactions, and a crash
may fall between any two of them; stores of one index share a segment and latch its
owner's root page while their callers hold other pages; the graph lock is upgraded by releasing it; a removal
frees nodes while traversals of other threads hold references to neighbours.

PROJECT.json lists these as hazards, each at its line, with the properties that
would catch it going wrong.


## Modules

The storage engine is at the bottom, the index store and the concurrent graph
operations rest on it, and the search of one layer on the graph.

| Module | Models | Extends |
|---|---|---|
| `DataPage` | a page of records: `find_free_slot` over the bytes of the bitmap, insert, purge, delete marks (`storage/data_page.*`) | – |
| `RootPage` | slot array, free lists, list of all data pages (`storage/root_page.*`) | `DataPage` |
| `ColumnStore` | the calls of one store by concurrent threads under page latches (`storage/storage.*`) | `RootPage` |
| `RecordStore` | what a store promises: a map from references to records (abstract) | – |
| `IndexGraph` | the link bookkeeping of one level (`index/hnsw/graph.*`) | – |
| `GraphOperations` | insert, remove, search and mark by concurrent threads under the graph's locks (`index/hnsw/graph_ops*`) | `IndexGraph` |
| `IndexStore` | an index store from create to drop: levels, chains of nodes, entry point, failures, crash and load (`index/hnsw/storage.*`, `MultiColumnStore` of `storage/storage.cc`) | – |
| `StoreLatches` | the page latches of inserts into the stores of one index (`storage/storage.cc` under `index/hnsw/graph.cc`) | – |
| `LayerOperations` | one search, the selection of neighbours, and the cursor (`index/hnsw/layer_ops*`, cursor of `storage.*`) | `IndexGraph` |
| `MCColumnStore`, `MCGraphOperations`, `MCIndexStore`, `MCLayerOperations` | instances for TLC | the above |
| `MCEntryPoint` | a restriction of `GraphOperations` to six points with real distances and the real heuristic | `GraphOperations` |
| `ColumnStoreProofs`, `FreeListProofs` | proofs about one store: pages, types and latches; lists, records and the refinement | `ColumnStore` |
| `IndexStoreProofs` | proofs about the index store: levels and roots, chains of nodes | `IndexStore` |
| `IndexGraphProofs` | lemmas on searches, selections and the writes of links | `IndexGraph` |
| `LayerOperationsProofs`, `GraphOperationsProofs` | proofs about one layer, and about the concurrent operations | the modules of those names |
| `GraphLinkProofs` | proofs about the links of the concurrent graph | `GraphOperationsProofs` |
| `FiniteInduction` | least elements and induction for the proofs | – |

### DataPage, RootPage, ColumnStore

A data page is a record: `recs` (one entry per position of the bitmap), the free
counter, the four links and the slot number. A position past the last record is
padding of the last bitmap byte, and it is in the model because `find_free_slot`
scans whole bytes. A root page is a record with the current size of the slot array,
the head of each slot's list, and head, tail and length of the list of all pages.
The layout of a page in bytes is left out; a column reference is a page and an
index. `MaxRecs`, `RecsPerByte` and `MinFreePercent` take the place of the page
size, the four records of a bitmap byte and the share of free records at which a
page is listed again.

`ColumnStore` adds the threads. `held[t]` are the latches of the thread's
mini-transaction, `pc` and `loc` the point of the call and its locals, `cache` the
thread-local `s_last_slot_info`, `counter` the insert concurrency counter. One
action is the code between two waits for a latch; the latches held make it
indivisible for the other threads. `InsertSelect`, `InsertOptimistic` and
`InsertFallBack` are steps 2 to 4 of `ColumnStore::insert`, `InsertSelectAgain`
to `InsertUnlink` step 5, and `PurgeInPlace` to `PurgeRelist` the two ways
through `purge`. `LoadFails` lets any page load inside a call return an error with
what was written before left in place. `Commit` is the caller's commit.

The store modelled owns its segment. A store that does not also latches the root
page of the store that does: that is in `StoreLatches`.

### IndexStore

The variables fall in two groups: what is on pages (`pages`, the references to root
pages and the metadata, both kept on the first root page, and the key references the
rows keep, `handle`) and what is in memory (`up`, `root`, `segment`, `levels`,
`entry`, `call`). `Crash` clears the second group at any point between two
mini-transactions, and `Load` builds it again from the first. When the record of the
entry point cannot be resolved `IndexStore::load` returns an error: `LoadFails`, after
which the index stays closed. Redo
recovers a prefix of the mini-transactions, so losing the last ones is an earlier
crash. Every action is one mini-transaction or one step in memory:

- `Create`, `Drop`, `Load` follow the functions of those names in `IndexStore` and
  `MultiColumnStore`. `EnsureHalf` is `init_root_page` for one of the two stores of
  a level, `EnsureDone` the end of `ensure_levels`.
- `InsertCall`, `CreateNode`, `InsertEntryPoint`, `InsertReturn` are an insert:
  nodes from the top level down, each told to the node above in the same
  mini-transaction, and the entry point in one of its own.
- `RemoveCall`, `RemoveDescend`, `RemoveDrop`, `RemoveEntryPoint`, `RemoveReturn` are
  a purge: locate the level by the root page, go down, free the nodes from below,
  replace the entry point.
- `Fail` is an error return. `Interrupts` names the calls that may fail or be cut
  short by a crash; the server waits for the others before it stops.

A page holds `RecsPerPage` records and names the root page of its store. The free
lists of a store are `ColumnStore`'s: here an insert takes any free record of the
store, or a new page. Links, overflow records and marks are `GraphOperations`'.
Which neighbour replaces a removed entry point is a matter of links, so here it is any
live node of a level of the removed vector, whatever nodes are above or below it
(`RemoveEntryPoint`). `strayed` is a history variable: it records that some replacement
was not the top node of its vector. No action reads it; `EntryPointLive` and `Loadable`
state what needs it to be false. A purge that failed or was cut short may be called again, as
long as the row's reference names a live record.

### StoreLatches

A store is its root page and one data page. A thread asks for one latch after the
other in the order of `ColumnStore::insert`, called by `create_node` with the node
above latched or by `link_neighbours` with the neighbour latched. What is on the
pages is left out, and each decision that depends on it goes either way: a selected
page has room or not, the call falls back or not, a page is allocated or not.

### IndexGraph, GraphOperations

The node of an element on a level is a record of the outgoing links (`out`), the
links flagged incoming (`inc`), the links recorded in the overflow chain (`ovf`),
the presence of the lower-level reference and the mark. A reference to a node is an
element together with a level. `IndexGraph` holds what the functions of that name do
to those records: `NewNode`, `LinkBack`, `ConfirmLinks`, `ReplaceNeighbours`,
`UnlinkNeighbours`, `IncomingNeighbours`.

In `GraphOperations` a thread's locks are a function on `0 .. MaxLevel + 1`: lock
`k` is the lock of level `k`, the last one the graph lock. The actions named
`Insert…` follow `GraphOperations::insert`: read the entry point under the shared
graph lock, upgrade (by releasing) when it may change, search down hand over hand,
create nodes top down keeping the locks, link bottom up, reselect the lists that had
no room, set the entry point. `Remove…` follows `remove`: phase 1 unlinks and
repairs level by level under an exclusive level lock, phase 2 takes all levels
shared and frees bottom up. `Knn…` and `Mark…` are `search_knn` and `mark_delete`.
A call ends with an error (`FailCall`) for two reasons. `ReadFails`: its next step
reads a node that has been freed, or goes down from a node without a lower one; this
is the code's own error path and always possible. `Fail`: a page cannot be read or
written, between any two steps, in the runs with `Faults`.

Abstractions. Distances are left out: a search returns any set of nodes it can
reach of the size its width allows, a selection is any nonempty subset within its
limit. Every behaviour of the code for any vectors is then among those of the
model. The search of one layer is one step: level locks keep removals out of the
level, and what concurrent inserts may add is only more links to follow.
`replace_neighbours` and `unlink_neighbours` are one step each, under the exclusive
operation lock and the exclusive level lock that exclude everything else that
writes links there; the steps of `link_neighbours`, under a shared lock, are
separate. `Unused` stands for the row locks of the server: two calls never work on
the same row. `handle` is the reference `insert` returns to the server, which
`mark_delete` and `purge` get back. A remove that failed is not called again.
`strayed` is a history variable that no action reads: some remove has made a node the
entry point that has another one above it (`Strays`), which is what the finding
`graph_entry_point` shows to happen. The properties that do not survive it say so.

`MCEntryPoint` puts the distances back for one configuration, to show that a
behaviour exists for actual vectors and not just for arbitrary selections.

### LayerOperations

One call on a level that does not change: the level locks keep removals out, and
links added meanwhile are further graphs of the initial state, which is any graph
within the bounds. `Expand`, `Consider`, `StopSearch` and `Exhaust` are the loop of
`search`, with the visited set, the frontier and the result heap as sets, the top of
a heap being any of its nearest (furthest) elements so that ties come off in any
order. The caller is an insert or a repair ("build", then `consume_heuristic`),
`shrink_neighbours` ("shrink", `seed` in place of a search) or `search_knn` ("knn",
then `consume_simple` and the cursor). `Visible` is true of every node: the policy of
`search_knn` asks `IndexGraph::visible`, which is a stub (`graph.cc:233`, "treating every
node as visible"). `SearchFinds` and `SelectionCovers` show that
the operators `Found` and `Selections`, by which `GraphOperations` replaces a search
and a selection, cover what the algorithm returns.

## Runs

Storage:

| Run | Instance | Shows |
|---|---|---|
| `records` | 2 threads, 1 page of 3 records over 3 bitmap bytes, 2 transactions, fairness | `TypeOK`, `ListedPagesHaveRoom`, `FreeCountExact`, the store implements `RecordStore`, `CallsReturn` |
| `lists` | 2 threads, 3 one-record pages, 2 slots, loads fail | `FreeListsLinked`, `FreeListsComplete`, `DataListComplete`, `NoLatchDeadlock`, `WritesAreLatched` |
| `index_store` | 2 threads, 2 elements, 2 levels, 8 one-record pages, inserts fail or are cut short | `TypeOK`, `RootsReferenced`, `StoresRestored`, `HandlesLocated`, `EntryPointLive`, `Loadable` |
| `padding` | 2 threads, 1 page of 6 records | finding |
| `crash_load` | 1 thread, 2 elements, 2 levels, removals are cut short too | finding |
| `latch_deadlock` | 2 threads, 2 levels | finding |

Graph:

| Run | Instance | Shows |
|---|---|---|
| `graph_levels` | 3 threads, 3 elements, 2 levels, marking | `TypeOK`, `TraversalsReadLiveNodes`, `ReachableHaveChain`, `LinkedOnce`, `NoLockDeadlock`, `LockedLevelsExist`, `MarkedTogether`, `EntryPointGivesWay` |
| `graph_overflow` | 2 threads, 5 elements, 1 level, lists of 2 slots | `LinksRecorded` |
| `graph_drain` | 2 threads, 2 elements, 2 levels, marking, failures, fairness | `CallsDrain` |
| `layer_search` | every graph of 4 points with at most 2 links each, 3 layouts, ef 1 and 3, fairness | `TypeOK`, `SearchFinds`, `LocallyNearest`, `SelectionCovers`, `ScanInOrder`, `Terminates` |
| `graph_entry_point` | 1 thread, 6 points of the plane on 2 levels | finding |
| `graph_entry_freed` | as `graph_entry_point` | finding |

One condition is part of five properties. `TraversalsReadLiveNodes`,
`ReachableHaveChain` and `LinkedOnce` of `graph_levels`, and of `EntryPointLive` and
`Loadable` of `index_store` the part about the chain below the entry point, hold as long
as `~strayed`. Three elements are too few to split a level, so `strayed` stays false in
every state of `graph_levels`; for the larger instances there is the proof.
`index_store` takes every live node for a replacement, so both values occur, and so do
loads that fail.

In `records` a page is listed when it is allocated and keeps its slot number from then
on, so that no purge lists a page again: the purge that latches the root page first is
not reached there, and `CallsReturn` says nothing about it. It is reached in `lists`,
with pages of one record, and `RecordsImplemented` covers it.

Why these bounds. A conflict over a page or a list involves two calls; the third
thread in `graph_levels` is there for circles of three (for page latches the proof
covers any number). Three one-record pages make lists with an inner page. Three
records, each in a byte of its own, give a page that is empty, partly used, at its
last free record and full, and hints that name a later byte than the free record.
Two levels give a descent, an entry point that can move up and down, and a level
that is made while the index is in use. In `index_store` eight pages are the four
root pages and a page for each node of two elements, so that a failed insert, whose
nodes stay, can use up the segment. In `graph_overflow`, `M` is 1, below the minimum
the index options allow: a node then has two slots and five elements fill them,
where the code's smallest list has four. The bookkeeping does not depend on the
number. `MaxSlots` is one or two instead of the number that fits a root page, so that
the limit is reached; Pages is the size of the segment, and `InsertNoSpace` fires
when it is used up. In `layer_search` four points with two links give frontiers that
meet again and nodes behind nodes; the layouts are a row, both sides of the query,
and equal distances; ef 1 fills at once and ef 3 leaves one point out.

Symmetry is used for threads, pages, elements, transactions and values, which the
model never orders or names, in the runs without liveness. `LayerOperations` has
none: its elements have positions.

Fairness. `ColumnStore!Fairness` is strong fairness of a thread's steps, because
the page latches of the server queue their waiters and so are not granted past a
waiter for ever, and weak fairness of commits. `GraphOperations!FairSpec` has only
weak fairness of a thread's steps: the graph's locks are `std::shared_mutex`, which
promises no order, and a stream of searches may starve a writer. So `CallsDrain`
claims that calls return once no new ones begin, and no more.
`LayerOperations!FairSpec` has weak fairness of the steps of the call, which runs in
one thread and waits for nothing; the steps of the cursor wait for the server.

Deadlock is checked in every passing run except two. In `graph_drain` failed removals
can leave an index in which no call is possible; `NoLockDeadlock` covers the waiting
there is. In `layer_search` a behaviour is one call and ends with it.

## Proofs

All proved for every set of threads, pages, transactions, values and elements, every
number of levels and every page geometry that the assumptions in `DataPage`,
`RootPage`, `ColumnStore`, `IndexGraph`, `GraphOperations`, `LayerOperations` and
`IndexStore` admit. Some have a hypothesis besides, named with the
theorem: it rules out one thing the code does not get right, such as a geometry, a
crash or a failure at a point where it leaves the work half done.

The operators that follow links (`Reachable`, `Walk`, `Descent`) are recursive
functions. The induction theorems of the library take an operator as a parameter, and
the provers cannot instantiate it. `FiniteInduction` states induction for a set in
place of the operator, from the fact that a nonempty set of naturals has a least
element, so that what these functions compute can be proved after all.

### One store

- `TypeCorrect`: `Spec => []TypeOK` of `ColumnStore`. `TypeOK` alone is not
  inductive: an insert takes a page from its local, a slot head or a link and writes
  to it, so that the step is typed only if these name pages. `TypeInv` adds `CallsOK`
  (what a call at a given point has in its locals) and `RefsUsed` (links and heads
  name allocated pages).
- `NoDeadlock`: `Spec => []NoLatchDeadlock`. `LatchInv` says which latches a call
  holds at each point (`LatchShapes`), that they exclude one another and are on
  allocated pages. Take any set of threads. If one of them waits for nothing, it can
  go on. If one of them holds the root page, it waits for data pages only, and a
  waiting thread that holds a data page holds the root exclusively, so there is
  no other. Otherwise all wait for the root page and hold nothing.
- `PagesLatched`: `Spec => WritesAreLatched`. Every step that changes a page ends with
  an exclusive latch on it. The one place where the latches do not say so is the
  insert that lists its new page and would write to the old head of the list:
  `EmptySlots` says that there is none, because the root page has been latched
  exclusively since the slot was found empty.
- `ListsLinked`: `Spec => []FreeListsLinked`, and `ListedRoom`: `Spec =>
  []ListedPagesHaveRoom`. The two are one induction, `ListInv`: an insert at the
  point of unlinking knows that the page is listed and has its last free record, a
  purge about to list a page knows that it is on no list, and both know it because
  of the latches they hold (`ListPcs`, `KnowsLatched`). Without `LatchInv` the
  knowledge could go stale.
- `FreeListsWhole`: `Spec => []FreeListsComplete`, and `DataListWhole`: `Spec =>
  []DataListComplete`. That a walk along the links meets every page of a list exactly
  once does not follow from what each page says about its neighbours: there could be a
  circle off the list. `FreeInv` and `DataInv` say that there is a rank of the pages
  that grows along the links, and, for the list of all pages, a set of pages closed
  under them. A page that is listed gets a rank below its head's, or above the tail's.
  `WalkOfList` turns rank and links into the walk, for any list.
- `StoredCounted`: the counter of free records and the records stored add up to the
  capacity (`RecordInv`), whatever the geometry. `FreeCounted`: `Spec =>
  []FreeCountExact`, which speaks of the free bits of the bitmap, has the hypothesis
  `WholeBytes` (the capacity is a multiple of the records of a bitmap byte): else the
  padding can be handed out, which is the finding `padding`.
- `RecordsImplemented`: `Spec => ImplementsRecordStore`, under `WholeBytes`. The
  mapping is in `ColumnStore` (`LiveRecords`, `Promise`). `StoreInv` joins the
  invariants above; each action is reduced to what it does to the records of one page
  (`RecordStep`), and each of those is a step of `RecordStore` or leaves the map alone.
  The fallback paths, hints, lists and latches all map to stuttering. The refinement
  does not tell which transaction asked for a purge: the comparison of transaction
  references is in the model (`Purges`), and no property is about it.

The first part of `ColumnStoreProofs` has the lemmas on the operators: types, links and counters before and
after `AddFreePage`, `RemoveFreePage`, `AddDataPage`, `InsertRecord`, `PurgeRecord`.

### The index store

- `StoreTypeCorrect`, `RootsKept` and `MemoryRestored`: `Spec => []TypeOK`,
  `Spec => []RootsReferenced` and `Spec => []StoresRestored` of `IndexStore`, with
  `Interrupts` any set, so also when removals fail or are cut short. One induction,
  `IndexInv`. It adds `LevelsOK` (levels are made from below, level 0 by create, and
  metadata without an entry point has level 0, so that `load` finds every level up to
  the entry point's) and `CallsOK` (a call past `ensure_levels` has its top level,
  and its path is as long as its place asks for, so that it writes to a level of the
  index). The step that carries the argument is `EnsureHalfInv`: the half made is the
  first that is missing, so everything below it is complete, the level it completes
  is complete on the pages, and no store that has a root page gets a second one.
  Records are reduced to `SamePages`: no write to a record changes which store a page
  belongs to.
- `RowsLocated`, `EntryPointAlive` and `AlwaysLoadable`: `Spec => []HandlesLocated`,
  `Spec => []EntryPointLive` and `Spec => []Loadable`, with inserts failing or cut
  short by a crash at any point, and with any live node as the replacement of an entry
  point. Hypothesis: `RemovesFinish`, removals do not fail and are not cut short; that
  they may be is the finding `crash_load`. The condition `~strayed` on the chain below
  the entry point is in the two properties themselves. That rows find their nodes, that
  memory agrees with the metadata and that the level of the entry point is there hold
  without it. `ChainInv` gives every node the head of its
  chain and names a set of nodes that lead down to level 0 (`Forest`, `Whole`). Both
  are existentially quantified, because nothing in the state tells the chain a failed
  insert left behind from one in use: a crash keeps the heads, and the nodes it
  abandons stay out of the set. Records are used again, so a step that frees a node has
  to show that no chain, path, row or entry point still leads to it: the head tells
  chains apart, and calls are on different elements (`CallsApart`).

### One layer

`LayerTypeCorrect`, `SearchComplete`, `SearchNearest`, `SelectionDiverse` and
`ScanOrdered`: `TypeOK`, `SearchFinds`, `LocallyNearest`, `SelectionCovers` and
`ScanInOrder` of `LayerOperations`, for every graph, every positions and every ef. One
induction, `LayerInv`:

- `SearchInv`: whatever was seen is a result or there are ef nearer ones (`SettledOK`),
  and the links of a result have been followed or the result is still a candidate
  (`ExpandedOK`). At the end there are no candidates, or the nearest is further than
  all results.
- `SelectInv`: what is selected is nearer than what is left, and whatever was passed
  over is nearer to a selected node than to the query.
- `ScanInv`: the cursor walks distinct results in order and leaves out no nearer one;
  with `SearchInv`, neither does it pass a nearer neighbour of a row it has been at.

So the operators by which `GraphOperations` replaces a search and a selection cover
the algorithm for any input, not just for the graphs of the run.

### The graph operations

- `GraphTypeCorrect` and `LockedLevelsCreated`: `Spec => []TypeOK` and `Spec =>
  []LockedLevelsExist` of `GraphOperations`, whether or not calls fail. `GraphInv` says
  what a call at a given place has in its locals (`LocalsOK`), which locks it holds
  (`HeldOK`), which nodes of its element are there (`OwnsOK`), and that no two calls
  work on one element (`OneCallEach`). An insert creates levels while removals of other
  elements run, so the height bounds the levels of every call.
- `DeadlockFree`: `Spec => []NoLockDeadlock`. Locks are asked for from the top down, and
  `HeldOK` says that a call holds none at or below the level it asks for. `Depth`
  orders the waiting calls by the lock they wait for, an exclusive request before a
  shared one of the same level, and the operation lock of a level before both: in any
  set of threads the one of least depth waits for nobody in the set.
- `EntryPointHandedOver`: `Spec => EntryPointGivesWay`. What a call saw of the entry
  point holds until it sets it (`EntryOK`), as it has had the graph lock exclusively
  since it looked. The upgrade releases the lock, so the property would not hold if the
  check were not made again.
- `MarkedAsOne`: `Spec => []MarkedTogether`, with the hypothesis that calls do not fail
  for want of a page (`~Faults`): one that does leaves the levels above marked and those
  below not. `MarkInv` says that a marking call has marked what is above its level and
  nothing below, and that a new element is not marked. It needs `OwnsOK` and
  `OneCallEach`: no node of the chain goes away under the call.

### The links of the graph

`TargetsRecordLinks`, `NeighboursLinkOnce`, `ReachableComplete` and
`TraversalsMeetLiveNodes`: `LinksRecorded`, `LinkedOnce`, `ReachableHaveChain` and
`TraversalsReadLiveNodes` of `GraphOperations`. `ReadsSucceed`: no step of any call
reads a freed node or goes down from a node without a lower level, so the action
`ReadFails` never fires. All have the hypothesis `~Faults`: a call that fails half way
leaves links without their record. And all hold as long as `~strayed`, that is, as long
as every replacement of the entry point was entered at the highest level of its element.
The condition is in `LinkedOnce`, `ReachableHaveChain` and `TraversalsReadLiveNodes`
themselves and in the statements of the other theorems. Without it they are false: after
the finding `graph_entry_point` an element on level 1 can be the entry point of level 0;
its removal does not count as that of the entry point, which then names a freed node
(`graph_entry_freed`) that new elements link to. On one level every replacement is at
the top: `OneLevelSafe` has the four properties for `MaxLevel = 0`, and that `strayed`
stays false there.

The four are one induction, `~strayed => LinkInv` (`LinkInvHolds`), on top of `GraphInv`. None is
inductive alone: a link is only right if the call that writes it has live nodes in its
locals, and those are live only if the links they were read from were right. Its centre
is `Linked`, the nodes a link may name: those that are there and not `Detached`, not yet
linked by the insert of their element, or already unlinked by its remove.

- `LevelsOK`: links and records of linked nodes stay among linked nodes, each with its
  record at the other end, in the list or in the overflow chain and not in both; other
  nodes link to nothing; and only a node whose links are being made has links flagged
  incoming.
- `SearchOK`: candidates are linked on their level, whose lock the call holds, or are
  the entry point. Candidates are handed over from a level to the one below with the
  lock: `LinkedBelow` says that what is linked on a level is linked on all lower ones.
- `NewOK`, `PendOK`: an insert holds the levels it has nodes on; a node it has not
  linked yet is named by nobody; of the neighbours, exactly those still pending have no
  record of it.
- `ShrinkOK`, `RemovalOK`: what a call will rewrite, repair or enter as the new entry
  point is linked; a remove frees from the bottom, when no level names its element.
- `ElementsOK`, `EntryAtTop`: a chain is cut only by a call on its element, an element's
  handle is its highest level, and the entry point is on it.

A step of one thread has to leave the knowledge of the others alone. `OthersLinked` says
what that takes: the only nodes that stop being linked are those of a remove, which has
the level to itself (`CanLock`), so that no other call has them in its locals. Most
steps then go through `WriteStep` (rewrites links of one level) or `QuietStep` (writes
none). What `replace_neighbours`, `unlink_neighbours` and `link_neighbours` do to a
level is proved apart from threads (`ReplaceLinks`, `UnlinkLinks`, `LinkBackLinks`).

### Only model-checked

Liveness under fairness: `CallsReturn`, `CallsDrain`, `Terminates`. Out of the prover's
reach. Every invariant and action property of the passing runs is a theorem, under the
hypotheses above.


## Findings

- `padding`: with a capacity that is no multiple of four, `find_free_slot` can
  return a position in the padding of the last bitmap byte, which its own assertion
  excludes. Needs a hint in the last byte, that byte full and an earlier record free.
- `graph_entry_point`: the replacement of a removed entry point is found among its
  own neighbours. When the top level has come apart, the removed node may have none
  there, and a level-0 node becomes the entry point although other elements are on
  level 1. The comment expects "the topmost level that still has one". The upper
  level is unreachable for searches from then on.
- `graph_entry_freed`: what comes of it. The new entry point's own element is on level 1
  too, and its removal does not count as the removal of the entry point, because levels
  are compared. The removal frees the level-0 node and leaves it the entry point, in
  memory and on the first root page. Every later insert and search starts at a freed
  record, and after a restart `load` fails: `IndexStore` reaches this state without any
  failure or crash in a remove, which is why `Loadable` has its condition.
- `crash_load`: `remove` frees the entry point's nodes, one mini-transaction per
  level, before it replaces the entry point in another. A crash in between persists
  metadata that names a freed record, and `load` fails from then on: the index cannot
  be opened. An error return in the same place leaves the same entry point in memory.
- `latch_deadlock`: `link_neighbours` keeps a neighbour's page latched while it
  inserts an overflow record, and that insert may wait for the first root page to
  allocate a page. On level 0 the neighbour's store is the one whose root page that
  is, and an insert into it holds the root page and waits for the data page. With
  neighbours linked on level 1 only (`LinkLevels = {1}`) there is no circle.

Seen while modelling, with no run of their own:

- `remove_free_page` leaves the slot number on the page (`root_page.cc:371`), so a
  page that filled up once is never listed again, and the space of its purged records
  is not reused; `data_page.h:79` says the number is `INVALID_SLOT` off the lists.
- The decision to grow the slot array is taken under the shared latch and not taken
  again under the exclusive one, so the assertion in `grow_free_slots`
  (`root_page.cc:197`) can fail when another insert has grown it to its maximum.
- `MultiColumnStore::load` restores the root page and the owner of the segments of a
  secondary store and not its `m_segment_index` (`storage.cc:309`). `ensure_levels`
  skips the halves that exist, so after a restart the stores of the upper levels
  allocate from the first segment. The pages are found by their root page all the
  same; the separation of the levels is what is lost.
- `IndexGraph::visible` returns true for every node (`graph.cc:235`, with a TODO), so a
  search returns delete-marked nodes, where `graph.h:342` says that such a node "stops
  being a valid result". Once it hides nodes, the stop condition of the search
  (`layer_ops_impl.h:69`) needs care: a hidden node is a candidate and no result, and
  the search may then stop at one with room left in its results, short of "eligible
  nodes beyond them" (`layer_ops.h:79`). With every node visible that cannot happen,
  which is what `SearchFinds` says.
- A purge that is called again after it freed the lower nodes of a chain meets the
  reference that `drop_node` cleared and returns an error (`get_next_level_node`
  asserts that the reference is valid, `graph.cc:532`): the nodes above stay.

## Left out, and the plan

Left out of the modelled components:

- the segment a store allocates from (`m_segment_index`): pages are drawn from one
  pool, and no property depends on which segment a page is in;
- two calls on one store in one mini-transaction. `ColumnStore` and `StoreLatches` have
  one. `drop_overflow_node` (`graph.cc:426`) updates a record and then purges another,
  so that its purge may ask for the root page with a data page of the same store
  latched, against the order of the latches. It does so only if the page is to be listed
  again, which takes a page that was never on a list, as a listed one keeps its slot
  number: a page of one overflow record;
- which transaction purges: the comparison is in `ColumnStore` (`Purges`), but
  `RecordStore` lets any transaction purge, so the refinement does not see a purge by
  the wrong one;
- slots of a node's list: failures inside `replace_neighbours` and
  `unlink_neighbours`, node references that are used again, so that a stale incoming
  link can name another node (`graph.cc:1103`), and overflow records that a purge by
  another transaction leaves behind;
- whether and when the server calls a purge again that failed or was cut short:
  `IndexStore` allows it at any time and has no property about it;
- `extend_with_neighbours` and the refill with pruned connections, which no caller
  switches on.

Not modelled at all: parsing and printing of vectors and the distance functions
(`vector.cc`, `native_vector.*`: floating point, no state), the page dump tools
(input and output only), the byte layout of pages, and the server's pages, latches,
segments and redo, which are modelled as far as the code uses them.

Next: a slot-level model of the links, with failures inside `replace_neighbours` and
`unlink_neighbours` and node references that are used again, and what of `LinkInv`
remains true when calls fail.
