------------------------------ MODULE ColumnStore ------------------------------
(***************************************************************************)
(* ColumnStore::insert, fetch, update, mark_delete and purge               *)
(* (storage/storage.cc) run by concurrent threads on one store that owns   *)
(* its segment.                                                            *)
(*                                                                         *)
(* A thread holds page latches inside a mini-transaction; they are dropped *)
(* one by one by Page::release or all together when the caller commits.    *)
(* One action is one stretch of code between two waits for a latch: what   *)
(* it reads and writes is protected by the latches the thread holds, so    *)
(* the stretch is atomic for the other threads.                            *)
(***************************************************************************)
EXTENDS RootPage

CONSTANTS
  Threads,
  Faults      \* TRUE when Page::load may return an error

ASSUME ThreadAssumption ==
  /\ IsFiniteSet(Threads)
  /\ Faults \in BOOLEAN

VARIABLES
  root,       \* the root page
  used,       \* pages allocated from the segment
  pages,      \* the data pages
  held,       \* the latch each thread holds on each page
  counter,    \* m_insert_concurrency_counter
  cache,      \* RootPage::s_last_slot_info of each thread
  pc,         \* where each thread is
  loc         \* the local variables of the call each thread is in

vars == <<root, used, pages, held, counter, cache, pc, loc>>

Latchable == Pages \cup {RootRef}

Refs == Pages \X RecIndexes

\* cache.slot is INVALID_SLOT while the thread's last insert went to another
\* store, whose root page the cached reference then names.
NoCache == [slot |-> INVALID_SLOT, hint |-> 0]

\* loc.page: data_page_ref; loc.grow: need_grow; loc.index: slot_index of a
\* purge; loc.slot: slot_number of a purge.  The rest are arguments.
Locals ==
  [page : Pages \cup {NullRef}, slot : SlotNumbers \cup {INVALID_SLOT},
   grow : BOOLEAN, index : RecIndexes,
   trx : Trx \cup {NullRef}, data : Data \cup {NullRef}]

InsertPcs == {"ins_root_s", "ins_page", "ins_root_x", "ins_head", "ins_load",
              "ins_unlink"}

PurgePcs == {"pur_root", "pur_reload", "pur_slot"}

Pcs == InsertPcs \cup PurgePcs \cup {"idle", "commit"}

\* Type correctness.
TypeOK ==
  /\ root \in RootType
  /\ used \subseteq Pages
  /\ pages \in [Pages -> DataPageType]
  /\ held \in [Threads -> [Latchable -> {"none", "S", "X"}]]
  /\ counter \in Int
  /\ cache \in [Threads -> [slot : SlotNumbers \cup {INVALID_SLOT},
                            hint : RecIndexes]]
  /\ pc \in [Threads -> Pcs]
  /\ loc \in [Threads -> Locals]

NoLocals ==
  [page |-> NullRef, slot |-> INVALID_SLOT, grow |-> FALSE, index |-> 0,
   trx |-> NullRef, data |-> NullRef]

Init ==
  /\ root = FormattedRoot
  /\ used = {}
  /\ pages = [p \in Pages |-> FormattedPage]
  /\ held = [t \in Threads |-> [q \in Latchable |-> "none"]]
  /\ counter = 0
  /\ cache = [t \in Threads |-> NoCache]
  /\ pc = [t \in Threads |-> "idle"]
  /\ loc = [t \in Threads |-> NoLocals]

-------------------------------------------------------------------------------
(* Latches.                                                                *)

\* The latches the next step of thread t asks for, by mode.
WantsShared(t) == IF pc[t] = "ins_root_s" THEN {RootRef} ELSE {}

WantsExclusive(t) ==
  CASE pc[t] \in {"ins_root_x", "pur_root"} -> {RootRef}
    [] pc[t] \in {"ins_page", "ins_load", "pur_reload"} -> {loc[t].page}
    [] pc[t] = "ins_head" -> {root.dataHead} \cap Pages
    [] pc[t] = "ins_unlink" -> {pages[loc[t].page].prevFree,
                                pages[loc[t].page].nextFree} \cap Pages
    [] pc[t] = "pur_slot" -> {root.head[loc[t].slot]} \cap Pages
    [] OTHER -> {}

SharedFree(t, q) == \A u \in Threads \ {t} : held[u][q] # "X"

ExclusiveFree(t, q) == \A u \in Threads \ {t} : held[u][q] = "none"

Granted(t) ==
  /\ \A q \in WantsShared(t) : SharedFree(t, q)
  /\ \A q \in WantsExclusive(t) : ExclusiveFree(t, q)

\* t's latches after the step: exclusive on the set xs, shared on ss.
Hold(t, xs, ss) ==
  held' = [held EXCEPT ![t] = [q \in Latchable |->
             IF q \in xs THEN "X" ELSE IF q \in ss THEN "S" ELSE "none"]]

At(t, label) == pc[t] = label /\ Granted(t)

Goto(t, label) == pc' = [pc EXCEPT ![t] = label]

\* The call returns; its latches stay until the caller commits.
Return(t) ==
  /\ Goto(t, "commit")
  /\ loc' = [loc EXCEPT ![t] = NoLocals]

\* ConcurrencyGuard's destructor.
LeaveInsert == counter' = counter - 1

-------------------------------------------------------------------------------
(* ColumnStore::insert.                                                    *)

\* Entry: the concurrency guard counts the call.
InsertCall(t, trx, data) ==
  /\ pc[t] = "idle"
  /\ counter' = counter + 1
  /\ loc' = [loc EXCEPT ![t] = [NoLocals EXCEPT !.trx = trx, !.data = data]]
  /\ Goto(t, "ins_root_s")
  /\ UNCHANGED <<root, used, pages, held, cache>>

\* RootPage::page_select: the cached slot while it is in range, else any
\* slot, which then becomes the cached one with the hint at the beginning.
SelectableSlots(t, r) ==
  IF cache[t].slot < r.cur THEN {cache[t].slot} ELSE 0 .. (r.cur - 1)

CacheOn(t, k) ==
  IF cache[t].slot = k THEN cache[t] ELSE [slot |-> k, hint |-> 0]

\* Steps 2 to 4: select a page under the shared root latch.  The optimistic
\* path keeps the latch; growing or allocating drops it.
InsertSelect(t) ==
  /\ At(t, "ins_root_s")
  /\ \E k \in SelectableSlots(t, root) :
       LET grow == counter > root.cur /\ root.cur < MaxSlots
           go   == ~grow /\ root.head[k] # NullRef
       IN  /\ cache' = [cache EXCEPT ![t] = CacheOn(t, k)]
           /\ loc' = [loc EXCEPT ![t] =
                        [@ EXCEPT !.page = IF go THEN root.head[k] ELSE NullRef,
                                  !.grow = grow]]
           /\ Goto(t, IF go THEN "ins_page" ELSE "ins_root_x")
           /\ Hold(t, {}, IF go THEN {RootRef} ELSE {})
  /\ UNCHANGED <<root, used, pages, counter>>

\* Step 7: DataPage::insert into page p of ps, with t's hint h.
InsertInto(t, ps, p, h) ==
  LET i == FindFreeSlot(ps[p], h)
  IN  /\ pages' = [ps EXCEPT ![p] =
                     InsertRecord(@, i, loc[t].trx, loc[t].data)]
      /\ cache' = [cache EXCEPT ![t] = [@ EXCEPT !.hint = NextHint(i)]]
      /\ LeaveInsert
      /\ Return(t)

\* Step 4a with more than one free record left, then steps 6 and 7.
InsertOptimistic(t) ==
  /\ At(t, "ins_page")
  /\ ~HasLastFreeSlot(pages[loc[t].page])
  /\ InsertInto(t, pages, loc[t].page, cache[t].hint)
  /\ Hold(t, {loc[t].page}, {})
  /\ UNCHANGED <<root, used>>

\* Step 4b: the page is about to fill up, so both latches are dropped.
InsertFallBack(t) ==
  /\ At(t, "ins_page")
  /\ HasLastFreeSlot(pages[loc[t].page])
  /\ loc' = [loc EXCEPT ![t] = [@ EXCEPT !.page = NullRef]]
  /\ Goto(t, "ins_root_x")
  /\ Hold(t, {}, {})
  /\ UNCHANGED <<root, used, pages, counter, cache>>

\* Step 5 up to the choice: root exclusive, grow, select again.
PessimisticRoot(t) == IF loc[t].grow THEN GrowFreeSlots(root) ELSE root

\* Step 5 when the slot has a page: wait for it under the root latch.
InsertSelectAgain(t) ==
  /\ At(t, "ins_root_x")
  /\ root' = PessimisticRoot(t)
  /\ \E k \in SelectableSlots(t, root') :
       /\ root'.head[k] # NullRef
       /\ cache' = [cache EXCEPT ![t] = CacheOn(t, k)]
       /\ loc' = [loc EXCEPT ![t] = [@ EXCEPT !.page = root'.head[k],
                                              !.grow = FALSE]]
  /\ Goto(t, "ins_load")
  /\ Hold(t, {RootRef}, {})
  /\ UNCHANGED <<used, pages, counter>>

\* Step 5 when the slot is empty: allocate a page and format it.
InsertAllocate(t) ==
  /\ At(t, "ins_root_x")
  /\ root' = PessimisticRoot(t)
  /\ \E k \in SelectableSlots(t, root'), p \in Pages \ used :
       /\ root'.head[k] = NullRef
       /\ cache' = [cache EXCEPT ![t] = CacheOn(t, k)]
       /\ loc' = [loc EXCEPT ![t] = [@ EXCEPT !.page = p, !.grow = FALSE]]
       /\ used' = used \cup {p}
       /\ pages' = [pages EXCEPT ![p] = FormattedPage]
       /\ Hold(t, {RootRef, p}, {})
  /\ Goto(t, "ins_head")
  /\ UNCHANGED counter

\* The segment has no page left: load_new fails and the insert with it.
InsertNoSpace(t) ==
  /\ At(t, "ins_root_x")
  /\ used = Pages
  /\ root' = PessimisticRoot(t)
  /\ \E k \in SelectableSlots(t, root') :
       /\ root'.head[k] = NullRef
       /\ cache' = [cache EXCEPT ![t] = CacheOn(t, k)]
  /\ LeaveInsert
  /\ Return(t)
  /\ Hold(t, {RootRef}, {})
  /\ UNCHANGED <<used, pages>>

\* add_data_page with the old head latched, add_free_page unless the page
\* holds a single record, and the insert.
InsertNewPage(t) ==
  LET p  == loc[t].page
      st == AddDataPage(root, pages, p)
      fr == IF HasLastFreeSlot(pages[p]) THEN st
            ELSE AddFreePage(st.root, st.pages, p, cache[t].slot)
  IN  /\ At(t, "ins_head")
      /\ root' = fr.root
      /\ InsertInto(t, fr.pages, p, cache[t].hint)
      /\ Hold(t, {RootRef, p} \cup ({root.dataHead} \cap Pages), {})
      /\ UNCHANGED used

\* The page was loaded under the exclusive root latch and has room to spare.
InsertLoaded(t) ==
  /\ At(t, "ins_load")
  /\ ~HasLastFreeSlot(pages[loc[t].page])
  /\ InsertInto(t, pages, loc[t].page, cache[t].hint)
  /\ Hold(t, {RootRef, loc[t].page}, {})
  /\ UNCHANGED <<root, used>>

\* Mutant: start over instead of unlinking the page.
LoadedLastRetries(t) ==
  /\ At(t, "ins_load")
  /\ HasLastFreeSlot(pages[loc[t].page])
  /\ Goto(t, "ins_root_x")
  /\ Hold(t, {}, {})
  /\ UNCHANGED <<root, used, pages, counter, cache, loc>>

\* It has its last free record: it must leave the free list first.
InsertLoadedLast(t) ==
  /\ At(t, "ins_load")
  /\ HasLastFreeSlot(pages[loc[t].page])
  /\ Goto(t, "ins_unlink")
  /\ Hold(t, {RootRef, loc[t].page}, {})
  /\ UNCHANGED <<root, used, pages, counter, cache, loc>>

\* Mutant: the neighbours on the list are not latched.
UnlinkWithoutNeighbours(t) ==
  LET p  == loc[t].page
      st == RemoveFreePage(root, pages, p)
  IN  /\ At(t, "ins_unlink")
      /\ root' = st.root
      /\ InsertInto(t, st.pages, p, cache[t].hint)
      /\ Hold(t, {RootRef, p}, {})
      /\ UNCHANGED used

\* remove_free_page with its neighbours latched, and the insert.
InsertUnlink(t) ==
  LET p  == loc[t].page
      st == RemoveFreePage(root, pages, p)
  IN  /\ At(t, "ins_unlink")
      /\ root' = st.root
      /\ InsertInto(t, st.pages, p, cache[t].hint)
      /\ Hold(t, {RootRef, p} \cup WantsExclusive(t), {})
      /\ UNCHANGED used

-------------------------------------------------------------------------------
(* ColumnStore::purge.                                                     *)

\* Steps 1 to 6 when the page needs no free-list change.
PurgeInPlace(t, p, i, trx) ==
  /\ pc[t] = "idle"
  /\ p \in used
  /\ ExclusiveFree(t, p)
  /\ ~NeedsAddToFreeList(pages[p], TRUE)
  /\ pages' = IF Purges(pages[p], i, trx)
              THEN [pages EXCEPT ![p] = PurgeRecord(@, i)]
              ELSE pages
  /\ Goto(t, "commit")
  /\ Hold(t, {p}, {})
  /\ UNCHANGED <<root, used, counter, cache, loc>>

\* Mutant: the page latch is kept while the purge waits for the root latch.
PurgeKeepingPage(t, p, i, trx) ==
  /\ pc[t] = "idle"
  /\ p \in used
  /\ ExclusiveFree(t, p)
  /\ NeedsAddToFreeList(pages[p], TRUE)
  /\ loc' = [loc EXCEPT ![t] = [NoLocals EXCEPT !.page = p, !.index = i,
                                                !.trx = trx]]
  /\ Goto(t, "pur_root")
  /\ Hold(t, {p}, {})
  /\ UNCHANGED <<root, used, pages, counter, cache>>

\* Steps 1 to 5 when it does: the page latch is dropped again.
PurgeNeedsRoot(t, p, i, trx) ==
  /\ pc[t] = "idle"
  /\ p \in used
  /\ ExclusiveFree(t, p)
  /\ NeedsAddToFreeList(pages[p], TRUE)
  /\ loc' = [loc EXCEPT ![t] = [NoLocals EXCEPT !.page = p, !.index = i,
                                                !.trx = trx]]
  /\ Goto(t, "pur_root")
  /\ UNCHANGED <<root, used, pages, held, counter, cache>>

\* Step 5: the root latch.
PurgeLatchRoot(t) ==
  /\ At(t, "pur_root")
  /\ Goto(t, "pur_reload")
  /\ Hold(t, {RootRef}, {})
  /\ UNCHANGED <<root, used, pages, counter, cache, loc>>

\* Step 6 on the page latched again, where step 7 finds nothing to do.
PurgeReloaded(t) ==
  LET p   == loc[t].page
      hit == Purges(pages[p], loc[t].index, loc[t].trx)
      pg  == IF hit THEN PurgeRecord(pages[p], loc[t].index) ELSE pages[p]
  IN  /\ At(t, "pur_reload")
      /\ ~(hit /\ NeedsAddToFreeList(pg, FALSE))
      /\ pages' = [pages EXCEPT ![p] = pg]
      /\ Return(t)
      /\ Hold(t, {RootRef, p}, {})
      /\ UNCHANGED <<root, used, counter, cache>>

\* Step 6, and the choice of a slot in step 7.
PurgeReloadedRelist(t) ==
  LET p  == loc[t].page
      pg == PurgeRecord(pages[p], loc[t].index)
  IN  /\ At(t, "pur_reload")
      /\ Purges(pages[p], loc[t].index, loc[t].trx)
      /\ NeedsAddToFreeList(pg, FALSE)
      /\ pages' = [pages EXCEPT ![p] = pg]
      /\ \E k \in GetFreeSlot(root) :
           loc' = [loc EXCEPT ![t] = [@ EXCEPT !.slot = k]]
      /\ Goto(t, "pur_slot")
      /\ Hold(t, {RootRef, p}, {})
      /\ UNCHANGED <<root, used, counter, cache>>

\* Step 7: add_free_page with the head of the slot's list latched.
PurgeRelist(t) ==
  LET p  == loc[t].page
      st == AddFreePage(root, pages, p, loc[t].slot)
  IN  /\ At(t, "pur_slot")
      /\ root' = st.root
      /\ pages' = st.pages
      /\ Return(t)
      /\ Hold(t, {RootRef, p} \cup WantsExclusive(t), {})
      /\ UNCHANGED <<used, counter, cache>>

-------------------------------------------------------------------------------
(* The calls that touch one record under one page latch.                   *)

\* The caller marks records that exist and are not marked, and unmarks
\* marked ones (or re-attempts it with the same transaction): the
\* assertions of set_record_delete and set_record_undelete.
MarkDelete(t, p, i, trx, mark) ==
  LET rec == pages[p].recs[i]
  IN  /\ pc[t] = "idle"
      /\ p \in used
      /\ ExclusiveFree(t, p)
      /\ rec # FreeRec
      /\ IF mark THEN ~rec.marked ELSE rec.marked \/ rec.trx = trx
      /\ pages' = [pages EXCEPT ![p] = MarkRecord(@, i, trx, mark)]
      /\ Goto(t, "commit")
      /\ Hold(t, {p}, {})
      /\ UNCHANGED <<root, used, counter, cache, loc>>

\* ColumnStore::update refuses a free record and ignores the delete mark.
Update(t, p, i, data) ==
  /\ pc[t] = "idle"
  /\ p \in used
  /\ ExclusiveFree(t, p)
  /\ pages' = IF pages[p].recs[i] = FreeRec THEN pages
              ELSE [pages EXCEPT ![p].recs[i].data = data]
  /\ Goto(t, "commit")
  /\ Hold(t, {p}, {})
  /\ UNCHANGED <<root, used, counter, cache, loc>>

\* ColumnStore::fetch, whose pointer into the page is good until the commit.
Fetch(t, p) ==
  /\ pc[t] = "idle"
  /\ p \in used
  /\ SharedFree(t, p)
  /\ Goto(t, "commit")
  /\ Hold(t, {}, {p})
  /\ UNCHANGED <<root, used, pages, counter, cache, loc>>

\* fetch with for_update set, for a caller that goes on to update.
FetchForUpdate(t, p) ==
  /\ pc[t] = "idle"
  /\ p \in used
  /\ ExclusiveFree(t, p)
  /\ Goto(t, "commit")
  /\ Hold(t, {p}, {})
  /\ UNCHANGED <<root, used, pages, counter, cache, loc>>

-------------------------------------------------------------------------------
(* The callers.                                                            *)

\* The caller commits the mini-transaction of the call.
Commit(t) ==
  /\ pc[t] = "commit"
  /\ Goto(t, "idle")
  /\ Hold(t, {}, {})
  /\ UNCHANGED <<root, used, pages, counter, cache, loc>>

\* The thread inserts into another store, which takes over its
\* s_last_slot_info.
InsertElsewhere(t) ==
  /\ pc[t] = "idle"
  /\ cache[t] # NoCache
  /\ cache' = [cache EXCEPT ![t] = NoCache]
  /\ UNCHANGED <<root, used, pages, held, counter, pc, loc>>

\* The load a thread waits for fails: the call returns an error and leaves
\* what it has written.
LoadFails(t) ==
  /\ Faults
  /\ pc[t] \in InsertPcs \cup PurgePcs
  /\ WantsShared(t) \cup WantsExclusive(t) # {}
  /\ counter' = IF pc[t] \in InsertPcs THEN counter - 1 ELSE counter
  /\ Return(t)
  /\ UNCHANGED <<root, used, pages, held, cache>>

InsertStep(t) ==
  \/ InsertSelect(t)
  \/ InsertOptimistic(t)
  \/ InsertFallBack(t)
  \/ InsertSelectAgain(t)
  \/ InsertAllocate(t)
  \/ InsertNoSpace(t)
  \/ InsertNewPage(t)
  \/ InsertLoaded(t)
  \/ InsertLoadedLast(t)
  \/ InsertUnlink(t)

PurgeStep(t) ==
  \/ PurgeLatchRoot(t)
  \/ PurgeReloaded(t)
  \/ PurgeReloadedRelist(t)
  \/ PurgeRelist(t)

Next ==
  \E t \in Threads :
    \/ \E trx \in Trx, data \in Data : InsertCall(t, trx, data)
    \/ InsertStep(t)
    \/ \E p \in Pages, i \in RecIndexes, trx \in Trx :
         \/ PurgeInPlace(t, p, i, trx)
         \/ PurgeNeedsRoot(t, p, i, trx)
         \/ \E mark \in BOOLEAN : MarkDelete(t, p, i, trx, mark)
    \/ \E p \in Pages, i \in RecIndexes, data \in Data : Update(t, p, i, data)
    \/ \E p \in Pages : Fetch(t, p) \/ FetchForUpdate(t, p)
    \/ PurgeStep(t)
    \/ Commit(t)
    \/ InsertElsewhere(t)
    \/ LoadFails(t)

Spec == Init /\ [][Next]_vars

\* A waiting thread is not overtaken for ever (the page latches queue their
\* waiters), and callers commit.
Fairness ==
  \A t \in Threads : SF_vars(InsertStep(t) \/ PurgeStep(t)) /\ WF_vars(Commit(t))

FairSpec == Spec /\ Fairness

-------------------------------------------------------------------------------
(* Properties.                                                             *)

OnFreeList(p) == pages[p].prevFree # NullRef

\* Each slot's list is doubly linked, headed by the root page, and every
\* page on it carries that slot's number; no page is on two lists.  This is
\* what add_free_page and remove_free_page assert about the pages they load.
FreeListsLinked ==
  /\ \A k \in 0 .. (root.cur - 1) :
       root.head[k] # NullRef =>
         /\ pages[root.head[k]].prevFree = RootRef
         /\ pages[root.head[k]].slot = k
  /\ \A p \in Pages :
       /\ ~OnFreeList(p) => pages[p].nextFree = NullRef
       /\ OnFreeList(p) => /\ p \in used
                           /\ pages[p].slot < root.cur
       /\ pages[p].prevFree = RootRef => root.head[pages[p].slot] = p
       /\ pages[p].prevFree \in Pages =>
            /\ pages[pages[p].prevFree].nextFree = p
            /\ pages[pages[p].prevFree].slot = pages[p].slot
       /\ pages[p].nextFree \in Pages =>
            /\ pages[pages[p].nextFree].prevFree = p
            /\ pages[pages[p].nextFree].slot = pages[p].slot

\* Following a list of pages from first along the links nxt.
Walk(first, nxt) ==
  LET w[n \in 0 .. Cardinality(Pages)] ==
        IF n = 0 THEN first
        ELSE IF w[n - 1] = NullRef THEN NullRef ELSE nxt[w[n - 1]]
  IN  w

PagesOf(walk) == {walk[n] : n \in DOMAIN walk} \ {NullRef}

Ends(walk) == walk[Cardinality(Pages)] = NullRef

\* Every list ends, and together the lists hold exactly the pages that are
\* on a free list; the counter of free pages on the root page is their number.
FreeListsComplete ==
  LET walk(k) == Walk(root.head[k], [p \in Pages |-> pages[p].nextFree])
      slots   == 0 .. (root.cur - 1)
  IN  /\ \A k \in slots : Ends(walk(k))
      /\ UNION {PagesOf(walk(k)) : k \in slots} = {p \in Pages : OnFreeList(p)}
      /\ root.totalFree = Cardinality({p \in Pages : OnFreeList(p)})

\* An insert that finds a page on a free list finds a free record in it, so
\* the optimistic path never meets a full page and the unsigned counter of
\* free records never wraps below zero.
ListedPagesHaveRoom ==
  \A p \in Pages : /\ OnFreeList(p) => pages[p].numFree > 0
                   /\ pages[p].numFree >= 0

\* The free-record counter of a page is the number of its free records,
\* whatever mix of inserts, purges and re-attempted purges ran on it.
FreeCountExact ==
  \A p \in Pages :
    pages[p].numFree = Cardinality({i \in RecIndexes : pages[p].recs[i] = FreeRec})

\* No record is stored past the last record of a page, in the padding of the
\* bitmap: the assertion of DataPage::find_free_slot.
NoRecordInPadding ==
  \A p \in Pages, i \in BitmapPositions \ RecIndexes : pages[p].recs[i] = FreeRec

\* The records callers can reach, as a map from references to records.
LiveRefs ==
  {r \in Pages \X BitmapPositions : pages[r[1]].recs[r[2]] # FreeRec}

LiveRecords == [r \in LiveRefs |-> pages[r[1]].recs[r[2]]]

Promise == INSTANCE RecordStore WITH recs <- LiveRecords

\* The store implements the map it promises: each step of a call is one
\* operation on the map, or invisible to the callers.
ImplementsRecordStore == Promise!Spec

\* The list of all data pages ends at the recorded tail, its backward links
\* mirror it, its length is the recorded total, and every page that holds a
\* record is on it.
DataListComplete ==
  LET listed == PagesOf(Walk(root.dataHead, [p \in Pages |-> pages[p].next]))
  IN  /\ Ends(Walk(root.dataHead, [p \in Pages |-> pages[p].next]))
      /\ root.totalData = Cardinality(listed)
      /\ \A p \in listed :
           /\ (p = root.dataHead) <=> (pages[p].prev = NullRef)
           /\ (p = root.dataTail) <=> (pages[p].next = NullRef)
           /\ p # root.dataHead => pages[pages[p].prev].next = p
      /\ \A p \in Pages :
           (\E i \in BitmapPositions : pages[p].recs[i] # FreeRec) => p \in listed

\* t cannot go on before u drops a latch.
WaitsFor(t, u) ==
  /\ t # u
  /\ \/ \E q \in WantsShared(t) : held[u][q] = "X"
     \/ \E q \in WantsExclusive(t) : held[u][q] # "none"

\* No set of threads waits for latches within the set: root before data
\* pages is an order every call keeps.
NoLatchDeadlock ==
  \A S \in SUBSET Threads :
    S # {} => \E t \in S : \A u \in S : ~WaitsFor(t, u)

\* Page latches exclude one another.
LatchesExclude ==
  \A t, u \in Threads, q \in Latchable :
    t # u /\ held[t][q] = "X" => held[u][q] = "none"

\* A page changes only in the hands of a thread that ends the step with an
\* exclusive latch on it: nobody else saw the intermediate states.
WritesAreLatched ==
  [][/\ \A p \in Pages : pages'[p] # pages[p] =>
          \E t \in Threads : held'[t][p] = "X"
     /\ root' # root => \E t \in Threads : held'[t][RootRef] = "X"]_vars

\* Every call returns.
CallsReturn ==
  \A t \in Threads : (pc[t] \in InsertPcs \cup PurgePcs) ~> (pc[t] = "commit")
===============================================================================
