------------------------------ MODULE IndexStore ------------------------------
(***************************************************************************)
(* The life of an HNSW index store (IndexStore of index/hnsw/storage.cc on *)
(* top of MultiColumnStore of storage/storage.cc): creation, levels made   *)
(* when they are first needed, nodes chained down the levels, the          *)
(* persisted entry point, and a load after a crash between any two         *)
(* mini-transactions.                                                      *)
(*                                                                         *)
(* What is on pages survives a crash, what is in memory does not.  Redo    *)
(* recovers a prefix of the mini-transactions, so that a crash that loses  *)
(* the last of them is the same as an earlier crash.  Links, overflow      *)
(* records and marks are in GraphOperations, and so are the level locks.   *)
(***************************************************************************)
EXTENDS Naturals, Sequences, FiniteSets

CONSTANTS
  Elements,     \* vectors
  Threads,      \* threads of the server
  MaxLevel,     \* S_MAX_LEVEL - 1
  MaxPages,     \* bound on the pages of the index's segments
  RecsPerPage,  \* records of a data page
  Interrupts,   \* calls that may fail or be cut short by a crash
  FreeRec       \* a free record

ASSUME IndexStoreAssumption ==
  /\ MaxLevel \in Nat
  /\ MaxPages \in Nat
  /\ RecsPerPage \in Nat \ {0}
  /\ Interrupts \subseteq {"insert", "remove"}
  /\ FreeRec \notin [owner : Elements, lower : Nat \X Nat]

Levels == 0 .. MaxLevel

\* root_index: two stores of a level, nodes and overflow records.
Primary(l) == 2 * l

Overflow(l) == 2 * l + 1

Stores == 0 .. Overflow(MaxLevel)

INVALID_REF == 0

\* The page of create: root page of the first store, and owner of the segments.
PrimaryRoot == 1

Slots == 1 .. RecsPerPage

\* NID: page and slot of a record.
NoNode == <<INVALID_REF, 0>>

NIDs == ((1 .. MaxPages) \X Slots) \cup {NoNode}

NodeRec == [owner : Elements, lower : NIDs]

\* A page is a root page (root = INVALID_REF) or a data page, which names the
\* root page of its store.
PageType ==
  [root : 0 .. MaxPages, recs : [Slots -> NodeRec \cup {FreeRec}]]

NewPage(r) == [root |-> r, recs |-> [s \in Slots |-> FreeRec]]

VARIABLES
  \* On pages.
  pages,    \* the pages allocated; <<>> when there is no index
  refs,     \* the references to root pages, kept on the first
  meta,     \* the entry point and its level, kept there too
  handle,   \* the key reference a row keeps of its vector
  \* In memory.
  up,       \* m_initialized
  root,     \* m_root_page_ref of each store
  segment,  \* m_primary_root_page_ref of each store
  levels,   \* m_levels, those that have a value
  entry,    \* m_entry_point (the NID) and m_entry_level
  call,     \* the call of each thread
  \* History, which no action reads.
  strayed   \* some remove made a node the entry point that no vector starts at

vars ==
  <<pages, refs, meta, handle, up, root, segment, levels, entry, call, strayed>>

onPages == <<pages, refs, meta, handle, strayed>>

inMemory == <<up, root, segment, levels, entry>>

EntryType == [nid : NIDs, level : Levels]

\* A call inserts or removes e, whose top level is top.  path are the nodes
\* made so far, or met and not yet dropped, top down; excl is new_entry_point,
\* which goes with the graph lock in exclusive mode.
CallType ==
  [op : {"insert", "remove"}, at : {"levels", "down", "nodes", "end"},
   e : Elements, top : Levels, excl : BOOLEAN, path : Seq(NIDs)]

NoCall == [op |-> "idle"]

Busy(t) == call[t].op # "idle"

\* Type correctness.
TypeOK ==
  /\ pages \in Seq(PageType) /\ Len(pages) <= MaxPages
  /\ refs \in [Stores -> 0 .. Len(pages)]
  /\ meta \in EntryType
  /\ handle \in [Elements -> NIDs]
  /\ up \in BOOLEAN
  /\ root \in [Stores -> 0 .. Len(pages)]
  /\ segment \in [Stores -> 0 .. Len(pages)]
  /\ levels \subseteq Levels
  /\ entry \in EntryType
  /\ call \in [Threads -> CallType \cup {NoCall}]
  /\ strayed \in BOOLEAN

NoStores == [i \in Stores |-> INVALID_REF]

NoEntry == [nid |-> NoNode, level |-> 0]

Init ==
  /\ pages = <<>> /\ refs = NoStores /\ meta = NoEntry
  /\ handle = [e \in Elements |-> NoNode]
  /\ up = FALSE /\ root = NoStores /\ segment = NoStores
  /\ levels = {} /\ entry = NoEntry
  /\ call = [t \in Threads |-> NoCall]
  /\ strayed = FALSE

-------------------------------------------------------------------------------
(* Records.                                                                *)

Holds(nid) == nid[1] \in 1 .. Len(pages) /\ pages[nid[1]].recs[nid[2]] # FreeRec

\* The last node of a path and the one above it, which a step reads, are live.
Readable(path) ==
  \A n \in 1 .. Len(path) : n + 1 >= Len(path) => Holds(path[n])

Rec(nid) == pages[nid[1]].recs[nid[2]]

\* A live node of level l, as far as the persisted references tell.
NodeAt(nid, l) == Holds(nid) /\ pages[nid[1]].root = refs[Primary(l)]

Lower(nid) == IF Holds(nid) THEN Rec(nid).lower ELSE NoNode

\* The nodes met on the way down from nid on level l, one level a step.
Descent(nid, l) ==
  LET down[j \in 0 .. l] == IF j = 0 THEN nid ELSE Lower(down[j - 1])
  IN  down

\* nid heads a chain of nodes of one element, one on each level down to 0.
HeadsChain(nid, l) ==
  \A j \in 0 .. l : /\ NodeAt(Descent(nid, l)[j], l - j)
                    /\ Rec(Descent(nid, l)[j]).owner = Rec(nid).owner

\* No node leads down to nid.
IsTop(nid) ==
  \A p \in 1 .. Len(pages), s \in Slots : Lower(<<p, s>>) # nid

\* nid is where a vector starts, which is what insert makes the entry point.
TopOfChain(nid, l) == HeadsChain(nid, l) /\ IsTop(nid)

-------------------------------------------------------------------------------
(* create, drop and load.                                                  *)

\* IndexStore::create: the first root page with room for the references to the
\* others, and the root page of the overflow store of level 0.  The statement
\* that creates the index is undone as a whole when it fails.
Create ==
  /\ pages = <<>> /\ MaxPages >= 2
  /\ pages' = <<NewPage(INVALID_REF), NewPage(INVALID_REF)>>
  /\ refs' = [NoStores EXCEPT ![0] = PrimaryRoot, ![1] = 2]
  /\ meta' = NoEntry
  /\ up' = TRUE
  /\ root' = refs'
  /\ segment' = [NoStores EXCEPT ![0] = PrimaryRoot, ![1] = PrimaryRoot]
  /\ levels' = {0}
  /\ entry' = NoEntry
  /\ strayed' = FALSE
  /\ UNCHANGED <<handle, call>>

\* IndexStore::drop: all pages go with their segments, and the rows' references
\* with the index.
Drop ==
  /\ up /\ \A t \in Threads : ~Busy(t)
  /\ pages' = <<>> /\ refs' = NoStores /\ meta' = NoEntry
  /\ handle' = [e \in Elements |-> NoNode]
  /\ up' = FALSE /\ root' = NoStores /\ segment' = NoStores
  /\ levels' = {} /\ entry' = NoEntry
  /\ strayed' = FALSE
  /\ UNCHANGED call

\* The server stops.  A call that is not in Interrupts is waited for.
Crash ==
  /\ up
  /\ \A t \in Threads : Busy(t) => call[t].op \in Interrupts
  /\ up' = FALSE /\ root' = NoStores /\ segment' = NoStores
  /\ levels' = {} /\ entry' = NoEntry
  /\ call' = [t \in Threads |-> NoCall]
  /\ UNCHANGED onPages

\* The levels below the first one that lacks a root page.
BuiltLevels(r) ==
  {l \in Levels : \A k \in 0 .. l : /\ r[Primary(k)] # INVALID_REF
                                    /\ r[Overflow(k)] # INVALID_REF}

\* Mutant: only the first store learns where the segments are.
LoadStoresPrimaryOnly ==
  /\ root' = refs
  /\ segment' = [NoStores EXCEPT ![0] = PrimaryRoot]

\* MultiColumnStore::load: the stores that have a root page.
LoadStores ==
  /\ root' = refs
  /\ segment' = [i \in Stores |->
                   IF refs[i] = INVALID_REF THEN INVALID_REF ELSE PrimaryRoot]

\* The level of the entry point is there and its record is in use.
EntryPointFound ==
  meta.nid # NoNode => meta.level \in BuiltLevels(refs) /\ Holds(meta.nid)

\* IndexStore::load.
Load ==
  /\ ~up /\ pages # <<>>
  /\ LoadStores
  /\ levels' = BuiltLevels(refs)
  /\ entry' = meta
  /\ EntryPointFound
  /\ up' = TRUE
  /\ UNCHANGED <<onPages, call>>

\* Its error return: the index stays closed, and a later load fails again.
LoadFails ==
  /\ ~up /\ pages # <<>>
  /\ ~EntryPointFound
  /\ UNCHANGED vars

-------------------------------------------------------------------------------
(* insert.                                                                 *)

\* Mutant: calls do not take the graph lock.
MayBeginUnlocked(t, excl) == up /\ ~Busy(t)

\* The graph lock, shared or exclusive, held until the call returns.
MayBegin(t, excl) ==
  up /\ ~Busy(t)
  /\ \A u \in Threads : Busy(u) => ~excl /\ ~call[u].excl

InCall(e) == \E t \in Threads : Busy(t) /\ call[t].e = e

InsertCall(t, e, l) ==
  LET newEntry == entry.nid = NoNode \/ l > entry.level
  IN  /\ MayBegin(t, newEntry)
      /\ handle[e] = NoNode /\ ~InCall(e)
      /\ call' = [call EXCEPT ![t] =
                    [op |-> "insert", at |-> "levels", e |-> e, top |-> l,
                     excl |-> newEntry, path |-> <<>>]]
      /\ UNCHANGED <<onPages, inMemory>>

\* Mutant: a half is missing as long as its level is.
MissingWithLevel(l) ==
  {i \in Stores : /\ i \div 2 \in (entry.level + 1) .. l
                  /\ i \div 2 \notin levels}

\* The halves ensure_levels(l) has still to make.
Missing(l) ==
  {i \in Stores : /\ i \div 2 \in (entry.level + 1) .. l
                  /\ root[i] = INVALID_REF}

\* Mutant: the reference is written, and the page allocated later.
EnsureHalfEarly(t) ==
  /\ Busy(t) /\ call[t].at = "levels"
  /\ Len(pages) < MaxPages
  /\ \E i \in Missing(call[t].top) :
       /\ refs' = [refs EXCEPT ![i] = Len(pages) + 1]
       /\ root' = [root EXCEPT ![i] = Len(pages) + 1]
       /\ segment' = [segment EXCEPT ![i] = PrimaryRoot]
  /\ UNCHANGED <<pages, meta, handle, strayed, up, levels, entry, call>>

\* init_root_page for the next missing half, in a mini-transaction of its own.
EnsureHalf(t) ==
  /\ Busy(t) /\ call[t].at = "levels"
  /\ Len(pages) < MaxPages
  /\ \E i \in Missing(call[t].top) :
       /\ \A j \in Missing(call[t].top) : i <= j
       /\ pages' = Append(pages, NewPage(INVALID_REF))
       /\ refs' = [refs EXCEPT ![i] = Len(pages) + 1]
       /\ root' = [root EXCEPT ![i] = Len(pages) + 1]
       /\ segment' = [segment EXCEPT ![i] = PrimaryRoot]
       /\ levels' = levels \cup {l \in Levels : entry.level < l /\ Overflow(l) <= i}
  /\ UNCHANGED <<meta, handle, strayed, up, entry, call>>

EnsureDone(t) ==
  /\ Busy(t) /\ call[t].at = "levels"
  /\ Missing(call[t].top) = {}
  /\ levels' = levels \cup ((entry.level + 1) .. call[t].top)
  /\ call' = [call EXCEPT ![t].at = "nodes"]
  /\ UNCHANGED <<onPages, up, root, segment, entry>>

\* ColumnStore::insert in store i: a record on a page of the store, or on a new
\* page from the segments, which it needs the first root page for.
Places(i) ==
  {nid \in (1 .. Len(pages)) \X Slots :
     pages[nid[1]].root = root[i] /\ pages[nid[1]].recs[nid[2]] = FreeRec}

NewPlaces(i) ==
  IF Len(pages) < MaxPages /\ segment[i] = PrimaryRoot
  THEN {<<Len(pages) + 1, 1>>}
  ELSE {}

WithPage(nid, i) ==
  IF nid[1] > Len(pages) THEN Append(pages, NewPage(root[i])) ELSE pages

\* The record of a new node; the node above is told of it.
Write(ps, nid, rec) == [ps EXCEPT ![nid[1]].recs[nid[2]] = rec]

\* Mutant: the node above is not told.
LinkDownNot(ps, path, nid) == ps

LinkDown(ps, path, nid) ==
  IF path = <<>> THEN ps
  ELSE LET parent == path[Len(path)]
       IN  [ps EXCEPT ![parent[1]].recs[parent[2]].lower = nid]

\* ColumnStore::update_metadata: the header of the first root page.
UpdateMetadata(m) == meta' = m

\* set_entry_point: on the page, then in memory.
SetEntryPoint(nid, l) ==
  /\ UpdateMetadata([nid |-> nid, level |-> l])
  /\ entry' = meta'

\* create_node on the next level down, in one mini-transaction.
NewNode(t, nid) ==
  LET c == call[t]
      i == Primary(c.top - Len(c.path))
  IN  /\ c.op = "insert" /\ c.at = "nodes"
      /\ c.path # <<>> => Holds(c.path[Len(c.path)])
      /\ nid \in Places(i) \cup NewPlaces(i)
      /\ pages' = LinkDown(Write(WithPage(nid, i), nid,
                                 [owner |-> c.e, lower |-> NoNode]),
                           c.path, nid)
      /\ call' = [call EXCEPT ![t].path = Append(@, nid),
                              ![t].at = IF i = Primary(0) THEN "end" ELSE @]

\* Mutant: a new entry point is set with its first node.
CreateNodeEntering(t) ==
  /\ \E nid \in (1 .. MaxPages) \X Slots :
       /\ NewNode(t, nid)
       /\ IF call[t].excl /\ call[t].path = <<>>
          THEN SetEntryPoint(nid, call[t].top)
          ELSE UNCHANGED <<meta, entry>>
  /\ UNCHANGED <<refs, handle, strayed, up, root, segment, levels>>

CreateNode(t) ==
  /\ \E nid \in (1 .. MaxPages) \X Slots : NewNode(t, nid)
  /\ UNCHANGED <<refs, meta, handle, strayed, inMemory>>

InsertEntryPoint(t) ==
  /\ call[t].op = "insert" /\ call[t].at = "end" /\ call[t].excl
  /\ SetEntryPoint(call[t].path[1], call[t].top)
  /\ call' = [call EXCEPT ![t].excl = FALSE]
  /\ UNCHANGED <<pages, refs, handle, strayed, up, root, segment, levels>>

\* Mutant: the node of level 0 is returned.
InsertReturnBottom(t) ==
  /\ call[t].op = "insert" /\ call[t].at = "end" /\ ~call[t].excl
  /\ handle' = [handle EXCEPT ![call[t].e] = call[t].path[Len(call[t].path)]]
  /\ call' = [call EXCEPT ![t] = NoCall]
  /\ UNCHANGED <<pages, refs, meta, strayed, inMemory>>

InsertReturn(t) ==
  /\ call[t].op = "insert" /\ call[t].at = "end" /\ ~call[t].excl
  /\ handle' = [handle EXCEPT ![call[t].e] = call[t].path[1]]
  /\ call' = [call EXCEPT ![t] = NoCall]
  /\ UNCHANGED <<pages, refs, meta, strayed, inMemory>>

-------------------------------------------------------------------------------
(* purge, and remove.                                                      *)

\* get_root_index: the store whose root page the page of nid names.
RootIndex(nid) == {i \in Stores : root[i] = pages[nid[1]].root}

\* locate, of a node record: the level of its store.
Locate(nid) == {l \in levels : Primary(l) \in RootIndex(nid)}

\* purge: locate and resolve_owner.
RemoveCall(t, e) ==
  /\ handle[e] # NoNode /\ ~InCall(e)
  /\ Holds(handle[e])
  /\ \E l \in Locate(handle[e]) :
       LET newEntry == entry = [nid |-> handle[e], level |-> l]
       IN  /\ MayBegin(t, newEntry)
           /\ call' = [call EXCEPT ![t] =
                 [op |-> "remove", at |-> IF l = 0 THEN "nodes" ELSE "down",
                  e |-> e, top |-> l, excl |-> newEntry,
                  path |-> <<handle[e]>>]]
  /\ UNCHANGED <<onPages, inMemory>>

\* Phase 1 goes on to the next level.
RemoveDescend(t) ==
  LET c == call[t]
      nid == c.path[Len(c.path)]
  IN  /\ c.op = "remove" /\ c.at = "down"
      /\ Holds(nid)
      /\ call' = [call EXCEPT ![t].path = Append(@, Lower(nid)),
                              ![t].at = IF Len(c.path) = c.top THEN "nodes"
                                                               ELSE @]
      /\ UNCHANGED <<onPages, inMemory>>

\* drop_node, bottom up: the node above forgets the node, whose record is purged
\* unless it is another element's by now.
RemoveDrop(t) ==
  LET c == call[t]
      nid == c.path[Len(c.path)]
      above == SubSeq(c.path, 1, Len(c.path) - 1)
      rec == IF Rec(nid).owner = c.e THEN FreeRec ELSE Rec(nid)
  IN  /\ c.op = "remove" /\ c.at = "nodes"
      /\ Readable(c.path)
      /\ pages' = Write(LinkDown(pages, above, NoNode), nid, rec)
      /\ call' = [call EXCEPT ![t].path = above,
                              ![t].at = IF above = <<>> THEN "end" ELSE @]
      /\ UNCHANGED <<refs, meta, handle, strayed, inMemory>>

\* The replacement of the entry point is a neighbour on the highest level that
\* has one, a live node since its record was read to sever the link; which one
\* that is, and whether there is any, is a matter of links.  Nothing makes it
\* the top node of its vector.
RemoveEntryPoint(t) ==
  /\ call[t].op = "remove" /\ call[t].at = "end" /\ call[t].excl
  /\ \/ SetEntryPoint(NoNode, 0) /\ UNCHANGED strayed
     \/ \E p \in 1 .. Len(pages), s \in Slots, l \in 0 .. call[t].top :
          /\ NodeAt(<<p, s>>, l)
          /\ SetEntryPoint(<<p, s>>, l)
          /\ strayed' = (strayed \/ ~TopOfChain(<<p, s>>, l))
  /\ call' = [call EXCEPT ![t].excl = FALSE]
  /\ UNCHANGED <<pages, refs, handle, up, root, segment, levels>>

RemoveReturn(t) ==
  /\ call[t].op = "remove" /\ call[t].at = "end" /\ ~call[t].excl
  /\ handle' = [handle EXCEPT ![call[t].e] = NoNode]
  /\ call' = [call EXCEPT ![t] = NoCall]
  /\ UNCHANGED <<pages, refs, meta, strayed, inMemory>>

\* An error return; there is no other way on when a record of the path is free.
Fail(t) ==
  /\ Busy(t)
  /\ call[t].op \in Interrupts \/ ~Readable(call[t].path)
  /\ call' = [call EXCEPT ![t] = NoCall]
  /\ UNCHANGED <<onPages, inMemory>>

Next ==
  \/ Create \/ Drop \/ Crash \/ Load \/ LoadFails
  \/ \E t \in Threads :
       \/ \E e \in Elements, l \in Levels : InsertCall(t, e, l)
       \/ EnsureHalf(t) \/ EnsureDone(t) \/ CreateNode(t)
       \/ InsertEntryPoint(t) \/ InsertReturn(t)
       \/ \E e \in Elements : RemoveCall(t, e)
       \/ RemoveDescend(t) \/ RemoveDrop(t) \/ RemoveEntryPoint(t) \/ RemoveReturn(t)
       \/ Fail(t)

Spec == Init /\ [][Next]_vars

-------------------------------------------------------------------------------
(* Properties.                                                             *)

\* No root page is lost: every root page belongs to exactly one store, also of
\* a level that was made in part, by a call that failed or before a crash, and
\* every data page names one of them.  ("Re-running init_root_page() for a half
\* that exists would ... overwrite the stored ref".)
RootsReferenced ==
  pages # <<>> =>
    /\ \A i, j \in Stores : refs[i] = refs[j] /\ refs[i] # INVALID_REF => i = j
    /\ \A p \in 1 .. Len(pages) :
         LET r == IF pages[p].root = INVALID_REF THEN p ELSE pages[p].root
         IN  r \in {refs[i] : i \in Stores}

\* Memory tells what the pages tell, however it came about: the root pages, the
\* page that owns the segments for every store that has a root page, levels
\* with both halves only, and all of them up to the entry point's.
StoresRestored ==
  up => /\ root = refs
        /\ \A i \in Stores :
             refs[i] # INVALID_REF => segment[i] = PrimaryRoot
        /\ levels \subseteq BuiltLevels(refs)
        /\ 0 .. entry.level \subseteq levels

\* The key reference of a row locates the top node of the row's vector, which
\* leads down to level 0: what mark_delete and purge rely on, also for a row
\* inserted before a crash.
HandlesLocated ==
  \A e \in Elements :
    handle[e] # NoNode /\ ~InCall(e) =>
      /\ \E l \in Levels : HeadsChain(handle[e], l)
      /\ IsTop(handle[e]) /\ Rec(handle[e]).owner = e

\* Whoever takes the graph lock finds an entry point that is the persisted one.
\* It leads down to level 0, as long as every remove of an entry point put the
\* top node of a vector in its place.  (After any other choice it need not: the
\* removal of that vector does not know that it removes the entry point.)
EntryPointLive ==
  up /\ (\A t \in Threads : Busy(t) => ~call[t].excl) =>
    /\ entry = meta
    /\ ~strayed /\ entry.nid # NoNode => HeadsChain(entry.nid, entry.level)

\* "HNSW index storage and metadata survive a restart": whenever the server
\* stops, load finds the entry point's level, and its record with a way down to
\* level 0 as long as every remove of an entry point put the top node of a
\* vector in its place.
Loadable ==
  ~up /\ pages # <<>> /\ meta.nid # NoNode =>
    /\ meta.level \in BuiltLevels(refs)
    /\ ~strayed => HeadsChain(meta.nid, meta.level)
===============================================================================
