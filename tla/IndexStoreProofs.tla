--------------------------- MODULE IndexStoreProofs ---------------------------
(***************************************************************************)
(* Proofs about IndexStore for every number of levels, pages, elements and *)
(* threads.  Whatever calls fail or are cut short by a crash: type         *)
(* correctness, that no root page is lost, and that memory agrees with the *)
(* pages after every load.  When removals run to their end: that the rows' *)
(* references and the entry point lead down to level 0, and that the index *)
(* can be loaded.                                                          *)
(***************************************************************************)
EXTENDS IndexStore, SequenceTheorems, FiniteInduction

\* What a call c knows, where u tells whether the index is loaded and ls are its
\* levels: the levels of c are there, and its path is as long as its place in the
\* protocol asks for.
CallOK(c, u, ls) ==
  c.op # "idle" =>
    /\ u
    /\ c.at # "levels" => c.top \in ls
    /\ c.op = "remove" => c.at # "levels"
    /\ c.op = "remove" /\ c.at # "end" => c.path # <<>>
    /\ c.op = "insert" /\ c.at = "levels" => c.path = <<>>
    /\ c.op = "insert" /\ c.at = "nodes" => Len(c.path) <= c.top
    /\ c.op = "insert" /\ c.at = "end" => c.path # <<>>
    /\ c.op = "insert" /\ c.path # <<>> => c.path[1] # NoNode

CallsOK == \A t \in Threads : CallOK(call[t], up, levels)

\* Level 0 is made by create, and levels are made from below.
LevelsOK ==
  /\ up => pages # <<>>
  /\ pages # <<>> => refs[0] = PrimaryRoot /\ refs[1] # INVALID_REF
  /\ meta.nid = NoNode => meta.level = 0
  /\ \A l \in levels : 0 .. l \subseteq levels

IndexInv == TypeOK /\ CallsOK /\ LevelsOK /\ RootsReferenced /\ StoresRestored

-------------------------------------------------------------------------------
(* Stores and levels.                                                      *)

LEMMA StoreOfLevel ==
  ASSUME NEW l \in Levels
  PROVE  /\ Primary(l) \in Stores /\ Overflow(l) \in Stores
         /\ Primary(l) \div 2 = l /\ Overflow(l) \div 2 = l
  BY IndexStoreAssumption DEF Primary, Overflow, Stores, Levels

LEMMA LevelOfStore ==
  ASSUME NEW i \in Stores
  PROVE  /\ i \div 2 \in Levels
         /\ i = Primary(i \div 2) \/ i = Overflow(i \div 2)
  BY IndexStoreAssumption DEF Primary, Overflow, Stores, Levels

LEMMA FirstStores == 0 \in Stores /\ 1 \in Stores /\ 0 \in Levels
  BY IndexStoreAssumption DEF Stores, Overflow, Levels

\* The levels that have both halves are an initial segment.
LEMMA BuiltFromBelow ==
  ASSUME NEW r, NEW l \in BuiltLevels(r)
  PROVE  0 .. l \subseteq BuiltLevels(r)
  BY IndexStoreAssumption DEF BuiltLevels, Levels

\* A root page more does not take a level away.
LEMMA BuiltGrows ==
  ASSUME NEW r, NEW q,
         \A j \in Stores : r[j] # INVALID_REF => q[j] # INVALID_REF
  PROVE  BuiltLevels(r) \subseteq BuiltLevels(q)
  BY StoreOfLevel, IndexStoreAssumption DEF BuiltLevels, Levels

\* The levels whose overflow store is not beyond i have both halves when every
\* store up to i has a root page.
LEMMA BuiltUpTo ==
  ASSUME NEW r, NEW i \in Stores, NEW l \in Levels, Overflow(l) <= i,
         \A j \in Stores : j <= i => r[j] # INVALID_REF
  PROVE  l \in BuiltLevels(r)
<1>1. \A k \in 0 .. l : /\ k \in Levels
                        /\ Primary(k) <= i /\ Overflow(k) <= i
  BY IndexStoreAssumption DEF Levels, Primary, Overflow, Stores
<1> QED
  BY <1>1, StoreOfLevel DEF BuiltLevels

-------------------------------------------------------------------------------
(* Writes to records.                                                      *)

\* ps and qs have the same pages, of the same stores.
SamePages(ps, qs) ==
  Len(ps) = Len(qs) /\ \A p \in 1 .. Len(ps) : ps[p].root = qs[p].root

LEMMA WriteKeeps ==
  ASSUME NEW ps \in Seq(PageType), NEW nid \in (1 .. Len(ps)) \X Slots,
         NEW rec \in NodeRec \cup {FreeRec}
  PROVE  /\ Write(ps, nid, rec) \in Seq(PageType)
         /\ SamePages(Write(ps, nid, rec), ps)
         /\ \A q \in (1 .. Len(ps)) \X Slots :
              q # nid => Write(ps, nid, rec)[q[1]].recs[q[2]]
                           = ps[q[1]].recs[q[2]]
<1> DEFINE pg == [ps[nid[1]] EXCEPT !.recs[nid[2]] = rec]
<1>1. ps[nid[1]] \in PageType
  BY ElementOfSeq
<1>2. /\ pg \in PageType /\ pg.root = ps[nid[1]].root
      /\ \A s \in Slots : s # nid[2] => pg.recs[s] = ps[nid[1]].recs[s]
  BY <1>1 DEF PageType
<1>3. Write(ps, nid, rec) = [ps EXCEPT ![nid[1]] = pg]
  BY DEF Write
<1> HIDE DEF pg
<1>4. nid[1] \in 1 .. Len(ps)
  OBVIOUS
<1>5. /\ Write(ps, nid, rec) \in Seq(PageType)
      /\ Len(Write(ps, nid, rec)) = Len(ps)
      /\ \A j \in 1 .. Len(ps) :
           Write(ps, nid, rec)[j] = IF j = nid[1] THEN pg ELSE ps[j]
  <2>1. /\ [ps EXCEPT ![nid[1]] = pg] \in Seq(PageType)
        /\ Len([ps EXCEPT ![nid[1]] = pg]) = Len(ps)
        /\ \A j \in 1 .. Len(ps) :
             [ps EXCEPT ![nid[1]] = pg][j] = IF j = nid[1] THEN pg ELSE ps[j]
    <3> HIDE DEF PageType
    <3> QED
      BY <1>2, <1>4, ExceptSeq
  <2> QED
    BY <1>3, <2>1, Zenon
<1>6. SamePages(Write(ps, nid, rec), ps)
  BY <1>2, <1>5 DEF SamePages
<1>7. ASSUME NEW q \in (1 .. Len(ps)) \X Slots, q # nid
      PROVE  Write(ps, nid, rec)[q[1]].recs[q[2]] = ps[q[1]].recs[q[2]]
  <2>1. CASE q[1] # nid[1]
    BY <1>5, <2>1
  <2>2. CASE q[1] = nid[1]
    <3>1. q[2] # nid[2]
      BY <1>7, <2>2
    <3> QED
      BY <1>2, <1>5, <2>2, <3>1
  <2> QED
    BY <2>1, <2>2
<1> QED
  BY <1>5, <1>6, <1>7

LEMMA LinkDownKeeps ==
  ASSUME NEW ps \in Seq(PageType), NEW path \in Seq(NIDs), NEW nid \in NIDs,
         path # <<>> => /\ path[Len(path)] \in (1 .. Len(ps)) \X Slots
                        /\ ps[path[Len(path)][1]].recs[path[Len(path)][2]]
                             # FreeRec
  PROVE  /\ LinkDown(ps, path, nid) \in Seq(PageType)
         /\ SamePages(LinkDown(ps, path, nid), ps)
<1>1. CASE path = <<>>
  BY <1>1 DEF LinkDown, SamePages
<1>2. CASE path # <<>>
  <2> DEFINE up1 == path[Len(path)]
             old == ps[up1[1]].recs[up1[2]]
             new == [old EXCEPT !.lower = nid]
  <2>1. up1 \in (1 .. Len(ps)) \X Slots /\ old # FreeRec
    BY <1>2
  <2>2. ps[up1[1]] \in PageType
    BY <2>1, ElementOfSeq
  <2>3. new \in NodeRec
    BY <2>1, <2>2 DEF PageType, NodeRec
  <2>4. LinkDown(ps, path, nid) = Write(ps, up1, new)
    BY <1>2 DEF LinkDown, Write
  <2> HIDE DEF up1, old, new
  <2> QED
    BY <2>1, <2>3, <2>4, WriteKeeps
<1> QED
  BY <1>1, <1>2

-------------------------------------------------------------------------------
(* Steps of one thread.                                                    *)

Pages == <<pages, refs, meta, strayed, up, root, segment, levels, entry>>

\* The calls, after a step of thread t to c.
LEMMA CallStep ==
  ASSUME TypeOK, CallsOK, NEW t \in Threads,
         NEW c \in CallType \cup {NoCall},
         call' = [call EXCEPT ![t] = c],
         CallOK(c, up', levels'),
         up => up', levels \subseteq levels'
  PROVE  CallsOK' /\ call' \in [Threads -> CallType \cup {NoCall}]
<1>1. call' \in [Threads -> CallType \cup {NoCall}]
  BY DEF TypeOK
<1>2. ASSUME NEW w \in Threads
      PROVE  CallOK(call'[w], up', levels')
  <2>1. CASE w = t
    BY <2>1 DEF TypeOK
  <2>2. CASE w # t
    <3>1. call'[w] = call[w] /\ CallOK(call[w], up, levels)
      BY <2>2 DEF TypeOK, CallsOK
    <3> QED
      BY <3>1 DEF CallOK
  <2> QED
    BY <2>1, <2>2
<1> QED
  BY <1>1, <1>2 DEF CallsOK

\* A step that changes a call and a row only.
LEMMA CallFrame ==
  ASSUME IndexInv, NEW t \in Threads, NEW c \in CallType \cup {NoCall},
         call' = [call EXCEPT ![t] = c],
         CallOK(c, up, levels),
         handle' \in [Elements -> NIDs],
         UNCHANGED Pages
  PROVE  IndexInv'
<1>1. CallsOK' /\ call' \in [Threads -> CallType \cup {NoCall}]
  BY CallStep DEF IndexInv, Pages
<1>2. TypeOK'
  BY <1>1 DEF IndexInv, TypeOK, Pages
<1>3. LevelsOK'
  BY DEF IndexInv, LevelsOK, Pages
<1>4. RootsReferenced'
  BY DEF IndexInv, RootsReferenced, Pages
<1>5. StoresRestored'
  BY DEF IndexInv, StoresRestored, Pages
<1> QED
  BY <1>1, <1>2, <1>3, <1>4, <1>5 DEF IndexInv

\* A step that writes records, maybe on a page added to a store of the index.
LEMMA RecordFrame ==
  ASSUME IndexInv, NEW t \in Threads, NEW c \in CallType \cup {NoCall},
         call' = [call EXCEPT ![t] = c],
         CallOK(c, up, levels), up,
         NEW i \in Stores, refs[i] # INVALID_REF,
         NEW qs \in Seq(PageType), qs = pages \/ qs = Append(pages, NewPage(root[i])),
         pages' \in Seq(PageType), SamePages(pages', qs), Len(pages') <= MaxPages,
         UNCHANGED <<refs, meta, strayed, handle, inMemory>>
  PROVE  IndexInv'
<1>1. CallsOK' /\ call' \in [Threads -> CallType \cup {NoCall}]
  BY CallStep DEF IndexInv, inMemory
<1>2. Len(pages) \in Nat /\ Len(pages') >= Len(pages) /\ Len(pages') \in Nat
  BY AppendProperties, LenProperties DEF SamePages, IndexInv, TypeOK
<1>3. TypeOK'
  BY <1>1, <1>2 DEF IndexInv, TypeOK, inMemory
<1>4. LevelsOK'
  <2>1. pages # <<>> /\ pages' # <<>>
    BY <1>2, EmptySeq DEF IndexInv, LevelsOK, TypeOK
  <2> QED
    BY <2>1 DEF IndexInv, LevelsOK, inMemory
<1>5. RootsReferenced'
  <2>1. pages # <<>>
    BY DEF IndexInv, LevelsOK
  <2>2. ASSUME NEW p \in 1 .. Len(pages')
        PROVE  (IF pages'[p].root = INVALID_REF THEN p ELSE pages'[p].root)
                 \in {refs[j] : j \in Stores}
    <3>1. CASE p \in 1 .. Len(pages)
      <4>1. pages'[p].root = pages[p].root
        <5>1. pages \in Seq(PageType)
          BY DEF IndexInv, TypeOK
        <5>2. qs[p] = pages[p]
          <6> HIDE DEF NewPage, PageType
          <6> QED
            BY <3>1, <5>1
        <5> QED
          BY <2>2, <5>2 DEF SamePages
      <4> QED
        BY <2>1, <3>1, <4>1 DEF IndexInv, RootsReferenced
    <3>2. CASE p \notin 1 .. Len(pages)
      <4>1. root[i] = refs[i]
        BY DEF IndexInv, StoresRestored
      <4>2. pages'[p].root = refs[i]
        <5>1. qs = Append(pages, NewPage(root[i])) /\ p = Len(pages) + 1
          BY <1>2, <2>2, <3>2, AppendProperties DEF SamePages, IndexInv, TypeOK
        <5>2. qs[p] = NewPage(root[i])
          BY <5>1, AppendProperties DEF IndexInv, TypeOK
        <5> QED
          BY <2>2, <4>1, <5>2 DEF SamePages, NewPage
      <4> QED
        BY <4>2
    <3> QED
      BY <3>1, <3>2
  <2> QED
    BY <2>1, <2>2 DEF RootsReferenced, IndexInv
<1>6. StoresRestored'
  BY DEF IndexInv, StoresRestored, inMemory
<1> QED
  BY <1>1, <1>3, <1>4, <1>5, <1>6 DEF IndexInv

-------------------------------------------------------------------------------
(* create, drop, crash and load.                                           *)

LEMMA InitInv == Init => IndexInv
<1> SUFFICES ASSUME Init PROVE IndexInv
  OBVIOUS
<1>1. NoEntry \in EntryType /\ NoNode \in NIDs
  BY FirstStores DEF NoEntry, EntryType, NIDs, NoNode, INVALID_REF
<1>2. pages = <<>> /\ pages \in Seq(PageType) /\ Len(pages) = 0
  BY DEF Init
<1>3. TypeOK
  <2>1. /\ refs \in [Stores -> 0 .. Len(pages)]
        /\ root \in [Stores -> 0 .. Len(pages)]
        /\ segment \in [Stores -> 0 .. Len(pages)]
    BY <1>2 DEF Init, NoStores, INVALID_REF
  <2>2. call \in [Threads -> CallType \cup {NoCall}]
    BY DEF Init
  <2>3. Len(pages) <= MaxPages
    BY <1>2, IndexStoreAssumption
  <2>4. up \in BOOLEAN /\ levels \subseteq Levels
    BY DEF Init
  <2> QED
    BY <1>1, <1>2, <2>1, <2>2, <2>3, <2>4 DEF Init, TypeOK
<1>4. CallsOK
  BY DEF Init, CallsOK, CallOK, NoCall
<1>5. LevelsOK /\ RootsReferenced /\ StoresRestored
  BY <1>2 DEF Init, LevelsOK, RootsReferenced, StoresRestored, NoEntry, NoNode
<1> QED
  BY <1>3, <1>4, <1>5 DEF IndexInv

LEMMA CreateInv ==
  ASSUME IndexInv, Create
  PROVE  IndexInv'
<1>1. NoEntry \in EntryType /\ NewPage(INVALID_REF) \in PageType
  BY FirstStores, IndexStoreAssumption
  DEF NoEntry, EntryType, NIDs, NoNode, INVALID_REF, NewPage, PageType
<1>2. /\ pages' = <<NewPage(INVALID_REF), NewPage(INVALID_REF)>>
      /\ pages' \in Seq(PageType) /\ Len(pages') = 2
  <2> HIDE DEF NewPage, PageType
  <2> QED
    BY <1>1 DEF Create
<1>3. /\ refs' \in [Stores -> 0 .. 2] /\ refs'[0] = 1 /\ refs'[1] = 2
      /\ \A i \in Stores : i \notin {0, 1} => refs'[i] = INVALID_REF
      /\ segment' \in [Stores -> 0 .. 2]
      /\ segment'[0] = 1 /\ segment'[1] = 1
  BY FirstStores DEF Create, NoStores, INVALID_REF, PrimaryRoot
<1>4. ~up /\ \A t \in Threads : call[t].op = "idle"
  BY DEF Create, IndexInv, LevelsOK, CallsOK, CallOK
<1>5. TypeOK'
  BY <1>1, <1>2, <1>3, FirstStores DEF IndexInv, TypeOK, Create
<1>6. CallsOK'
  BY <1>4 DEF CallsOK, CallOK, Create
<1>7. LevelsOK'
  <2>1. pages' # <<>>
    BY <1>2, EmptySeq
  <2>2. levels' = {0} /\ meta'.level = 0
    BY DEF Create, NoEntry
  <2> QED
    BY <1>3, <2>1, <2>2 DEF LevelsOK, PrimaryRoot, INVALID_REF
<1>8. RootsReferenced'
  <2>1. \A i, j \in Stores :
          refs'[i] = refs'[j] /\ refs'[i] # INVALID_REF => i = j
    BY <1>3 DEF INVALID_REF
  <2>2. \A p \in 1 .. 2 : pages'[p].root = INVALID_REF
    BY <1>2 DEF NewPage
  <2>3. \A p \in 1 .. 2 : p \in {refs'[i] : i \in Stores}
    BY <1>3, FirstStores
  <2> QED
    BY <1>2, <2>1, <2>2, <2>3 DEF RootsReferenced
<1>9. StoresRestored'
  <2>1. 0 \in BuiltLevels(refs')
    BY <1>3, FirstStores DEF BuiltLevels, Primary, Overflow, INVALID_REF, Levels
  <2> QED
    BY <1>3, <2>1 DEF StoresRestored, Create, NoEntry, PrimaryRoot
<1> QED
  BY <1>5, <1>6, <1>7, <1>8, <1>9 DEF IndexInv

LEMMA DropInv ==
  ASSUME IndexInv, Drop
  PROVE  IndexInv'
<1>1. NoEntry \in EntryType /\ NoNode \in NIDs
  BY FirstStores DEF NoEntry, EntryType, NIDs, NoNode, INVALID_REF
<1>2. pages' = <<>> /\ pages' \in Seq(PageType) /\ Len(pages') = 0
  BY DEF Drop
<1>3. TypeOK'
  <2>1. /\ refs' \in [Stores -> 0 .. Len(pages')]
        /\ root' \in [Stores -> 0 .. Len(pages')]
        /\ segment' \in [Stores -> 0 .. Len(pages')]
    BY <1>2 DEF Drop, NoStores, INVALID_REF
  <2>2. call' \in [Threads -> CallType \cup {NoCall}]
    BY DEF Drop, IndexInv, TypeOK
  <2>3. Len(pages') <= MaxPages
    BY <1>2, IndexStoreAssumption
  <2>4. up' \in BOOLEAN /\ levels' \subseteq Levels
    BY DEF Drop
  <2> QED
    BY <1>1, <1>2, <2>1, <2>2, <2>3, <2>4 DEF Drop, TypeOK
<1>4. CallsOK'
  BY DEF Drop, CallsOK, CallOK, Busy
<1>5. LevelsOK' /\ RootsReferenced' /\ StoresRestored'
  BY <1>2 DEF Drop, LevelsOK, RootsReferenced, StoresRestored, NoEntry, NoNode
<1> QED
  BY <1>3, <1>4, <1>5 DEF IndexInv

LEMMA CrashInv ==
  ASSUME IndexInv, Crash
  PROVE  IndexInv'
<1>1. NoEntry \in EntryType
  BY FirstStores DEF NoEntry, EntryType, NIDs, NoNode, INVALID_REF
<1>2. Len(pages) \in Nat
  BY DEF IndexInv, TypeOK
<1>3. TypeOK'
  <2>1. /\ root' \in [Stores -> 0 .. Len(pages')]
        /\ segment' \in [Stores -> 0 .. Len(pages')]
    BY <1>2 DEF Crash, onPages, NoStores, INVALID_REF
  <2>2. call' \in [Threads -> CallType \cup {NoCall}]
    BY DEF Crash
  <2>3. up' \in BOOLEAN /\ levels' \subseteq Levels
    BY DEF Crash
  <2> QED
    BY <1>1, <2>1, <2>2, <2>3 DEF Crash, onPages, IndexInv, TypeOK
<1>4. CallsOK'
  BY DEF Crash, CallsOK, CallOK, NoCall
<1>5. LevelsOK' /\ RootsReferenced' /\ StoresRestored'
  BY DEF Crash, onPages, IndexInv, LevelsOK, RootsReferenced, StoresRestored
<1> QED
  BY <1>3, <1>4, <1>5 DEF IndexInv

LEMMA LoadInv ==
  ASSUME IndexInv, Load
  PROVE  IndexInv'
<1>1. pages # <<>> /\ Len(pages) \in Nat /\ Len(pages) >= 1
  BY EmptySeq, LenProperties DEF Load, IndexInv, TypeOK
<1>2. 0 \in BuiltLevels(refs)
  BY <1>1, FirstStores
  DEF IndexInv, LevelsOK, BuiltLevels, Primary, Overflow, INVALID_REF,
      PrimaryRoot, Levels
<1>3. meta.level \in BuiltLevels(refs)
  BY <1>2 DEF Load, EntryPointFound, IndexInv, LevelsOK
<1>4. BuiltLevels(refs) \subseteq Levels
  BY DEF BuiltLevels
<1>5. TypeOK'
  BY <1>1, <1>4 DEF Load, LoadStores, onPages, IndexInv, TypeOK, PrimaryRoot,
                    INVALID_REF
<1>6. CallsOK'
  <2>1. \A t \in Threads : call[t].op = "idle"
    BY DEF Load, IndexInv, CallsOK, CallOK
  <2> QED
    BY <2>1 DEF Load, CallsOK, CallOK
<1>7. LevelsOK'
  BY <1>1, BuiltFromBelow DEF Load, onPages, IndexInv, LevelsOK
<1>8. RootsReferenced'
  BY DEF Load, onPages, IndexInv, RootsReferenced
<1>9. StoresRestored'
  BY <1>3, BuiltFromBelow DEF Load, LoadStores, onPages, StoresRestored
<1> QED
  BY <1>5, <1>6, <1>7, <1>8, <1>9 DEF IndexInv

-------------------------------------------------------------------------------
(* insert.                                                                 *)

\* A call in progress is a record of CallType.
LEMMA BusyType ==
  ASSUME TypeOK, NEW t \in Threads, Busy(t)
  PROVE  /\ call[t] \in CallType
         /\ call[t].top \in Levels /\ call[t].path \in Seq(NIDs)
         /\ call[t].e \in Elements
  BY DEF TypeOK, Busy, NoCall, CallType

LEMMA InsertCallInv ==
  ASSUME IndexInv, NEW t \in Threads, NEW e \in Elements, NEW l \in Levels,
         InsertCall(t, e, l)
  PROVE  IndexInv'
<1> DEFINE c == [op |-> "insert", at |-> "levels", e |-> e, top |-> l,
                 excl |-> (entry.nid = NoNode \/ l > entry.level),
                 path |-> <<>>]
<1>1. c \in CallType
  BY DEF CallType
<1>2. call' = [call EXCEPT ![t] = c] /\ up
  BY DEF InsertCall, MayBegin
<1>3. CallOK(c, up, levels)
  BY <1>2 DEF CallOK
<1>4. handle' \in [Elements -> NIDs] /\ UNCHANGED Pages
  BY DEF InsertCall, onPages, inMemory, IndexInv, TypeOK, Pages
<1> HIDE DEF c
<1> QED
  BY <1>1, <1>2, <1>3, <1>4, CallFrame

LEMMA EnsureHalfInv ==
  ASSUME IndexInv, NEW t \in Threads, EnsureHalf(t)
  PROVE  IndexInv'
<1> DEFINE n == Len(pages) + 1
<1>1. PICK i \in Missing(call[t].top) :
        /\ \A j \in Missing(call[t].top) : i <= j
        /\ pages' = Append(pages, NewPage(INVALID_REF))
        /\ refs' = [refs EXCEPT ![i] = n]
        /\ root' = [root EXCEPT ![i] = n]
        /\ segment' = [segment EXCEPT ![i] = PrimaryRoot]
        /\ levels' = levels \cup
                       {l \in Levels : entry.level < l /\ Overflow(l) <= i}
  BY DEF EnsureHalf
<1>2. /\ Busy(t) /\ Len(pages) < MaxPages
      /\ UNCHANGED <<meta, strayed, handle, up, entry, call>>
  BY DEF EnsureHalf
<1>3. /\ up /\ root = refs /\ entry.level \in Levels /\ pages \in Seq(PageType)
      /\ call[t].top \in Levels /\ Len(pages) \in Nat
      /\ refs \in [Stores -> 0 .. Len(pages)]
      /\ segment \in [Stores -> 0 .. Len(pages)]
      /\ pages # <<>> /\ Len(pages) >= 1
  <2>1. up /\ root = refs /\ pages # <<>>
    BY <1>2 DEF IndexInv, CallsOK, CallOK, Busy, StoresRestored, LevelsOK
  <2> QED
    BY <1>2, <2>1, BusyType, EmptySeq, LenProperties
    DEF IndexInv, TypeOK, EntryType
<1>4. /\ i \in Stores /\ i \div 2 \in (entry.level + 1) .. call[t].top
      /\ refs[i] = INVALID_REF
  BY <1>3 DEF Missing
<1>5. /\ pages' \in Seq(PageType) /\ Len(pages') = n
      /\ \A p \in 1 .. Len(pages) : pages'[p] = pages[p]
      /\ pages'[n] = NewPage(INVALID_REF)
  <2>1. NewPage(INVALID_REF) \in PageType
    BY IndexStoreAssumption DEF NewPage, PageType, INVALID_REF
  <2> HIDE DEF NewPage, PageType
  <2> QED
    BY <1>1, <1>3, <2>1, AppendProperties
<1>6. /\ refs' \in [Stores -> 0 .. n] /\ refs'[i] = n
      /\ \A j \in Stores : j # i => refs'[j] = refs[j]
      /\ segment' \in [Stores -> 0 .. n] /\ segment'[i] = PrimaryRoot
      /\ \A j \in Stores : j # i => segment'[j] = segment[j]
      /\ root' = refs'
  BY <1>1, <1>3, <1>4 DEF PrimaryRoot
<1>7. TypeOK'
  <2>1. Len(pages') <= MaxPages
    BY <1>2, <1>3, <1>5, IndexStoreAssumption
  <2>2. levels' \subseteq Levels
    BY <1>1 DEF IndexInv, TypeOK
  <2> QED
    BY <1>2, <1>5, <1>6, <2>1, <2>2 DEF IndexInv, TypeOK
<1>8. CallsOK'
  <2>1. levels \subseteq levels'
    BY <1>1
  <2> QED
    BY <1>2, <2>1 DEF IndexInv, CallsOK, CallOK
<1>9. LevelsOK'
  <2>1. i \notin {0, 1}
    BY <1>3, <1>4 DEF Levels
  <2>2. refs'[0] = PrimaryRoot /\ refs'[1] # INVALID_REF
    BY <1>3, <1>6, <2>1, FirstStores DEF IndexInv, LevelsOK
  <2>3. pages' # <<>>
    BY <1>3, <1>5, EmptySeq
  <2>4. ASSUME NEW l \in levels', NEW k \in 0 .. l
        PROVE  k \in levels'
    <3>1. CASE l \in levels
      BY <1>1, <2>4, <3>1 DEF IndexInv, LevelsOK
    <3>2. CASE l \notin levels
      <4>1. l \in Levels /\ Overflow(l) <= i
        BY <1>1, <2>4, <3>2
      <4>2. k \in Levels /\ Overflow(k) <= i
        BY <1>4, <2>4, <4>1, IndexStoreAssumption
        DEF Levels, Overflow, Stores
      <4>3. k > entry.level \/ k \in 0 .. entry.level
        BY <1>3, <4>2 DEF Levels
      <4> QED
        BY <1>1, <1>3, <4>2, <4>3 DEF IndexInv, StoresRestored
    <3> QED
      BY <3>1, <3>2
  <2> QED
    BY <1>2, <2>2, <2>3, <2>4 DEF IndexInv, LevelsOK
<1>10. RootsReferenced'
  <2>1. ASSUME NEW j \in Stores, NEW k \in Stores,
               refs'[j] = refs'[k], refs'[j] # INVALID_REF
        PROVE  j = k
    <3>1. CASE j # i /\ k # i
      BY <1>3, <1>6, <2>1, <3>1 DEF IndexInv, RootsReferenced
    <3>2. CASE j = i \/ k = i
      BY <1>3, <1>6, <2>1, <3>2
    <3> QED
      BY <3>1, <3>2
  <2>2. ASSUME NEW p \in 1 .. Len(pages')
        PROVE  (IF pages'[p].root = INVALID_REF THEN p ELSE pages'[p].root)
                 \in {refs'[j] : j \in Stores}
    <3>1. CASE p = n
      BY <1>4, <1>5, <1>6, <3>1 DEF NewPage
    <3>2. CASE p # n
      <4> DEFINE r == IF pages[p].root = INVALID_REF THEN p ELSE pages[p].root
      <4>1. p \in 1 .. Len(pages) /\ pages'[p] = pages[p]
        BY <1>3, <1>5, <2>2, <3>2
      <4>2. PICK j \in Stores : r = refs[j]
        BY <1>3, <4>1 DEF IndexInv, RootsReferenced
      <4>3. r # INVALID_REF
        BY <4>1 DEF INVALID_REF
      <4>4. r = refs'[j]
        BY <1>4, <1>6, <4>2, <4>3
      <4> QED
        BY <4>1, <4>4
    <3> QED
      BY <3>1, <3>2
  <2> QED
    BY <2>1, <2>2 DEF RootsReferenced
<1>11. StoresRestored'
  <2>1. BuiltLevels(refs) \subseteq BuiltLevels(refs')
    <3>1. \A j \in Stores : refs[j] # INVALID_REF => refs'[j] # INVALID_REF
      BY <1>4, <1>6
    <3> QED
      BY <3>1, BuiltGrows
  <2>2. ASSUME NEW l \in Levels, entry.level < l, Overflow(l) <= i
        PROVE  l \in BuiltLevels(refs')
    <3>1. ASSUME NEW j \in Stores, j <= i
          PROVE  refs'[j] # INVALID_REF
      <4>1. CASE j = i
        BY <1>3, <1>6, <4>1 DEF INVALID_REF
      <4>2. CASE j # i /\ j \div 2 > entry.level
        <5>1. j \div 2 \in (entry.level + 1) .. call[t].top
          BY <1>3, <1>4, <3>1, <4>2, LevelOfStore DEF Levels, Stores
        <5>2. j \notin Missing(call[t].top)
          BY <1>1, <1>4, <3>1, <4>2 DEF Stores
        <5> QED
          BY <1>3, <1>6, <4>2, <5>1, <5>2 DEF Missing
      <4>3. CASE j # i /\ ~(j \div 2 > entry.level)
        <5>1. j \div 2 \in 0 .. entry.level
          BY <1>3, <4>3, LevelOfStore DEF Levels
        <5>2. j \div 2 \in BuiltLevels(refs)
          BY <1>3, <5>1 DEF IndexInv, StoresRestored
        <5>3. refs[j] # INVALID_REF
          BY <5>2, LevelOfStore DEF BuiltLevels, Levels
        <5> QED
          BY <1>6, <4>3, <5>3
      <4> QED
        BY <4>1, <4>2, <4>3
    <3> QED
      BY <1>4, <2>2, <3>1, BuiltUpTo
  <2>3. levels' \subseteq BuiltLevels(refs')
    BY <1>1, <1>3, <2>1, <2>2 DEF IndexInv, StoresRestored
  <2>4. \A j \in Stores : refs'[j] # INVALID_REF => segment'[j] = PrimaryRoot
    BY <1>3, <1>4, <1>6 DEF IndexInv, StoresRestored
  <2>5. 0 .. entry'.level \subseteq levels'
    BY <1>1, <1>2, <1>3 DEF IndexInv, StoresRestored
  <2> QED
    BY <1>6, <2>3, <2>4, <2>5 DEF StoresRestored
<1> QED
  BY <1>7, <1>8, <1>9, <1>10, <1>11 DEF IndexInv

LEMMA EnsureDoneInv ==
  ASSUME IndexInv, NEW t \in Threads, EnsureDone(t)
  PROVE  IndexInv'
<1> DEFINE c == call[t]
           d == [c EXCEPT !.at = "nodes"]
<1>1. /\ Busy(t) /\ c.at = "levels" /\ Missing(c.top) = {}
      /\ levels' = levels \cup ((entry.level + 1) .. c.top)
      /\ call' = [call EXCEPT ![t] = d]
      /\ UNCHANGED <<onPages, up, root, segment, entry>>
  BY DEF EnsureDone
<1>2. /\ up /\ root = refs /\ entry.level \in Levels
      /\ c \in CallType /\ c.top \in Levels
      /\ c.op = "insert" /\ c.path = <<>>
  BY <1>1, BusyType
  DEF IndexInv, CallsOK, CallOK, Busy, StoresRestored, TypeOK, EntryType, CallType
<1>3. d \in CallType /\ d.op = "insert" /\ d.at = "nodes" /\ d.path = <<>>
      /\ d.top = c.top
  BY <1>2 DEF CallType
<1> HIDE DEF c, d
<1>4. \A k \in 0 .. c.top : k \in levels'
  <2> SUFFICES ASSUME NEW k \in 0 .. c.top PROVE k \in levels'
    OBVIOUS
  <2>1. CASE k <= entry.level
    BY <1>1, <1>2, <2>1 DEF IndexInv, StoresRestored, Levels
  <2>2. CASE k > entry.level
    BY <1>1, <1>2, <2>2 DEF Levels
  <2> QED
    BY <1>2, <2>1, <2>2 DEF Levels
<1>5. CallOK(d, up', levels')
  BY <1>1, <1>2, <1>3, <1>4 DEF CallOK, Levels
<1>6. CallsOK' /\ call' \in [Threads -> CallType \cup {NoCall}]
  BY <1>1, <1>3, <1>5, CallStep DEF IndexInv
<1>7. TypeOK'
  <2>1. levels' \subseteq Levels
    <3>1. levels \subseteq Levels
      BY DEF IndexInv, TypeOK
    <3>2. (entry.level + 1) .. c.top \subseteq Levels
      BY <1>2, IndexStoreAssumption DEF Levels
    <3> QED
      BY <1>1, <3>1, <3>2
  <2> QED
    BY <1>1, <1>6, <2>1 DEF IndexInv, TypeOK, onPages
<1>8. LevelsOK'
  <2>1. ASSUME NEW l \in levels', NEW k \in 0 .. l
        PROVE  k \in levels'
    <3>1. CASE l \in levels
      BY <1>1, <2>1, <3>1 DEF IndexInv, LevelsOK
    <3>2. CASE l \notin levels
      BY <1>1, <1>2, <1>4, <2>1, <3>2 DEF Levels
    <3> QED
      BY <3>1, <3>2
  <2> QED
    BY <1>1, <2>1 DEF IndexInv, LevelsOK, onPages
<1>9. RootsReferenced'
  BY <1>1 DEF IndexInv, RootsReferenced, onPages
<1>10. StoresRestored'
  <2>1. ASSUME NEW j \in Stores, j <= Overflow(c.top)
        PROVE  refs[j] # INVALID_REF
    <3>1. CASE j \div 2 > entry.level
      <4>1. j \div 2 \in (entry.level + 1) .. c.top
        BY <1>2, <2>1, <3>1 DEF Levels, Stores, Overflow
      <4> QED
        BY <1>1, <1>2, <4>1 DEF Missing
    <3>2. CASE ~(j \div 2 > entry.level)
      <4>1. j \div 2 \in 0 .. entry.level
        BY <1>2, <3>2, LevelOfStore DEF Levels
      <4>2. j \div 2 \in BuiltLevels(refs)
        BY <1>2, <4>1 DEF IndexInv, StoresRestored
      <4> QED
        BY <4>2, LevelOfStore DEF BuiltLevels, Levels
    <3> QED
      BY <3>1, <3>2
  <2>2. ASSUME NEW l \in (entry.level + 1) .. c.top
        PROVE  l \in BuiltLevels(refs)
    <3>1. l \in Levels /\ Overflow(l) <= Overflow(c.top)
      BY <1>2, IndexStoreAssumption DEF Levels, Overflow
    <3>2. Overflow(c.top) \in Stores
      BY <1>2, StoreOfLevel
    <3> QED
      BY <2>1, <3>1, <3>2, BuiltUpTo
  <2>3. levels' \subseteq BuiltLevels(refs)
    BY <1>1, <1>2, <2>2 DEF IndexInv, StoresRestored
  <2> QED
    BY <1>1, <2>3 DEF IndexInv, StoresRestored, onPages
<1> QED
  BY <1>6, <1>7, <1>8, <1>9, <1>10 DEF IndexInv

\* The store of a level of the index has a root page.
LEMMA LevelStore ==
  ASSUME IndexInv, up, NEW m \in levels, NEW l \in 0 .. m
  PROVE  /\ Primary(l) \in Stores /\ refs[Primary(l)] # INVALID_REF
         /\ root[Primary(l)] = refs[Primary(l)]
         /\ root[Primary(l)] \in 0 .. MaxPages
<1>1. l \in levels /\ l \in Levels
  BY DEF IndexInv, LevelsOK, TypeOK
<1>2. l \in BuiltLevels(refs) /\ root = refs
  BY <1>1 DEF IndexInv, StoresRestored
<1>3. Primary(l) \in Stores
  BY <1>1, StoreOfLevel
<1>4. /\ root[Primary(l)] \in 0 .. Len(pages)
      /\ Len(pages) \in Nat /\ Len(pages) <= MaxPages
  BY <1>3, LenProperties DEF IndexInv, TypeOK
<1> QED
  BY <1>1, <1>2, <1>3, <1>4, IndexStoreAssumption DEF BuiltLevels, Levels

\* A live record is on a page.
LEMMA HoldsPlace ==
  ASSUME TypeOK, NEW nid \in NIDs, Holds(nid)
  PROVE  /\ nid \in (1 .. Len(pages)) \X Slots
         /\ pages[nid[1]].recs[nid[2]] # FreeRec
         /\ pages[nid[1]].recs[nid[2]] \in NodeRec
<1>1. nid \in (1 .. Len(pages)) \X Slots
  BY DEF Holds, NIDs, NoNode, INVALID_REF
<1>2. pages[nid[1]] \in PageType
  BY <1>1, ElementOfSeq DEF TypeOK
<1> QED
  BY <1>1, <1>2 DEF Holds, PageType

LEMMA CreateNodeInv ==
  ASSUME IndexInv, NEW t \in Threads, CreateNode(t)
  PROVE  IndexInv'
<1> DEFINE c == call[t]
           i == Primary(c.top - Len(c.path))
<1>1. PICK nid \in (1 .. MaxPages) \X Slots : NewNode(t, nid)
  BY DEF CreateNode
<1> DEFINE d == [c EXCEPT !.path = Append(c.path, nid),
                          !.at = IF i = Primary(0) THEN "end" ELSE c.at]
           qs == WithPage(nid, i)
           rec == [owner |-> c.e, lower |-> NoNode]
           ws == Write(qs, nid, rec)
<1>2. /\ c.op = "insert" /\ c.at = "nodes"
      /\ c.path # <<>> => Holds(c.path[Len(c.path)])
      /\ nid \in Places(i) \cup NewPlaces(i)
      /\ pages' = LinkDown(ws, c.path, nid)
      /\ call' = [call EXCEPT ![t] = d]
  BY <1>1 DEF NewNode
<1>3. UNCHANGED <<refs, meta, strayed, handle, inMemory>>
  BY DEF CreateNode
<1>4. /\ up /\ c \in CallType /\ c.top \in levels /\ c.top \in Levels
      /\ c.path \in Seq(NIDs) /\ c.e \in Elements /\ Len(c.path) <= c.top
  BY <1>2, BusyType DEF IndexInv, CallsOK, CallOK, Busy
<1>5. Len(c.path) \in Nat /\ c.top - Len(c.path) \in 0 .. c.top /\ c.top \in Nat
  BY <1>4, LenProperties DEF Levels
<1>6. i \in Stores /\ refs[i] # INVALID_REF /\ root[i] \in 0 .. MaxPages
  BY <1>4, <1>5, LevelStore
<1>7. nid \in NIDs /\ rec \in NodeRec
  BY <1>4 DEF NIDs, NodeRec
<1>8. d \in CallType /\ CallOK(d, up, levels)
  <2>1. /\ Append(c.path, nid) \in Seq(NIDs)
        /\ Append(c.path, nid) # <<>>
        /\ Len(Append(c.path, nid)) = Len(c.path) + 1
    BY <1>4, <1>5, <1>7, AppendProperties
  <2>2. i # Primary(0) => Len(c.path) + 1 <= c.top
    BY <1>5 DEF Primary
  <2>3. Append(c.path, nid)[1] # NoNode
    <3>1. CASE c.path = <<>>
      BY <1>1, <3>1 DEF NoNode, INVALID_REF
    <3>2. CASE c.path # <<>>
      <4>1. 1 \in 1 .. Len(c.path)
        BY <1>4, <1>5, <3>2, EmptySeq
      <4>2. Append(c.path, nid)[1] = c.path[1]
        BY <1>4, <1>7, <4>1, AppendProperties
      <4> QED
        BY <1>2, <3>2, <4>2 DEF IndexInv, CallsOK, CallOK
    <3> QED
      BY <3>1, <3>2
  <2>4. /\ d.op = "insert" /\ d.top = c.top /\ d.path = Append(c.path, nid)
        /\ d.at = IF i = Primary(0) THEN "end" ELSE "nodes"
        /\ d \in CallType
    <3> HIDE DEF i
    <3> QED
      BY <1>2, <1>4, <2>1 DEF CallType
  <2> HIDE DEF d, i
  <2> QED
    BY <1>4, <2>1, <2>2, <2>3, <2>4 DEF CallOK
<1>9. /\ pages \in Seq(PageType) /\ Len(pages) \in Nat /\ Len(pages) <= MaxPages
  BY LenProperties DEF IndexInv, TypeOK
<1>10. \/ /\ nid \in Places(i) /\ qs = pages
       \/ /\ nid = <<Len(pages) + 1, 1>> /\ Len(pages) < MaxPages
          /\ qs = Append(pages, NewPage(root[i]))
  <2>1. CASE nid \in Places(i)
    <3>1. nid[1] <= Len(pages)
      BY <1>9, <2>1 DEF Places
    <3> QED
      BY <1>9, <2>1, <3>1 DEF WithPage
  <2>2. CASE nid \in NewPlaces(i)
    <3>1. nid = <<Len(pages) + 1, 1>> /\ Len(pages) < MaxPages
      BY <2>2 DEF NewPlaces
    <3>2. nid[1] > Len(pages)
      BY <1>9, <3>1
    <3> QED
      BY <3>1, <3>2 DEF WithPage
  <2> QED
    BY <1>2, <2>1, <2>2
<1> HIDE DEF c, d, i, qs, rec
<1>11. NewPage(root[i]) \in PageType
  BY <1>6 DEF NewPage, PageType
<1>12. /\ qs \in Seq(PageType) /\ Len(qs) \in Len(pages) .. MaxPages
       /\ nid \in (1 .. Len(qs)) \X Slots
       /\ \A p \in 1 .. Len(pages) : qs[p] = pages[p]
  <2> HIDE DEF NewPage, PageType
  <2>1. CASE nid \in Places(i) /\ qs = pages
    BY <1>9, <2>1 DEF Places
  <2>2. CASE nid = <<Len(pages) + 1, 1>> /\ Len(pages) < MaxPages
             /\ qs = Append(pages, NewPage(root[i]))
    <3>1. Len(qs) = Len(pages) + 1 /\ qs \in Seq(PageType)
          /\ \A p \in 1 .. Len(pages) : qs[p] = pages[p]
      BY <1>9, <1>11, <2>2, AppendProperties
    <3> QED
      BY <1>1, <1>9, <2>2, <3>1, IndexStoreAssumption
  <2> QED
    BY <1>10, <2>1, <2>2
<1>13. /\ ws \in Seq(PageType) /\ SamePages(ws, qs)
       /\ \A q \in (1 .. Len(qs)) \X Slots :
            q # nid => ws[q[1]].recs[q[2]] = qs[q[1]].recs[q[2]]
  BY <1>7, <1>12, WriteKeeps
<1> HIDE DEF ws
<1>14. ASSUME c.path # <<>>
       PROVE  /\ c.path[Len(c.path)] \in (1 .. Len(ws)) \X Slots
              /\ ws[c.path[Len(c.path)][1]].recs[c.path[Len(c.path)][2]]
                   # FreeRec
  <2> DEFINE a == c.path[Len(c.path)]
  <2>1. a \in NIDs /\ Holds(a)
    <3>1. Len(c.path) \in 1 .. Len(c.path)
      BY <1>4, <1>5, <1>14, EmptySeq
    <3> QED
      BY <1>2, <1>4, <1>14, <3>1, ElementOfSeq
  <2> HIDE DEF a
  <2>2. a \in (1 .. Len(pages)) \X Slots /\ pages[a[1]].recs[a[2]] # FreeRec
    BY <2>1, HoldsPlace DEF IndexInv
  <2>3. a # nid
    BY <1>9, <1>10, <2>2 DEF Places
  <2>4. a \in (1 .. Len(qs)) \X Slots /\ qs[a[1]] = pages[a[1]]
    BY <1>9, <1>12, <2>2
  <2>5. ws[a[1]].recs[a[2]] = qs[a[1]].recs[a[2]] /\ Len(ws) = Len(qs)
    BY <1>13, <2>3, <2>4 DEF SamePages
  <2> QED
    BY <2>2, <2>4, <2>5 DEF a
<1>15. pages' \in Seq(PageType) /\ SamePages(pages', ws)
  BY <1>2, <1>4, <1>7, <1>13, <1>14, LinkDownKeeps
<1>16. SamePages(pages', qs) /\ Len(pages') <= MaxPages
  BY <1>9, <1>12, <1>13, <1>15 DEF SamePages
<1>17. qs = pages \/ qs = Append(pages, NewPage(root[i]))
  BY <1>10
<1> QED
  BY <1>2, <1>3, <1>4, <1>6, <1>8, <1>12, <1>15, <1>16, <1>17, RecordFrame

\* A new entry point of a level the index has.
LEMMA EntryFrame ==
  ASSUME IndexInv, NEW t \in Threads, call[t] \in CallType, up,
         call[t].op # "idle",
         NEW nid \in NIDs, NEW l \in Levels, 0 .. l \subseteq levels,
         nid = NoNode => l = 0,
         SetEntryPoint(nid, l), strayed' \in BOOLEAN,
         call' = [call EXCEPT ![t].excl = FALSE],
         UNCHANGED <<pages, refs, handle, up, root, segment, levels>>
  PROVE  IndexInv'
<1> DEFINE d == [call[t] EXCEPT !.excl = FALSE]
<1>1. call' = [call EXCEPT ![t] = d] /\ d \in CallType
  BY DEF CallType
<1>2. /\ d.op = call[t].op /\ d.at = call[t].at /\ d.top = call[t].top
      /\ d.path = call[t].path
  BY DEF CallType
<1> HIDE DEF d
<1>3. CallOK(d, up', levels')
  <2>1. CallOK(call[t], up, levels)
    BY DEF IndexInv, CallsOK
  <2> QED
    BY <1>2, <2>1 DEF CallOK
<1>4. CallsOK' /\ call' \in [Threads -> CallType \cup {NoCall}]
  BY <1>1, <1>3, CallStep DEF IndexInv
<1>5. /\ meta' = [nid |-> nid, level |-> l] /\ entry' = meta'
      /\ meta' \in EntryType
  BY DEF SetEntryPoint, UpdateMetadata, EntryType
<1>6. TypeOK'
  BY <1>4, <1>5 DEF IndexInv, TypeOK
<1>7. LevelsOK' /\ RootsReferenced'
  BY <1>5 DEF IndexInv, LevelsOK, RootsReferenced
<1>8. StoresRestored'
  BY <1>5 DEF IndexInv, StoresRestored
<1> QED
  BY <1>4, <1>6, <1>7, <1>8 DEF IndexInv

LEMMA InsertEntryPointInv ==
  ASSUME IndexInv, NEW t \in Threads, InsertEntryPoint(t)
  PROVE  IndexInv'
<1> DEFINE c == call[t]
<1>1. /\ c \in CallType /\ up /\ c.op # "idle" /\ c.top \in Levels
      /\ c.path \in Seq(NIDs) /\ c.path # <<>> /\ c.top \in levels
  BY BusyType DEF InsertEntryPoint, IndexInv, CallsOK, CallOK, Busy
<1>2. c.path[1] \in NIDs
  <2>1. 1 \in 1 .. Len(c.path)
    BY <1>1, EmptySeq, LenProperties
  <2> QED
    BY <1>1, <2>1, ElementOfSeq
<1>3. 0 .. c.top \subseteq levels
  BY <1>1 DEF IndexInv, LevelsOK
<1>4. c.path[1] # NoNode
  BY <1>1 DEF InsertEntryPoint, IndexInv, CallsOK, CallOK
<1>5. strayed' \in BOOLEAN
  BY DEF InsertEntryPoint, IndexInv, TypeOK
<1> QED
  BY <1>1, <1>2, <1>3, <1>4, <1>5, EntryFrame DEF InsertEntryPoint

LEMMA InsertReturnInv ==
  ASSUME IndexInv, NEW t \in Threads, InsertReturn(t)
  PROVE  IndexInv'
<1> DEFINE c == call[t]
<1>1. c.path \in Seq(NIDs) /\ c.path # <<>> /\ c.e \in Elements
  BY BusyType DEF InsertReturn, IndexInv, CallsOK, CallOK, Busy
<1>2. c.path[1] \in NIDs
  <2>1. 1 \in 1 .. Len(c.path)
    BY <1>1, EmptySeq, LenProperties
  <2> QED
    BY <1>1, <2>1, ElementOfSeq
<1>3. handle' \in [Elements -> NIDs]
  BY <1>1, <1>2 DEF InsertReturn, IndexInv, TypeOK
<1>4. CallOK(NoCall, up, levels)
  BY DEF CallOK, NoCall
<1>5. call' = [call EXCEPT ![t] = NoCall] /\ UNCHANGED Pages
  BY DEF InsertReturn, inMemory, Pages
<1> HIDE DEF c
<1> QED
  BY <1>3, <1>4, <1>5, CallFrame

-------------------------------------------------------------------------------
(* remove.                                                                 *)

LEMMA RemoveCallInv ==
  ASSUME IndexInv, NEW t \in Threads, NEW e \in Elements, RemoveCall(t, e)
  PROVE  IndexInv'
<1>1. PICK l \in Locate(handle[e]) :
        /\ MayBegin(t, entry = [nid |-> handle[e], level |-> l])
        /\ call' = [call EXCEPT ![t] =
              [op |-> "remove", at |-> IF l = 0 THEN "nodes" ELSE "down",
               e |-> e, top |-> l,
               excl |-> entry = [nid |-> handle[e], level |-> l],
               path |-> <<handle[e]>>]]
  BY DEF RemoveCall
<1> DEFINE d == [op |-> "remove", at |-> IF l = 0 THEN "nodes" ELSE "down",
                 e |-> e, top |-> l,
                 excl |-> entry = [nid |-> handle[e], level |-> l],
                 path |-> <<handle[e]>>]
<1>2. l \in levels /\ l \in Levels /\ handle[e] \in NIDs
  BY DEF Locate, IndexInv, TypeOK
<1>3. <<handle[e]>> \in Seq(NIDs) /\ <<handle[e]>> # <<>>
  <2> HIDE DEF NIDs
  <2> QED
    BY <1>2
<1>4. d \in CallType
  BY <1>2, <1>3 DEF CallType
<1>5. CallOK(d, up, levels)
  BY <1>1, <1>2, <1>3 DEF CallOK, MayBegin
<1>6. handle' \in [Elements -> NIDs] /\ UNCHANGED Pages
  BY DEF RemoveCall, onPages, inMemory, IndexInv, TypeOK, Pages
<1>7. call' = [call EXCEPT ![t] = d]
  BY <1>1
<1> HIDE DEF d
<1> QED
  BY <1>4, <1>5, <1>6, <1>7, CallFrame

LEMMA RemoveDescendInv ==
  ASSUME IndexInv, NEW t \in Threads, RemoveDescend(t)
  PROVE  IndexInv'
<1> DEFINE c == call[t]
           nid == c.path[Len(c.path)]
           d == [c EXCEPT !.path = Append(c.path, Lower(nid)),
                          !.at = IF Len(c.path) = c.top THEN "nodes" ELSE c.at]
<1>1. /\ c.op = "remove" /\ c.at = "down" /\ Holds(nid)
      /\ call' = [call EXCEPT ![t] = d]
      /\ UNCHANGED <<onPages, inMemory>>
  BY DEF RemoveDescend
<1>2. /\ c \in CallType /\ up /\ c.top \in levels /\ c.path \in Seq(NIDs)
      /\ c.path # <<>>
  BY <1>1, BusyType DEF IndexInv, CallsOK, CallOK, Busy
<1>3. nid \in NIDs
  <2>1. Len(c.path) \in 1 .. Len(c.path)
    BY <1>2, EmptySeq, LenProperties
  <2> QED
    BY <1>2, <2>1, ElementOfSeq
<1> HIDE DEF nid
<1>4. Lower(nid) \in NIDs
  <2>1. Rec(nid) \in NodeRec
    BY <1>1, <1>3, HoldsPlace DEF IndexInv, Rec
  <2> QED
    BY <1>1, <2>1 DEF Lower, NodeRec
<1>5. Append(c.path, Lower(nid)) \in Seq(NIDs) /\ Append(c.path, Lower(nid)) # <<>>
  BY <1>2, <1>4, AppendProperties
<1>6. /\ d \in CallType /\ d.op = "remove" /\ d.at \in {"nodes", "down"}
      /\ d.top = c.top /\ d.path # <<>>
  BY <1>1, <1>2, <1>5 DEF CallType
<1> HIDE DEF d, c
<1>7. CallOK(d, up, levels)
  BY <1>2, <1>6 DEF CallOK
<1>8. handle' \in [Elements -> NIDs] /\ UNCHANGED Pages
  BY <1>1 DEF onPages, inMemory, IndexInv, TypeOK, Pages
<1> QED
  BY <1>1, <1>6, <1>7, <1>8, CallFrame

LEMMA RemoveDropInv ==
  ASSUME IndexInv, NEW t \in Threads, RemoveDrop(t)
  PROVE  IndexInv'
<1> DEFINE c == call[t]
           k == Len(c.path)
           nid == c.path[k]
           above == SubSeq(c.path, 1, k - 1)
           rec == IF Rec(nid).owner = c.e THEN FreeRec ELSE Rec(nid)
           d == [c EXCEPT !.path = above,
                          !.at = IF above = <<>> THEN "end" ELSE c.at]
           ws == LinkDown(pages, above, NoNode)
<1>1. /\ c.op = "remove" /\ c.at = "nodes" /\ Readable(c.path)
      /\ pages' = Write(ws, nid, rec)
      /\ call' = [call EXCEPT ![t] = d]
      /\ UNCHANGED <<refs, meta, strayed, handle, inMemory>>
  BY DEF RemoveDrop
<1>2. /\ c \in CallType /\ up /\ c.top \in levels /\ c.path \in Seq(NIDs)
      /\ c.path # <<>> /\ c.top \in Levels
  BY <1>1, BusyType DEF IndexInv, CallsOK, CallOK, Busy
<1>3. k \in Nat /\ k >= 1
  BY <1>2, EmptySeq, LenProperties
<1>4. above \in Seq(NIDs) /\ Len(above) = k - 1
      /\ \A j \in 1 .. k - 1 : above[j] = c.path[j]
  BY <1>2, <1>3, SubSeqProperties
<1>5. nid \in NIDs /\ Holds(nid)
  <2>1. k \in 1 .. Len(c.path) /\ k + 1 >= Len(c.path)
    BY <1>3
  <2> QED
    BY <1>1, <1>2, <2>1, ElementOfSeq DEF Readable
<1>6. /\ nid \in (1 .. Len(pages)) \X Slots
      /\ rec \in NodeRec \cup {FreeRec}
  BY <1>5, HoldsPlace DEF IndexInv, Rec
<1>7. above # <<>> => above[Len(above)] \in NIDs /\ Holds(above[Len(above)])
  <2> SUFFICES ASSUME above # <<>>
               PROVE  above[k - 1] \in NIDs /\ Holds(above[k - 1])
    BY <1>4
  <2>1. k - 1 \in 1 .. Len(c.path) /\ k - 1 \in 1 .. k - 1
        /\ (k - 1) + 1 >= Len(c.path)
    BY <1>3, <1>4, EmptySeq
  <2>2. above[k - 1] = c.path[k - 1]
    BY <1>4, <2>1
  <2> QED
    BY <1>1, <1>2, <2>1, <2>2, ElementOfSeq DEF Readable
<1>8. d \in CallType /\ CallOK(d, up, levels)
  <2>1. /\ d \in CallType /\ d.op = "remove" /\ d.top = c.top
        /\ d.at = IF above = <<>> THEN "end" ELSE "nodes"
        /\ d.path = above
    <3> HIDE DEF above
    <3> QED
      BY <1>1, <1>2, <1>4 DEF CallType
  <2> HIDE DEF d, above
  <2> QED
    BY <1>2, <2>1 DEF CallOK
<1> HIDE DEF c, k, nid, above, rec, d
<1>9. pages \in Seq(PageType) /\ NoNode \in NIDs
  BY DEF IndexInv, TypeOK, NIDs
<1>10. ws \in Seq(PageType) /\ SamePages(ws, pages)
  <2>1. above # <<>> =>
          /\ above[Len(above)] \in (1 .. Len(pages)) \X Slots
          /\ pages[above[Len(above)][1]].recs[above[Len(above)][2]] # FreeRec
    BY <1>7, HoldsPlace DEF IndexInv
  <2> QED
    BY <1>4, <1>9, <2>1, LinkDownKeeps
<1> HIDE DEF ws
<1>11. pages' \in Seq(PageType) /\ SamePages(pages', ws)
  <2>1. nid \in (1 .. Len(ws)) \X Slots
    BY <1>6, <1>10 DEF SamePages
  <2> QED
    BY <1>1, <1>6, <1>10, <2>1, WriteKeeps
<1>12. SamePages(pages', pages) /\ Len(pages') <= MaxPages
  BY <1>10, <1>11 DEF SamePages, IndexInv, TypeOK
<1>13. 0 \in Stores /\ refs[0] # INVALID_REF
  BY <1>2, FirstStores DEF IndexInv, LevelsOK, PrimaryRoot, INVALID_REF
<1> QED
  BY <1>1, <1>2, <1>8, <1>9, <1>11, <1>12, <1>13, RecordFrame

LEMMA RemoveEntryPointInv ==
  ASSUME IndexInv, NEW t \in Threads, RemoveEntryPoint(t)
  PROVE  IndexInv'
<1> DEFINE c == call[t]
<1>1. /\ c \in CallType /\ up /\ c.op # "idle" /\ c.top \in Levels
      /\ c.top \in levels
  BY BusyType DEF RemoveEntryPoint, IndexInv, CallsOK, CallOK, Busy
<1>2. /\ call' = [call EXCEPT ![t].excl = FALSE]
      /\ UNCHANGED <<pages, refs, handle, up, root, segment, levels>>
      /\ strayed' \in BOOLEAN
  BY DEF RemoveEntryPoint, IndexInv, TypeOK
<1>3. \A l \in 0 .. c.top : l \in Levels /\ 0 .. l \subseteq levels
  BY <1>1, IndexStoreAssumption DEF IndexInv, LevelsOK, Levels
<1>4. CASE SetEntryPoint(NoNode, 0)
  <2>1. NoNode \in NIDs /\ 0 \in 0 .. c.top
    BY <1>1 DEF NIDs, Levels
  <2> QED
    BY <1>1, <1>2, <1>3, <1>4, <2>1, EntryFrame
<1>5. CASE \E p \in 1 .. Len(pages), s \in Slots, l \in 0 .. c.top :
             SetEntryPoint(<<p, s>>, l)
  <2>1. PICK p \in 1 .. Len(pages), s \in Slots, l \in 0 .. c.top :
               SetEntryPoint(<<p, s>>, l)
    BY <1>5
  <2>2. <<p, s>> \in NIDs /\ <<p, s>> # NoNode
    BY LenProperties, IndexStoreAssumption
    DEF IndexInv, TypeOK, NIDs, NoNode, INVALID_REF
  <2> QED
    BY <1>1, <1>2, <1>3, <2>1, <2>2, EntryFrame
<1> QED
  BY <1>4, <1>5 DEF RemoveEntryPoint

LEMMA RemoveReturnInv ==
  ASSUME IndexInv, NEW t \in Threads, RemoveReturn(t)
  PROVE  IndexInv'
<1>1. handle' \in [Elements -> NIDs]
  BY DEF RemoveReturn, IndexInv, TypeOK, NIDs
<1>2. CallOK(NoCall, up, levels)
  BY DEF CallOK, NoCall
<1>3. call' = [call EXCEPT ![t] = NoCall] /\ UNCHANGED Pages
  BY DEF RemoveReturn, inMemory, Pages
<1> QED
  BY <1>1, <1>2, <1>3, CallFrame

LEMMA FailInv ==
  ASSUME IndexInv, NEW t \in Threads, Fail(t)
  PROVE  IndexInv'
<1>1. handle' \in [Elements -> NIDs]
  BY DEF Fail, onPages, IndexInv, TypeOK
<1>2. CallOK(NoCall, up, levels)
  BY DEF CallOK, NoCall
<1>3. call' = [call EXCEPT ![t] = NoCall] /\ UNCHANGED Pages
  BY DEF Fail, onPages, inMemory, Pages
<1> QED
  BY <1>1, <1>2, <1>3, CallFrame

-------------------------------------------------------------------------------
(* The invariant, and what follows.                                        *)

LEMMA NextInv == IndexInv /\ [Next]_vars => IndexInv'
<1> SUFFICES ASSUME IndexInv, [Next]_vars
             PROVE  IndexInv'
  OBVIOUS
<1>1. CASE Create
  BY <1>1, CreateInv
<1>2. CASE Drop
  BY <1>2, DropInv
<1>3. CASE Crash
  BY <1>3, CrashInv
<1>4. CASE Load
  BY <1>4, LoadInv
<1>5. ASSUME NEW t \in Threads, NEW e \in Elements, NEW l \in Levels,
             InsertCall(t, e, l)
      PROVE  IndexInv'
  BY <1>5, InsertCallInv
<1>6. ASSUME NEW t \in Threads,
             \/ EnsureHalf(t) \/ EnsureDone(t) \/ CreateNode(t)
             \/ InsertEntryPoint(t) \/ InsertReturn(t)
      PROVE  IndexInv'
  BY <1>6, EnsureHalfInv, EnsureDoneInv, CreateNodeInv, InsertEntryPointInv,
     InsertReturnInv
<1>7. ASSUME NEW t \in Threads, NEW e \in Elements, RemoveCall(t, e)
      PROVE  IndexInv'
  BY <1>7, RemoveCallInv
<1>8. ASSUME NEW t \in Threads,
             \/ RemoveDescend(t) \/ RemoveDrop(t) \/ RemoveEntryPoint(t)
             \/ RemoveReturn(t) \/ Fail(t)
      PROVE  IndexInv'
  BY <1>8, RemoveDescendInv, RemoveDropInv, RemoveEntryPointInv,
     RemoveReturnInv, FailInv
<1>9. CASE UNCHANGED vars
  BY <1>9 DEF vars, IndexInv, TypeOK, CallsOK, CallOK, LevelsOK,
              RootsReferenced, StoresRestored, BuiltLevels
<1>10. CASE LoadFails
  BY <1>9, <1>10 DEF LoadFails
<1> QED
  BY <1>1, <1>2, <1>3, <1>4, <1>5, <1>6, <1>7, <1>8, <1>9, <1>10 DEF Next

LEMMA InvAlways == Spec => []IndexInv
  BY InitInv, NextInv, PTL DEF Spec

\* Pages, references, entry points and the places of calls have their types
\* throughout create, insert, purge, drop, crash and load: no reference ever
\* names a page that is not there.
THEOREM StoreTypeCorrect == Spec => []TypeOK
<1>1. IndexInv => TypeOK
  BY DEF IndexInv
<1> QED
  BY <1>1, InvAlways, PTL

\* ensure_levels never loses a root page: however calls fail and wherever the
\* server stops between the mini-transactions of init_root_page, each root page
\* has one store, and each data page a root page that a store knows.
THEOREM RootsKept == Spec => []RootsReferenced
<1>1. IndexInv => RootsReferenced
  BY DEF IndexInv
<1> QED
  BY <1>1, InvAlways, PTL

\* What load and ensure_levels leave in memory agrees with the pages: every store
\* with a root page knows it and the page that owns the segments, a level has
\* both halves, and no level below the entry point's is missing.
THEOREM MemoryRestored == Spec => []StoresRestored
<1>1. IndexInv => StoresRestored
  BY DEF IndexInv
<1> QED
  BY <1>1, InvAlways, PTL

-------------------------------------------------------------------------------
(* The way down from a node.                                               *)

Below(nid, d, j) == IF j = 0 THEN nid ELSE Lower(d[j - 1])

IsDescent(nid, l, d) == d = [j \in 0 .. l |-> Below(nid, d, j)]

LEMMA DescentExists ==
  ASSUME NEW nid, NEW l \in Nat
  PROVE  \E d : IsDescent(nid, l, d)
<1> DEFINE P == {m \in Nat : \E d : IsDescent(nid, m, d)}
<1>1. 0 \in P
  <2> DEFINE d == [j \in 0 .. 0 |-> nid]
  <2>1. IsDescent(nid, 0, d)
    BY DEF IsDescent, Below
  <2> HIDE DEF d
  <2> QED BY <2>1
<1>2. ASSUME NEW m \in 0 .. l, m < l, m \in P
      PROVE  m + 1 \in P
  <2>1. PICK d : IsDescent(nid, m, d)
    BY <1>2
  <2> DEFINE v == [j \in 0 .. (m + 1) |-> IF j = m + 1 THEN Lower(d[m]) ELSE d[j]]
  <2>2. ASSUME NEW j \in 0 .. (m + 1)
        PROVE  v[j] = Below(nid, v, j)
    <3>1. CASE j = m + 1
      BY <3>1 DEF Below
    <3>2. CASE j = 0
      BY <2>1, <3>2 DEF IsDescent, Below
    <3>3. CASE j # m + 1 /\ j # 0
      <4>1. j \in 0 .. m /\ j - 1 \in 0 .. m /\ j - 1 # m + 1
        BY <3>3
      <4>2. v[j] = d[j] /\ v[j - 1] = d[j - 1]
        BY <3>3, <4>1
      <4>3. d[j] = Below(nid, d, j)
        BY <2>1, <4>1 DEF IsDescent
      <4> QED BY <3>3, <4>2, <4>3 DEF Below
    <3> QED BY <3>1, <3>2, <3>3
  <2>3. IsDescent(nid, m + 1, v)
    BY <2>2 DEF IsDescent
  <2>4. m + 1 \in Nat
    BY <1>2
  <2> HIDE DEF v
  <2> QED BY <2>3, <2>4
<1> HIDE DEF P
<1>3. l \in P
  BY <1>1, <1>2, InductionUpTo
<1> QED BY <1>3 DEF P

\* Descent obeys its definition.
LEMMA DescentDef ==
  ASSUME NEW nid, NEW l \in Nat
  PROVE  /\ Descent(nid, l)[0] = nid
         /\ \A j \in 0 .. l : j < l => Descent(nid, l)[j + 1] = Lower(Descent(nid, l)[j])
<1> DEFINE d == Descent(nid, l)
<1>2. IsDescent(nid, l, d)
  <2>1. d = CHOOSE v : IsDescent(nid, l, v)
    BY DEF Descent, IsDescent, Below
  <2> QED BY <2>1, DescentExists, Zenon
<1> HIDE DEF d
<1>3. \A j \in 0 .. l : d[j] = Below(nid, d, j)
  BY <1>2 DEF IsDescent
<1>4. d[0] = nid
  <2>1. d[0] = Below(nid, d, 0)
    BY <1>3
  <2> QED BY <2>1, Zenon DEF Below
<1>5. ASSUME NEW j \in 0 .. l, j < l PROVE d[j + 1] = Lower(d[j])
  <2>1. j + 1 \in 0 .. l /\ j + 1 # 0 /\ (j + 1) - 1 = j
    BY <1>5
  <2>2. d[j + 1] = Below(nid, d, j + 1)
    BY <1>3, <2>1
  <2> QED BY <2>1, <2>2 DEF Below
<1> QED BY <1>4, <1>5 DEF d

-------------------------------------------------------------------------------
(* The invariant.  hd gives every node the node its chain starts with, and W *)
(* is a set of nodes that lead down to level 0.                            *)

\* Live nodes: on data pages, with a node above unless they start a chain, one
\* at most, and nothing below level 0.
Forest(hd) ==
  /\ \A n \in NIDs : Holds(n) =>
       /\ pages[n[1]].root # INVALID_REF
       /\ hd[n] # n => \E m \in NIDs : Holds(m) /\ Rec(m).lower = n
       /\ NodeAt(n, 0) => Rec(n).lower = NoNode
  /\ \A n, m \in NIDs : Holds(n) /\ Rec(n).lower = m /\ m # NoNode =>
       /\ Holds(m) /\ hd[m] = hd[n] /\ hd[m] # m /\ Rec(m).owner = Rec(n).owner
       /\ \A k \in NIDs : Holds(k) /\ Rec(k).lower = m => k = n

\* Every node of W has one of W below it, down to level 0.
Whole(W) ==
  \A n \in W : \E l \in Levels :
    /\ NodeAt(n, l)
    /\ l # 0 => \E m \in W : Rec(n).lower = m /\ NodeAt(m, l - 1)

\* The path of call c is part of a chain of c's element.  A remove goes down a
\* whole chain, and only one that is exclusive removes the entry point, unless
\* the entry point strayed from the tops of chains.
PathOK(c, hd, W) ==
  /\ \A j \in 1 .. Len(c.path) :
       /\ NodeAt(c.path[j], c.top + 1 - j)
       /\ hd[c.path[j]] = c.path[1]
       /\ Rec(c.path[j]).owner = c.e
       /\ j < Len(c.path) => Rec(c.path[j]).lower = c.path[j + 1]
       /\ j = Len(c.path) /\ c.at # "down" => Rec(c.path[j]).lower = NoNode
       /\ j = Len(c.path) /\ c.at = "down" => c.path[j] \in W
  /\ Len(c.path) <= c.top + 1
  /\ c.at = "down" => Len(c.path) <= c.top
  /\ c.op = "insert" => handle[c.e] = NoNode
  /\ c.op = "insert" /\ c.at = "end" => Len(c.path) = c.top + 1
  /\ c.op = "remove" /\ c.at # "end" /\ ~c.excl /\ ~strayed => meta.nid # c.path[1]

Paths(hd, W) ==
  \A t \in Threads, c \in CallType : call[t] = c => PathOK(c, hd, W)

HandlesWhole(hd, W) ==
  \A e \in Elements : handle[e] # NoNode /\ ~InCall(e) =>
    /\ handle[e] \in W /\ hd[handle[e]] = handle[e] /\ Rec(handle[e]).owner = e

\* A remove of the entry point is under way.
Replacing == \E t \in Threads : call[t].op = "remove" /\ call[t].excl

EntryWhole(hd, W) ==
  meta.nid # NoNode /\ ~Replacing /\ ~strayed =>
    meta.nid \in W /\ NodeAt(meta.nid, meta.level) /\ hd[meta.nid] = meta.nid

Chains(hd, W) ==
  Forest(hd) /\ Whole(W) /\ Paths(hd, W) /\ HandlesWhole(hd, W) /\ EntryWhole(hd, W)

\* Calls are on different elements, and an exclusive one is alone.
CallsApart ==
  \A t, u \in Threads : t # u /\ Busy(t) /\ Busy(u) =>
    call[t].e # call[u].e /\ ~call[t].excl

EntryKnown ==
  /\ up => entry = meta
  /\ pages # <<>> => meta.level \in BuiltLevels(refs)

ChainInv ==
  /\ CallsApart /\ EntryKnown
  /\ \E hd \in [NIDs -> NIDs], W \in SUBSET NIDs : Chains(hd, W)

\* Removals run to their end.
RemovesFinish == "remove" \notin Interrupts

-------------------------------------------------------------------------------
(* What the invariant says.                                                *)

LEMMA LevelUnique ==
  ASSUME IndexInv, NEW n, NEW k \in Levels, NEW l \in Levels,
         NodeAt(n, k), NodeAt(n, l), pages[n[1]].root # INVALID_REF
  PROVE  k = l
<1>1. pages # <<>>
  <2>1. 1 .. Len(pages) # {}
    BY DEF NodeAt, Holds
  <2> QED BY <2>1
<1>2. Primary(k) \in Stores /\ Primary(l) \in Stores
  BY StoreOfLevel
<1>3. refs[Primary(k)] = refs[Primary(l)] /\ refs[Primary(k)] # INVALID_REF
  BY DEF NodeAt
<1>4. Primary(k) = Primary(l)
  BY <1>1, <1>2, <1>3 DEF IndexInv, RootsReferenced
<1> QED BY <1>4 DEF Primary, Levels

LEMMA NoNodeDead ==
  /\ ~Holds(NoNode) /\ NoNode \in NIDs /\ Lower(NoNode) = NoNode
BY DEF Holds, NoNode, INVALID_REF, NIDs, Lower

LEMMA WholeHolds ==
  ASSUME NEW W, Whole(W), NEW n \in W
  PROVE  Holds(n)
BY DEF Whole, NodeAt

\* A node of W on level l that is not level 0.
LEMMA WholeBelow ==
  ASSUME IndexInv, NEW hd, Forest(hd), NEW W \in SUBSET NIDs, Whole(W), NEW n \in W, NEW l \in Levels,
         NodeAt(n, l), l # 0
  PROVE  Rec(n).lower \in W /\ NodeAt(Rec(n).lower, l - 1)
<1>1. PICK k \in Levels :
        /\ NodeAt(n, k)
        /\ k # 0 => \E m \in W : Rec(n).lower = m /\ NodeAt(m, k - 1)
  BY DEF Whole
<1>2. n \in NIDs /\ Holds(n)
  BY DEF NodeAt
<1>3. pages[n[1]].root # INVALID_REF
  BY <1>2 DEF Forest
<1>4. k = l
  BY <1>1, <1>3, LevelUnique
<1> QED BY <1>1, <1>4

\* A whole node of level l heads a chain down to level 0.
LEMMA WholeHeadsChain ==
  ASSUME IndexInv, NEW hd, Forest(hd), NEW W \in SUBSET NIDs, Whole(W),
         NEW n \in W, NEW l \in Levels, NodeAt(n, l)
  PROVE  HeadsChain(n, l)
<1> DEFINE d == Descent(n, l)
           P == {j \in 0 .. l : /\ d[j] \in W /\ NodeAt(d[j], l - j)
                                /\ Rec(d[j]).owner = Rec(n).owner}
<1>0. l \in Nat
  BY DEF Levels
<1>1. d[0] = n /\ \A j \in 0 .. l : j < l => d[j + 1] = Lower(d[j])
  BY <1>0, DescentDef
<1> HIDE DEF d
<1>2. 0 \in P
  BY <1>0, <1>1
<1>3. ASSUME NEW j \in 0 .. l, j < l, j \in P PROVE j + 1 \in P
  <2> DEFINE x == d[j]
             m == Rec(x).lower
  <2>1. x \in W /\ x \in NIDs /\ Holds(x) /\ NodeAt(x, l - j) /\ Rec(x).owner = Rec(n).owner
    BY <1>3, WholeHolds
  <2>2. l - j \in Levels /\ l - j # 0 /\ (l - j) - 1 = l - (j + 1) /\ j + 1 \in 0 .. l
    BY <1>0, <1>3, IndexStoreAssumption DEF Levels
  <2>3. m \in W /\ NodeAt(m, (l - j) - 1)
    <3> HIDE DEF x
    <3> QED BY <2>1, <2>2, WholeBelow
  <2>4. d[j + 1] = m
    BY <1>1, <1>3, <2>1 DEF Lower
  <2>5. m # NoNode
    BY <2>3, WholeHolds, NoNodeDead
  <2>6. Rec(m).owner = Rec(x).owner
    BY <2>1, <2>3, <2>5 DEF Forest
  <2> HIDE DEF x, m
  <2> QED BY <1>3, <2>1, <2>2, <2>3, <2>4, <2>6
<1> HIDE DEF P
<1>4. \A j \in 0 .. l : j \in P
  BY <1>0, <1>2, <1>3, InductionUpTo
<1> QED BY <1>4 DEF P, HeadsChain, d

\* The nodes on the way down from a head.
LEMMA ChainIsWhole ==
  ASSUME IndexInv, NEW n \in NIDs, NEW l \in Levels, HeadsChain(n, l)
  PROVE  \E D \in SUBSET NIDs : Whole(D) /\ n \in D
<1> DEFINE d == Descent(n, l)
           D == {d[j] : j \in 0 .. l}
           P == {j \in 0 .. l : d[j] \in NIDs}
<1>0. l \in Nat
  BY DEF Levels
<1>1. d[0] = n /\ \A j \in 0 .. l : j < l => d[j + 1] = Lower(d[j])
  BY <1>0, DescentDef
<1>2. \A j \in 0 .. l : NodeAt(d[j], l - j) /\ Holds(d[j])
  BY DEF HeadsChain, NodeAt
<1> HIDE DEF d
<1>3. D \in SUBSET NIDs
  <2>1. 0 \in P
    BY <1>0, <1>1
  <2>2. ASSUME NEW j \in 0 .. l, j < l, j \in P PROVE j + 1 \in P
    <3>1. d[j] \in NIDs /\ Holds(d[j])
      BY <1>2, <2>2
    <3>2. Rec(d[j]) \in NodeRec
      BY <3>1, HoldsPlace DEF IndexInv, Rec
    <3>3. Lower(d[j]) \in NIDs
      BY <3>1, <3>2 DEF Lower, NodeRec
    <3> QED BY <1>0, <1>1, <2>2, <3>3
  <2> HIDE DEF P
  <2>3. \A j \in 0 .. l : j \in P
    BY <1>0, <2>1, <2>2, InductionUpTo
  <2> QED BY <2>3 DEF P
<1>4. ASSUME NEW j \in 0 .. l
      PROVE  \E k \in Levels :
               /\ NodeAt(d[j], k)
               /\ k # 0 => \E m \in D : Rec(d[j]).lower = m /\ NodeAt(m, k - 1)
  <2>1. l - j \in Levels
    BY <1>0, IndexStoreAssumption DEF Levels
  <2>2. ASSUME l - j # 0
        PROVE  Rec(d[j]).lower \in D /\ NodeAt(Rec(d[j]).lower, (l - j) - 1)
    <3>1. j < l /\ j + 1 \in 0 .. l /\ (l - j) - 1 = l - (j + 1)
      BY <1>0, <2>2
    <3>2. Rec(d[j]).lower = d[j + 1]
      BY <1>1, <1>2, <3>1 DEF Lower
    <3> QED BY <1>2, <3>1, <3>2
  <2> QED BY <1>2, <2>1, <2>2
<1>5. Whole(D) /\ n \in D
  <2>1. n \in D
    BY <1>0, <1>1
  <2>2. \A x \in D : \E j \in 0 .. l : x = d[j]
    OBVIOUS
  <2> HIDE DEF D
  <2>3. Whole(D)
    BY <1>4, <2>2 DEF Whole
  <2> QED BY <2>1, <2>3
<1> QED BY <1>3, <1>5

LEMMA WholeUnion ==
  ASSUME NEW V, NEW W, Whole(V), Whole(W)
  PROVE  Whole(V \cup W)
BY DEF Whole

\* A node is the top of its chain exactly when hd says so.
LEMMA TopIsHead ==
  ASSUME IndexInv, NEW hd, Forest(hd), NEW n \in NIDs, Holds(n)
  PROVE  IsTop(n) <=> hd[n] = n
<1>1. ASSUME IsTop(n), hd[n] # n PROVE FALSE
  <2>1. PICK m \in NIDs : Holds(m) /\ Rec(m).lower = n
    BY <1>1 DEF Forest
  <2>2. m \in (1 .. Len(pages)) \X Slots
    BY <2>1, HoldsPlace DEF IndexInv
  <2>3. m = <<m[1], m[2]>> /\ m[1] \in 1 .. Len(pages) /\ m[2] \in Slots
    BY <2>2
  <2>4. Lower(m) = n
    BY <2>1 DEF Lower
  <2> QED BY <1>1, <2>3, <2>4 DEF IsTop
<1>2. ASSUME hd[n] = n, NEW p \in 1 .. Len(pages), NEW s \in Slots, Lower(<<p, s>>) = n
      PROVE  FALSE
  <2> DEFINE m == <<p, s>>
  <2>1. n # NoNode
    BY NoNodeDead
  <2>2. Holds(m) /\ Rec(m).lower = n
    BY <1>2, <2>1 DEF Lower
  <2>3. m \in NIDs
    <3>1. p \in 1 .. MaxPages
      BY LenProperties, IndexStoreAssumption DEF IndexInv, TypeOK
    <3> QED BY <3>1 DEF NIDs
  <2> HIDE DEF m
  <2> QED BY <1>2, <2>1, <2>2, <2>3 DEF Forest
<1> QED BY <1>1, <1>2 DEF IsTop

-------------------------------------------------------------------------------
(* Steps that leave the nodes alone.                                       *)

\* Node n, if there is one, stays, with its record.
Stays(n) ==
  Holds(n) => /\ Holds(n)' /\ Rec(n)' = Rec(n)
              /\ pages'[n[1]].root = pages[n[1]].root
              /\ \A l \in Levels : NodeAt(n, l)' <=> NodeAt(n, l)

SameNodes == \A n \in NIDs : Stays(n) /\ (Holds(n)' => Holds(n))

LEMMA LowerType ==
  ASSUME TypeOK, NEW n \in NIDs, Holds(n)
  PROVE  Rec(n) \in NodeRec /\ Rec(n).lower \in NIDs /\ Rec(n).owner \in Elements
BY HoldsPlace DEF Rec, NodeRec

LEMMA UnchangedNodes ==
  ASSUME UNCHANGED <<pages, refs>>
  PROVE  SameNodes
BY DEF SameNodes, Stays, Holds, Rec, NodeAt

LEMMA ForestSame ==
  ASSUME SameNodes, NEW hd, Forest(hd)
  PROVE  Forest(hd)'
<1>1. ASSUME NEW n \in NIDs, Holds(n)'
      PROVE  /\ pages'[n[1]].root # INVALID_REF
             /\ hd[n] # n => \E m \in NIDs : Holds(m)' /\ Rec(m)'.lower = n
             /\ NodeAt(n, 0)' => Rec(n)'.lower = NoNode
  BY <1>1, FirstStores DEF SameNodes, Stays, Forest
<1>2. ASSUME NEW n \in NIDs, NEW m \in NIDs, Holds(n)', Rec(n)'.lower = m, m # NoNode
      PROVE  /\ Holds(m)' /\ hd[m] = hd[n] /\ hd[m] # m /\ Rec(m)'.owner = Rec(n)'.owner
             /\ \A k \in NIDs : Holds(k)' /\ Rec(k)'.lower = m => k = n
  BY <1>2 DEF SameNodes, Stays, Forest
<1> QED BY <1>1, <1>2, Zenon DEF Forest

LEMMA WholeSame ==
  ASSUME SameNodes, NEW W \in SUBSET NIDs, Whole(W)
  PROVE  Whole(W)'
<1> SUFFICES ASSUME NEW n \in W
             PROVE  \E l \in Levels :
                      /\ NodeAt(n, l)'
                      /\ l # 0 => \E m \in W : Rec(n)'.lower = m /\ NodeAt(m, l - 1)'
  BY Zenon DEF Whole
<1>1. PICK l \in Levels :
        /\ NodeAt(n, l)
        /\ l # 0 => \E m \in W : Rec(n).lower = m /\ NodeAt(m, l - 1)
  BY DEF Whole
<1>2. Holds(n) /\ n \in NIDs
  BY <1>1 DEF NodeAt
<1>3. NodeAt(n, l)' /\ Rec(n)' = Rec(n)
  BY <1>1, <1>2 DEF SameNodes, Stays
<1>4. ASSUME l # 0 PROVE \E m \in W : Rec(n)'.lower = m /\ NodeAt(m, l - 1)'
  <2>1. PICK m \in W : Rec(n).lower = m /\ NodeAt(m, l - 1)
    BY <1>1, <1>4
  <2>2. l - 1 \in Levels /\ Holds(m)
    BY <1>4, <2>1, IndexStoreAssumption DEF Levels, NodeAt
  <2>3. NodeAt(m, l - 1)'
    BY <2>1, <2>2 DEF SameNodes, Stays
  <2> QED BY <1>3, <2>1, <2>3
<1> QED BY <1>3, <1>4

\* A call whose path stays.
LEMMA PathFrame ==
  ASSUME NEW c \in CallType, NEW hd, NEW gd, NEW W, NEW V, PathOK(c, hd, W),
         \A j \in 1 .. Len(c.path) : /\ Stays(c.path[j])
                                     /\ gd[c.path[j]] = hd[c.path[j]]
                                     /\ c.path[j] \in W => c.path[j] \in V,
         c.op = "insert" => handle'[c.e] = handle[c.e],
         c.op = "remove" /\ c.at # "end" /\ ~c.excl /\ ~strayed' => meta'.nid # c.path[1]
  PROVE  PathOK(c, gd, V)'
<1>0. c.path \in Seq(NIDs) /\ c.top \in Levels /\ Len(c.path) \in Nat
  BY LenProperties DEF CallType
<1>1. ASSUME NEW j \in 1 .. Len(c.path)
      PROVE  /\ NodeAt(c.path[j], c.top + 1 - j)'
             /\ gd[c.path[j]] = c.path[1]
             /\ Rec(c.path[j])'.owner = c.e
             /\ j < Len(c.path) => Rec(c.path[j])'.lower = c.path[j + 1]
             /\ j = Len(c.path) /\ c.at # "down" => Rec(c.path[j])'.lower = NoNode
             /\ j = Len(c.path) /\ c.at = "down" => c.path[j] \in V
  <2>1. c.top + 1 - j \in Levels
    BY <1>0, IndexStoreAssumption DEF Levels, PathOK
  <2>2. NodeAt(c.path[j], c.top + 1 - j) /\ Holds(c.path[j])
    BY DEF PathOK, NodeAt
  <2>3. NodeAt(c.path[j], c.top + 1 - j)' /\ Rec(c.path[j])' = Rec(c.path[j])
    BY <2>1, <2>2 DEF Stays
  <2> QED BY <2>3 DEF PathOK
<1>2. /\ Len(c.path) <= c.top + 1
      /\ c.at = "down" => Len(c.path) <= c.top
      /\ c.op = "insert" => handle'[c.e] = NoNode
      /\ c.op = "insert" /\ c.at = "end" => Len(c.path) = c.top + 1
      /\ c.op = "remove" /\ c.at # "end" /\ ~c.excl /\ ~strayed' => meta'.nid # c.path[1]
  BY DEF PathOK
<1> QED BY <1>1, <1>2, Zenon DEF PathOK

LEMMA CallOrNone ==
  /\ NoCall \notin CallType
  /\ \A c \in CallType : c.op # "idle" /\ c.e \in Elements
BY DEF NoCall, CallType

LEMMA PathsFrame ==
  ASSUME TypeOK, NEW t \in Threads, NEW d \in CallType \cup {NoCall},
         call' = [call EXCEPT ![t] = d], NEW gd, NEW V,
         d \in CallType => PathOK(d, gd, V)',
         \A u \in Threads \ {t}, c \in CallType : call[u] = c => PathOK(c, gd, V)'
  PROVE  Paths(gd, V)'
<1> SUFFICES ASSUME NEW u \in Threads, NEW c \in CallType, call'[u] = c
             PROVE  PathOK(c, gd, V)'
  BY DEF Paths
<1>1. CASE u = t
  <2>1. c = d
    BY <1>1 DEF TypeOK
  <2> QED BY <2>1
<1>2. CASE u # t
  BY <1>2 DEF TypeOK
<1> QED BY <1>1, <1>2

\* Who is in a call after a step of thread t.
LEMMA InCallAfter ==
  ASSUME TypeOK, NEW t \in Threads, NEW d, call' = [call EXCEPT ![t] = d],
         NEW e, ~InCall(e)', InCall(e)
  PROVE  /\ Busy(t) /\ call[t].e = e
         /\ d.op # "idle" => d.e # e
BY DEF InCall, Busy, TypeOK

LEMMA ReplacingAfter ==
  ASSUME TypeOK, NEW t \in Threads, NEW d, call' = [call EXCEPT ![t] = d],
         ~Replacing', Replacing
  PROVE  call[t].op = "remove" /\ call[t].excl /\ ~(d.op = "remove" /\ d.excl)
BY DEF Replacing, TypeOK

LEMMA ApartFrame ==
  ASSUME TypeOK, CallsApart, NEW t \in Threads, NEW d, call' = [call EXCEPT ![t] = d],
         d.op # "idle" => \A u \in Threads \ {t} : Busy(u) =>
                            call[u].e # d.e /\ ~d.excl /\ ~call[u].excl
  PROVE  CallsApart'
BY DEF CallsApart, Busy, TypeOK

\* A call that goes on, with the element it has.
LEMMA ApartOn ==
  ASSUME TypeOK, CallsApart, NEW t \in Threads, NEW d, call' = [call EXCEPT ![t] = d],
         d.op = "idle" \/ (Busy(t) /\ d.e = call[t].e /\ (d.excl => call[t].excl))
  PROVE  CallsApart'
BY DEF CallsApart, Busy, TypeOK

\* A step of thread t that leaves the nodes alone, and adds to W.
LEMMA CallChains ==
  ASSUME IndexInv, SameNodes, NEW t \in Threads, NEW d \in CallType \cup {NoCall},
         call' = [call EXCEPT ![t] = d],
         NEW hd, NEW W \in SUBSET NIDs, NEW V \in SUBSET NIDs, W \subseteq V,
         Chains(hd, W), Whole(V),
         d \in CallType => PathOK(d, hd, V)',
         \A u \in Threads \ {t} : Busy(u) => /\ handle'[call[u].e] = handle[call[u].e]
                                             /\ meta'.nid = meta.nid
                                             /\ strayed' = strayed,
         \A e \in Elements : handle'[e] # NoNode /\ ~InCall(e)' =>
           handle'[e] \in V /\ hd[handle'[e]] = handle'[e] /\ Rec(handle'[e]).owner = e,
         meta'.nid # NoNode /\ ~Replacing' /\ ~strayed' =>
           /\ meta'.nid \in V /\ meta'.level \in Levels
           /\ NodeAt(meta'.nid, meta'.level) /\ hd[meta'.nid] = meta'.nid
  PROVE  Chains(hd, V)'
<1>0. TypeOK
  BY DEF IndexInv
<1>1. Forest(hd)'
  BY ForestSame DEF Chains
<1>2. Whole(V)'
  BY WholeSame
<1>3. Paths(hd, V)'
  <2>1. ASSUME NEW u \in Threads \ {t}, NEW c \in CallType, call[u] = c
        PROVE  PathOK(c, hd, V)'
    <3>1. PathOK(c, hd, W)
      BY <2>1 DEF Chains, Paths
    <3>2. Busy(u)
      BY <2>1, CallOrNone DEF Busy
    <3>3. \A j \in 1 .. Len(c.path) : c.path[j] \in NIDs
      BY ElementOfSeq DEF CallType
    <3>4. \A j \in 1 .. Len(c.path) : Stays(c.path[j]) /\ (c.path[j] \in W => c.path[j] \in V)
      BY <3>3 DEF SameNodes
    <3>5. handle'[c.e] = handle[c.e] /\ meta'.nid = meta.nid /\ strayed' = strayed
      BY <2>1, <3>2
    <3>6. c.op = "remove" /\ c.at # "end" /\ ~c.excl /\ ~strayed' => meta'.nid # c.path[1]
      BY <3>1, <3>5 DEF PathOK
    <3> QED BY <3>1, <3>4, <3>5, <3>6, PathFrame
  <2> QED BY <1>0, <2>1, PathsFrame
<1>4. \A n \in V : Rec(n)' = Rec(n) /\ \A l \in Levels : NodeAt(n, l) => NodeAt(n, l)'
  BY WholeHolds DEF SameNodes, Stays
<1>5. HandlesWhole(hd, V)'
  <2> SUFFICES ASSUME NEW e \in Elements, handle'[e] # NoNode, ~InCall(e)'
               PROVE  /\ handle'[e] \in V /\ hd[handle'[e]] = handle'[e]
                      /\ Rec(handle[e])'.owner = e
    BY DEF HandlesWhole
  <2>1. PICK n \in V : n = handle'[e] /\ hd[n] = n /\ Rec(n).owner = e
    OBVIOUS
  <2>2. Rec(handle[e])' = Rec(n)'
    BY <2>1 DEF Rec
  <2> QED BY <1>4, <2>1, <2>2
<1>6. EntryWhole(hd, V)'
  <2> SUFFICES ASSUME meta'.nid # NoNode, ~Replacing', ~strayed'
               PROVE  /\ meta'.nid \in V /\ hd[meta'.nid] = meta'.nid
                      /\ NodeAt(meta.nid, meta.level)'
    BY DEF EntryWhole
  <2>1. PICK n \in V, l \in Levels :
          n = meta'.nid /\ l = meta'.level /\ hd[n] = n /\ NodeAt(n, l)
    OBVIOUS
  <2>2. NodeAt(n, l)'
    BY <1>4, <2>1
  <2>3. NodeAt(meta.nid, meta.level)' = NodeAt(n, l)'
    BY <2>1 DEF NodeAt, Holds
  <2> QED BY <2>1, <2>2, <2>3
<1> QED BY <1>1, <1>2, <1>3, <1>5, <1>6 DEF Chains

\* The parts of CallChains that a step leaves alone.
LEMMA HandlesKept ==
  ASSUME TypeOK, NEW t \in Threads, NEW d, call' = [call EXCEPT ![t] = d],
         Busy(t) => d.op # "idle" /\ d.e = call[t].e,
         UNCHANGED handle, NEW hd, NEW W, HandlesWhole(hd, W)
  PROVE  \A e \in Elements : handle'[e] # NoNode /\ ~InCall(e)' =>
           handle'[e] \in W /\ hd[handle'[e]] = handle'[e] /\ Rec(handle'[e]).owner = e
<1> SUFFICES ASSUME NEW e \in Elements, handle'[e] # NoNode, ~InCall(e)'
             PROVE  handle'[e] \in W /\ hd[handle'[e]] = handle'[e] /\ Rec(handle'[e]).owner = e
  OBVIOUS
<1>1. ~InCall(e)
  BY InCallAfter
<1> QED BY <1>1 DEF HandlesWhole

LEMMA EntryKept ==
  ASSUME TypeOK, NEW t \in Threads, NEW d, call' = [call EXCEPT ![t] = d],
         call[t].op = "remove" /\ call[t].excl => d.op = "remove" /\ d.excl,
         UNCHANGED <<meta, strayed>>, NEW hd, NEW W, EntryWhole(hd, W)
  PROVE  meta'.nid # NoNode /\ ~Replacing' /\ ~strayed' =>
           /\ meta'.nid \in W /\ meta'.level \in Levels
           /\ NodeAt(meta'.nid, meta'.level) /\ hd[meta'.nid] = meta'.nid
<1> SUFFICES ASSUME meta'.nid # NoNode, ~Replacing', ~strayed'
             PROVE  /\ meta'.nid \in W /\ meta'.level \in Levels
                    /\ NodeAt(meta'.nid, meta'.level) /\ hd[meta'.nid] = meta'.nid
  OBVIOUS
<1>1. ~Replacing
  BY ReplacingAfter
<1> QED BY <1>1 DEF EntryWhole, TypeOK, EntryType

LEMMA EntryKnownKept ==
  ASSUME EntryKnown, UNCHANGED <<pages, refs, meta, strayed, up, entry>>
  PROVE  EntryKnown'
BY DEF EntryKnown, BuiltLevels

LEMMA InsertCallChains ==
  ASSUME IndexInv, ChainInv, NEW t \in Threads, NEW e \in Elements, NEW l \in Levels,
         InsertCall(t, e, l)
  PROVE  ChainInv'
<1>1. PICK hd \in [NIDs -> NIDs], W \in SUBSET NIDs : Chains(hd, W)
  BY DEF ChainInv
<1>2. PICK b \in BOOLEAN : /\ MayBegin(t, b) /\ handle[e] = NoNode /\ ~InCall(e)
                           /\ call' = [call EXCEPT ![t] =
                                [op |-> "insert", at |-> "levels", e |-> e, top |-> l,
                                 excl |-> b, path |-> <<>>]]
  BY DEF InsertCall
<1>3. PICK d : d = [op |-> "insert", at |-> "levels", e |-> e, top |-> l,
                    excl |-> b, path |-> <<>>]
  OBVIOUS
<1>4. /\ d \in CallType /\ d.op = "insert" /\ d.at = "levels" /\ d.e = e /\ d.excl = b
      /\ Len(d.path) = 0 /\ d.top = l /\ call' = [call EXCEPT ![t] = d]
  BY <1>2, <1>3, EmptySeq DEF CallType
<1>5. TypeOK /\ UNCHANGED <<pages, refs, meta, strayed, handle, up, entry>> /\ ~Busy(t)
  BY <1>2 DEF IndexInv, InsertCall, onPages, inMemory, MayBegin
<1>6. PathOK(d, hd, W)'
  BY <1>2, <1>4, <1>5 DEF PathOK, Levels
<1>7. SameNodes
  BY <1>5, UnchangedNodes
<1>8. CallsApart'
  <2>1. \A u \in Threads \ {t} : Busy(u) => call[u].e # d.e /\ ~d.excl /\ ~call[u].excl
    BY <1>2, <1>4 DEF MayBegin, InCall
  <2> QED BY <1>4, <1>5, <2>1, ApartFrame DEF ChainInv
<1>9. /\ call[t].op = "remove" /\ call[t].excl => d.op = "remove" /\ d.excl
      /\ Busy(t) => d.op # "idle" /\ d.e = call[t].e
  BY <1>5 DEF Busy
<1>10. Chains(hd, W)'
  <2>1. HandlesWhole(hd, W) /\ EntryWhole(hd, W) /\ Whole(W)
    BY <1>1 DEF Chains
  <2> QED BY <1>1, <1>4, <1>5, <1>6, <1>7, <1>9, <2>1, HandlesKept, EntryKept, CallChains
<1>11. EntryKnown'
  BY <1>5, EntryKnownKept DEF ChainInv
<1> QED BY <1>8, <1>10, <1>11 DEF ChainInv

LEMMA EnsureDoneChains ==
  ASSUME IndexInv, ChainInv, NEW t \in Threads, EnsureDone(t)
  PROVE  ChainInv'
<1>1. PICK hd \in [NIDs -> NIDs], W \in SUBSET NIDs : Chains(hd, W)
  BY DEF ChainInv
<1>2. PICK c, d : c = call[t] /\ d = [c EXCEPT !.at = "nodes"]
  OBVIOUS
<1>3. TypeOK /\ UNCHANGED <<pages, refs, meta, strayed, handle, up, entry>> /\ Busy(t) /\ c.at = "levels"
  BY <1>2 DEF IndexInv, EnsureDone, onPages, inMemory
<1>4. /\ c \in CallType /\ c.path = <<>> /\ c.op = "insert"
  BY <1>2, <1>3, BusyType DEF IndexInv, CallsOK, CallOK, Busy, CallType
<1>5. /\ d \in CallType /\ d.op = "insert" /\ d.at = "nodes" /\ d.e = c.e /\ d.excl = c.excl
      /\ Len(d.path) = 0 /\ d.top = c.top /\ call' = [call EXCEPT ![t] = d]
  BY <1>2, <1>4, EmptySeq DEF CallType, EnsureDone
<1>6. PathOK(d, hd, W)'
  <2>1. PathOK(c, hd, W)
    BY <1>1, <1>2, <1>4 DEF Chains, Paths
  <2>2. d.top \in Nat
    BY <1>5 DEF CallType, Levels
  <2> QED BY <1>3, <1>4, <1>5, <2>1, <2>2 DEF PathOK
<1>7. SameNodes
  BY <1>3, UnchangedNodes
<1>8. CallsApart'
  BY <1>2, <1>3, <1>5, ApartOn DEF ChainInv
<1>9. /\ call[t].op = "remove" /\ call[t].excl => d.op = "remove" /\ d.excl
      /\ Busy(t) => d.op # "idle" /\ d.e = call[t].e
  BY <1>2, <1>4, <1>5
<1>10. Chains(hd, W)'
  <2>1. HandlesWhole(hd, W) /\ EntryWhole(hd, W) /\ Whole(W)
    BY <1>1 DEF Chains
  <2> QED BY <1>1, <1>3, <1>5, <1>6, <1>7, <1>9, <2>1, HandlesKept, EntryKept, CallChains
<1>11. EntryKnown'
  BY <1>3, EntryKnownKept DEF ChainInv
<1> QED BY <1>8, <1>10, <1>11 DEF ChainInv

\* A path that has come down to level 0 is whole.
LEMMA FullPath ==
  ASSUME NEW c \in CallType, NEW hd, NEW W, PathOK(c, hd, W), Len(c.path) = c.top + 1
  PROVE  \E D \in SUBSET NIDs : Whole(D) /\ c.path[1] \in D
<1> DEFINE D == {c.path[j] : j \in 1 .. Len(c.path)}
<1>0. c.path \in Seq(NIDs) /\ c.top \in Nat /\ c.top \in Levels
  BY DEF CallType, Levels
<1>1. D \in SUBSET NIDs
  BY <1>0, ElementOfSeq
<1>2. c.path[1] \in D
  BY <1>0
<1>3. ASSUME NEW j \in 1 .. Len(c.path)
      PROVE  \E l \in Levels :
               /\ NodeAt(c.path[j], l)
               /\ l # 0 => \E m \in D : Rec(c.path[j]).lower = m /\ NodeAt(m, l - 1)
  <2>1. c.top + 1 - j \in Levels
    BY <1>0, IndexStoreAssumption DEF Levels
  <2>2. NodeAt(c.path[j], c.top + 1 - j)
    BY DEF PathOK
  <2>3. ASSUME c.top + 1 - j # 0
        PROVE  \E m \in D : Rec(c.path[j]).lower = m /\ NodeAt(m, (c.top + 1 - j) - 1)
    <3>1. j + 1 \in 1 .. Len(c.path) /\ j < Len(c.path)
          /\ (c.top + 1 - j) - 1 = c.top + 1 - (j + 1)
      BY <1>0, <2>3
    <3>2. Rec(c.path[j]).lower = c.path[j + 1] /\ NodeAt(c.path[j + 1], c.top + 1 - (j + 1))
      BY <3>1 DEF PathOK
    <3> QED BY <3>1, <3>2
  <2> QED BY <2>1, <2>2, <2>3
<1>4. \A n \in D : \E j \in 1 .. Len(c.path) : n = c.path[j]
  OBVIOUS
<1> HIDE DEF D
<1>5. Whole(D)
  BY <1>3, <1>4 DEF Whole
<1> QED BY <1>1, <1>2, <1>5

\* An insert at its end heads a whole chain of its element.
LEMMA InsertedChain ==
  ASSUME IndexInv, NEW t \in Threads, NEW hd, NEW W, Chains(hd, W),
         call[t].op = "insert", call[t].at = "end"
  PROVE  /\ call[t] \in CallType /\ PathOK(call[t], hd, W)
         /\ call[t].path[1] \in NIDs /\ call[t].path[1] # NoNode
         /\ NodeAt(call[t].path[1], call[t].top)
         /\ hd[call[t].path[1]] = call[t].path[1]
         /\ Rec(call[t].path[1]).owner = call[t].e
         /\ \E D \in SUBSET NIDs : Whole(D) /\ call[t].path[1] \in D
<1>1. PICK c : c = call[t]
  OBVIOUS
<1>2. /\ c \in CallType /\ c.path \in Seq(NIDs) /\ c.path[1] # NoNode /\ c.path # <<>>
      /\ c.top \in Nat
  BY <1>1, BusyType DEF IndexInv, CallsOK, CallOK, Busy, Levels
<1>3. PathOK(c, hd, W)
  BY <1>1, <1>2 DEF Chains, Paths
<1>4. Len(c.path) = c.top + 1 /\ 1 \in 1 .. Len(c.path) /\ c.top + 1 - 1 = c.top
  BY <1>1, <1>2, <1>3 DEF PathOK
<1>5. NodeAt(c.path[1], c.top) /\ hd[c.path[1]] = c.path[1] /\ Rec(c.path[1]).owner = c.e
  BY <1>3, <1>4 DEF PathOK
<1>6. c.path[1] \in NIDs
  BY <1>2, <1>4, ElementOfSeq
<1> QED BY <1>1, <1>2, <1>3, <1>4, <1>5, <1>6, FullPath

LEMMA InsertEntryPointChains ==
  ASSUME IndexInv, ChainInv, NEW t \in Threads, InsertEntryPoint(t)
  PROVE  ChainInv'
<1>1. PICK hd \in [NIDs -> NIDs], W \in SUBSET NIDs : Chains(hd, W)
  BY DEF ChainInv
<1>2. PICK c, d, n : c = call[t] /\ d = [c EXCEPT !.excl = FALSE] /\ n = c.path[1]
  OBVIOUS
<1>3. /\ TypeOK /\ UNCHANGED <<pages, refs, handle, up>> /\ Busy(t)
      /\ c.op = "insert" /\ c.at = "end" /\ c.excl
      /\ meta' = [nid |-> n, level |-> c.top] /\ entry' = meta'
  BY <1>2 DEF IndexInv, InsertEntryPoint, SetEntryPoint, UpdateMetadata, Busy
<1>4. /\ c \in CallType /\ PathOK(c, hd, W) /\ n \in NIDs /\ n # NoNode
      /\ NodeAt(n, c.top) /\ hd[n] = n /\ Rec(n).owner = c.e
      /\ \E D \in SUBSET NIDs : Whole(D) /\ n \in D
  BY <1>1, <1>2, <1>3, InsertedChain
<1>5. PICK D \in SUBSET NIDs : Whole(D) /\ n \in D
  BY <1>4
<1>6. PICK V \in SUBSET NIDs : V = W \cup D
  BY <1>1, <1>5
<1>7. Whole(V) /\ n \in V
  BY <1>1, <1>5, <1>6, WholeUnion DEF Chains
<1>8. /\ d \in CallType /\ d.op = "insert" /\ d.at = "end" /\ d.e = c.e /\ d.excl = FALSE
      /\ d.path = c.path /\ d.top = c.top /\ call' = [call EXCEPT ![t] = d]
  BY <1>2, <1>3, <1>4 DEF CallType, InsertEntryPoint
<1>9. SameNodes
  BY <1>3, UnchangedNodes
<1>10. PathOK(d, hd, V)'
  <2>1. \A j \in 1 .. Len(c.path) : c.path[j] \in NIDs
    BY <1>4, ElementOfSeq DEF CallType
  <2>2. \A j \in 1 .. Len(c.path) : Stays(c.path[j]) /\ (c.path[j] \in W => c.path[j] \in V)
    BY <1>6, <1>9, <2>1 DEF SameNodes
  <2>3. PathOK(c, hd, V)'
    BY <1>3, <1>4, <2>2, PathFrame
  <2> QED BY <1>3, <1>8, <2>3 DEF PathOK
<1>11. CallsApart'
  BY <1>2, <1>3, <1>8, ApartOn DEF ChainInv
<1>12. \A u \in Threads \ {t} : ~Busy(u)
  BY <1>2, <1>3 DEF ChainInv, CallsApart
<1>13. /\ Busy(t) => d.op # "idle" /\ d.e = call[t].e
  BY <1>2, <1>8
<1>14. /\ meta'.nid = n /\ meta'.level = c.top /\ c.top \in Levels
  BY <1>3, <1>4 DEF CallType
<1>15. Chains(hd, V)'
  <2>1. HandlesWhole(hd, V)
    BY <1>1, <1>6 DEF Chains, HandlesWhole
  <2>2. \A e \in Elements : handle'[e] # NoNode /\ ~InCall(e)' =>
           handle'[e] \in V /\ hd[handle'[e]] = handle'[e] /\ Rec(handle'[e]).owner = e
    BY <1>3, <1>8, <1>13, <2>1, HandlesKept
  <2>3. /\ meta'.nid \in V /\ meta'.level \in Levels
        /\ NodeAt(meta'.nid, meta'.level) /\ hd[meta'.nid] = meta'.nid
    BY <1>4, <1>7, <1>14
  <2>4. W \subseteq V
    BY <1>6
  <2> QED BY <1>1, <1>7, <1>8, <1>9, <1>10, <1>12, <2>2, <2>3, <2>4, CallChains
<1>16. EntryKnown'
  <2>1. c.top \in BuiltLevels(refs)
    BY <1>2, <1>3 DEF IndexInv, CallsOK, CallOK, Busy, StoresRestored
  <2>2. BuiltLevels(refs)' = BuiltLevels(refs)
    BY <1>3 DEF BuiltLevels
  <2> QED BY <1>3, <1>14, <2>1, <2>2 DEF EntryKnown
<1> QED BY <1>11, <1>15, <1>16 DEF ChainInv

LEMMA InsertReturnChains ==
  ASSUME IndexInv, ChainInv, NEW t \in Threads, InsertReturn(t)
  PROVE  ChainInv'
<1>1. PICK hd \in [NIDs -> NIDs], W \in SUBSET NIDs : Chains(hd, W)
  BY DEF ChainInv
<1>2. PICK c, n : c = call[t] /\ n = c.path[1]
  OBVIOUS
<1>3. /\ TypeOK /\ UNCHANGED <<pages, refs, meta, strayed, up, entry>> /\ Busy(t)
      /\ c.op = "insert" /\ c.at = "end" /\ ~c.excl
      /\ handle' = [handle EXCEPT ![c.e] = n]
      /\ call' = [call EXCEPT ![t] = NoCall]
  BY <1>2 DEF IndexInv, InsertReturn, inMemory, Busy
<1>4. /\ c \in CallType /\ PathOK(c, hd, W) /\ n \in NIDs /\ n # NoNode
      /\ hd[n] = n /\ Rec(n).owner = c.e
      /\ \E D \in SUBSET NIDs : Whole(D) /\ n \in D
  BY <1>1, <1>2, <1>3, InsertedChain
<1>5. PICK D \in SUBSET NIDs : Whole(D) /\ n \in D
  BY <1>4
<1>6. PICK V \in SUBSET NIDs : V = W \cup D
  BY <1>1, <1>5
<1>7. Whole(V) /\ n \in V /\ W \subseteq V
  BY <1>1, <1>5, <1>6, WholeUnion DEF Chains
<1>8. SameNodes
  BY <1>3, UnchangedNodes
<1>9. NoCall.op = "idle" /\ NoCall \notin CallType
  BY CallOrNone DEF NoCall
<1>10. CallsApart'
  BY <1>3, <1>9, ApartOn DEF ChainInv
<1>11. \A u \in Threads \ {t} : Busy(u) => handle'[call[u].e] = handle[call[u].e]
  <2> SUFFICES ASSUME NEW u \in Threads \ {t}, Busy(u)
               PROVE  handle'[call[u].e] = handle[call[u].e]
    OBVIOUS
  <2>1. call[u].e # c.e /\ call[u].e \in Elements
    BY <1>2, <1>3, BusyType DEF ChainInv, CallsApart
  <2> QED BY <1>3, <2>1 DEF TypeOK
<1>12. ASSUME NEW e \in Elements, handle'[e] # NoNode, ~InCall(e)'
       PROVE  handle'[e] \in V /\ hd[handle'[e]] = handle'[e] /\ Rec(handle'[e]).owner = e
  <2>1. CASE e = c.e
    <3>1. handle'[e] = n
      BY <1>3, <2>1 DEF TypeOK
    <3> QED BY <1>4, <1>7, <2>1, <3>1
  <2>2. CASE e # c.e
    <3>1. handle'[e] = handle[e]
      BY <1>3, <2>2 DEF TypeOK
    <3>2. ~InCall(e)
      BY <1>2, <1>3, <1>12, <2>2, InCallAfter
    <3> QED BY <1>1, <1>7, <1>12, <3>1, <3>2 DEF Chains, HandlesWhole
  <2> QED BY <2>1, <2>2
<1>13. call[t].op = "remove" /\ call[t].excl => NoCall.op = "remove" /\ NoCall.excl
  BY <1>2, <1>3
<1>14. Chains(hd, V)'
  <2>1. EntryWhole(hd, V)
    BY <1>1, <1>7 DEF Chains, EntryWhole
  <2>2. meta'.nid # NoNode /\ ~Replacing' /\ ~strayed' =>
           /\ meta'.nid \in V /\ meta'.level \in Levels
           /\ NodeAt(meta'.nid, meta'.level) /\ hd[meta'.nid] = meta'.nid
    BY <1>3, <1>13, <2>1, EntryKept
  <2> QED BY <1>1, <1>3, <1>7, <1>8, <1>9, <1>11, <1>12, <2>2, CallChains
<1>15. EntryKnown'
  BY <1>3, EntryKnownKept DEF ChainInv
<1> QED BY <1>10, <1>14, <1>15 DEF ChainInv

LEMMA RemoveCallChains ==
  ASSUME IndexInv, ChainInv, NEW t \in Threads, NEW e \in Elements, RemoveCall(t, e)
  PROVE  ChainInv'
<1>1. PICK hd \in [NIDs -> NIDs], W \in SUBSET NIDs : Chains(hd, W)
  BY DEF ChainInv
<1>0. PICK n : n = handle[e]
  OBVIOUS
<1>2. PICK l \in Locate(handle[e]), b \in BOOLEAN :
        /\ n = handle[e] /\ b = (entry = [nid |-> n, level |-> l])
        /\ MayBegin(t, b) /\ n # NoNode /\ ~InCall(e) /\ Holds(n)
        /\ call' = [call EXCEPT ![t] =
              [op |-> "remove", at |-> IF l = 0 THEN "nodes" ELSE "down",
               e |-> e, top |-> l, excl |-> b, path |-> <<n>>]]
  BY <1>0 DEF RemoveCall
<1>3. PICK d : d = [op |-> "remove", at |-> IF l = 0 THEN "nodes" ELSE "down",
                    e |-> e, top |-> l, excl |-> b, path |-> <<n>>]
  OBVIOUS
<1>4. TypeOK /\ UNCHANGED <<pages, refs, meta, strayed, handle, up, entry>> /\ ~Busy(t) /\ up
  BY <1>2 DEF IndexInv, RemoveCall, onPages, inMemory, MayBegin
<1>5. n \in NIDs /\ l \in Levels /\ l \in Nat
  BY <1>2, <1>4 DEF Locate, TypeOK, Levels
<1>6. /\ d \in CallType /\ d.op = "remove" /\ d.at = (IF l = 0 THEN "nodes" ELSE "down")
      /\ d.e = e /\ d.excl = b /\ d.path = <<n>> /\ d.top = l /\ call' = [call EXCEPT ![t] = d]
  BY <1>2, <1>3, <1>5 DEF CallType
<1>7. n \in W /\ hd[n] = n /\ Rec(n).owner = e
  BY <1>1, <1>2 DEF Chains, HandlesWhole
<1>8. NodeAt(n, l)
  BY <1>2, <1>4 DEF Locate, RootIndex, NodeAt, IndexInv, StoresRestored
<1>9. ASSUME ~b, ~strayed PROVE meta.nid # n
  <2> SUFFICES ASSUME meta.nid = n PROVE FALSE
    OBVIOUS
  <2>1. ~Replacing
    BY <1>2 DEF MayBegin, Replacing, Busy
  <2>2. NodeAt(n, meta.level) /\ meta.level \in Levels
    BY <1>1, <1>2, <1>4, <1>9, <2>1 DEF Chains, EntryWhole, TypeOK, EntryType
  <2>3. meta.level = l
    BY <1>1, <1>2, <1>5, <1>8, <2>2, LevelUnique DEF Chains, Forest
  <2>4. entry = [nid |-> n, level |-> l]
    BY <1>4, <2>3 DEF ChainInv, EntryKnown, TypeOK, EntryType
  <2> QED BY <1>2, <1>9, <2>4
<1>10. PathOK(d, hd, W)'
  <2>1. Len(d.path) = 1 /\ d.path[1] = n
    BY <1>6
  <2>2. NodeAt(n, l)' /\ Rec(n)' = Rec(n)
    BY <1>4, <1>8 DEF NodeAt, Holds, Rec
  <2>3. l = 0 => Rec(n).lower = NoNode
    BY <1>1, <1>2, <1>5, <1>8 DEF Chains, Forest
  <2>4. ASSUME NEW j \in 1 .. Len(d.path)
        PROVE  /\ NodeAt(d.path[j], d.top + 1 - j)'
               /\ hd[d.path[j]] = d.path[1]
               /\ Rec(d.path[j])'.owner = d.e
               /\ j < Len(d.path) => Rec(d.path[j])'.lower = d.path[j + 1]
               /\ j = Len(d.path) /\ d.at # "down" => Rec(d.path[j])'.lower = NoNode
               /\ j = Len(d.path) /\ d.at = "down" => d.path[j] \in W
    <3>1. j = 1 /\ d.top + 1 - j = l
      BY <1>5, <1>6, <2>1
    <3> QED BY <1>6, <1>7, <2>1, <2>2, <2>3, <3>1
  <2>5. /\ Len(d.path) <= d.top + 1
        /\ d.at = "down" => Len(d.path) <= d.top
    BY <1>5, <1>6, <2>1
  <2>6. /\ d.op # "insert"
        /\ ~d.excl /\ ~strayed' => meta'.nid # d.path[1]
    BY <1>4, <1>6, <1>9, <2>1
  <2> QED BY <2>4, <2>5, <2>6, Zenon DEF PathOK
<1>11. SameNodes
  BY <1>4, UnchangedNodes
<1>12. CallsApart'
  <2>1. \A u \in Threads \ {t} : Busy(u) => call[u].e # d.e /\ ~d.excl /\ ~call[u].excl
    BY <1>2, <1>6 DEF MayBegin, InCall
  <2> QED BY <1>6, <1>4, <2>1, ApartFrame DEF ChainInv
<1>13. /\ call[t].op = "remove" /\ call[t].excl => d.op = "remove" /\ d.excl
       /\ Busy(t) => d.op # "idle" /\ d.e = call[t].e
  BY <1>4 DEF Busy
<1>14. Chains(hd, W)'
  <2>1. HandlesWhole(hd, W) /\ EntryWhole(hd, W) /\ Whole(W)
    BY <1>1 DEF Chains
  <2> QED BY <1>1, <1>4, <1>6, <1>10, <1>11, <1>13, <2>1, HandlesKept, EntryKept, CallChains
<1>15. EntryKnown'
  BY <1>4, EntryKnownKept DEF ChainInv
<1> QED BY <1>12, <1>14, <1>15 DEF ChainInv

LEMMA RemoveDescendChains ==
  ASSUME IndexInv, ChainInv, NEW t \in Threads, RemoveDescend(t)
  PROVE  ChainInv'
<1>1. PICK hd \in [NIDs -> NIDs], W \in SUBSET NIDs : Chains(hd, W)
  BY DEF ChainInv
<1>2. PICK c, k, n, m : c = call[t] /\ k = Len(c.path) /\ n = c.path[k] /\ m = Lower(n)
  OBVIOUS
<1>3. PICK d : d = [c EXCEPT !.path = Append(c.path, m),
                             !.at = IF k = c.top THEN "nodes" ELSE c.at]
  OBVIOUS
<1>4. /\ TypeOK /\ UNCHANGED <<pages, refs, meta, strayed, handle, up, entry>> /\ Busy(t)
      /\ c.op = "remove" /\ c.at = "down" /\ Holds(n)
      /\ call' = [call EXCEPT ![t] = d]
  BY <1>2, <1>3 DEF IndexInv, RemoveDescend, onPages, inMemory, Busy
<1>5. /\ c \in CallType /\ c.path \in Seq(NIDs) /\ c.path # <<>>
      /\ c.top \in Levels /\ c.top \in Nat /\ k \in Nat
  BY <1>2, <1>4, BusyType, LenProperties DEF IndexInv, CallsOK, CallOK, Levels
<1>6. PathOK(c, hd, W)
  BY <1>1, <1>2, <1>5 DEF Chains, Paths
<1>7. k \in 1 .. k /\ k <= c.top /\ n \in NIDs
  BY <1>2, <1>4, <1>5, <1>6, EmptySeq, ElementOfSeq DEF PathOK
<1>8. NodeAt(n, c.top + 1 - k) /\ hd[n] = c.path[1] /\ Rec(n).owner = c.e /\ n \in W
  BY <1>2, <1>4, <1>6, <1>7 DEF PathOK
<1>9. c.top + 1 - k \in Levels /\ c.top + 1 - k # 0 /\ (c.top + 1 - k) - 1 = c.top + 1 - (k + 1)
      /\ c.top + 1 - (k + 1) \in Levels
  BY <1>5, <1>7, IndexStoreAssumption DEF Levels
<1>10. Rec(n).lower = m /\ m \in W /\ NodeAt(m, c.top + 1 - (k + 1))
  <2>1. Rec(n).lower = m
    BY <1>2, <1>4 DEF Lower
  <2>2. Rec(n).lower \in W /\ NodeAt(Rec(n).lower, (c.top + 1 - k) - 1)
    BY <1>1, <1>8, <1>9, WholeBelow DEF Chains
  <2> QED BY <1>9, <2>1, <2>2
<1>11. m \in NIDs /\ m # NoNode /\ Holds(m) /\ hd[m] = hd[n] /\ Rec(m).owner = Rec(n).owner
  <2>1. m \in NIDs /\ Holds(m) /\ m # NoNode
    BY <1>1, <1>10, NoNodeDead DEF NodeAt
  <2> QED BY <1>1, <1>4, <1>7, <1>10, <2>1 DEF Chains, Forest
<1>12. /\ Append(c.path, m) \in Seq(NIDs) /\ Len(Append(c.path, m)) = k + 1
       /\ Append(c.path, m)[k + 1] = m
       /\ \A j \in 1 .. k : Append(c.path, m)[j] = c.path[j]
  BY <1>2, <1>5, <1>11, AppendProperties
<1>13. /\ d \in CallType /\ d.op = "remove" /\ d.at = (IF k = c.top THEN "nodes" ELSE "down")
       /\ d.e = c.e /\ d.excl = c.excl /\ d.path = Append(c.path, m) /\ d.top = c.top
  BY <1>3, <1>4, <1>5, <1>12 DEF CallType
<1>14. SameNodes
  BY <1>4, UnchangedNodes
<1>15. PathOK(d, hd, W)'
  <2>1. /\ Len(d.path) = k + 1 /\ d.path[k + 1] = m
        /\ \A j \in 1 .. k : d.path[j] = c.path[j]
        /\ d.path[1] = c.path[1] /\ c.path[k] = n
    BY <1>2, <1>7, <1>12, <1>13
  <2>2. \A x \in NIDs : Holds(x) => /\ Rec(x)' = Rec(x)
                                    /\ \A l \in Levels : NodeAt(x, l) => NodeAt(x, l)'
    BY <1>14 DEF SameNodes, Stays
  <2>3. k = c.top => Rec(m).lower = NoNode
    <3>1. k = c.top => NodeAt(m, 0)
      BY <1>5, <1>10
    <3> QED BY <1>1, <1>11, <3>1 DEF Chains, Forest
  <2>4. ASSUME NEW j \in 1 .. Len(d.path)
        PROVE  /\ NodeAt(d.path[j], d.top + 1 - j)'
               /\ hd[d.path[j]] = d.path[1]
               /\ Rec(d.path[j])'.owner = d.e
               /\ j < Len(d.path) => Rec(d.path[j])'.lower = d.path[j + 1]
               /\ j = Len(d.path) /\ d.at # "down" => Rec(d.path[j])'.lower = NoNode
               /\ j = Len(d.path) /\ d.at = "down" => d.path[j] \in W
    <3>1. CASE j = k + 1
      <4>1. d.path[j] = m /\ d.top + 1 - j = c.top + 1 - (k + 1) /\ ~(j < Len(d.path))
        BY <1>5, <1>13, <2>1, <3>1
      <4>2. NodeAt(m, c.top + 1 - (k + 1))' /\ Rec(m)' = Rec(m)
        BY <1>9, <1>10, <1>11, <2>2
      <4>3. hd[m] = d.path[1] /\ Rec(m).owner = d.e
        BY <1>8, <1>11, <1>13, <2>1
      <4>4. d.at # "down" => Rec(m).lower = NoNode
        BY <1>13, <2>3
      <4> QED BY <1>10, <4>1, <4>2, <4>3, <4>4
    <3>2. CASE j # k + 1
      <4>1. j \in 1 .. k /\ d.path[j] = c.path[j] /\ j # Len(d.path) /\ d.top = c.top
        BY <1>5, <1>13, <2>1, <3>2
      <4>2. /\ NodeAt(c.path[j], c.top + 1 - j) /\ hd[c.path[j]] = c.path[1]
            /\ Rec(c.path[j]).owner = c.e
            /\ j < k => Rec(c.path[j]).lower = c.path[j + 1]
        BY <1>2, <1>6, <4>1 DEF PathOK
      <4>3. c.path[j] \in NIDs /\ Holds(c.path[j]) /\ c.top + 1 - j \in Levels
        BY <1>2, <1>5, <1>7, <4>1, <4>2, ElementOfSeq, IndexStoreAssumption DEF Levels, NodeAt
      <4>4. NodeAt(c.path[j], c.top + 1 - j)' /\ Rec(c.path[j])' = Rec(c.path[j])
        BY <2>2, <4>2, <4>3
      <4>5. Rec(c.path[j]).lower = d.path[j + 1]
        <5>1. CASE j = k
          BY <1>10, <2>1, <5>1
        <5>2. CASE j # k
          <6>1. j < k /\ j + 1 \in 1 .. k
            BY <1>5, <4>1, <5>2
          <6> QED BY <2>1, <4>2, <6>1
        <5> QED BY <5>1, <5>2
      <4> QED BY <1>13, <2>1, <4>1, <4>2, <4>4, <4>5
    <3> QED BY <3>1, <3>2
  <2>5. /\ Len(d.path) <= d.top + 1
        /\ d.at = "down" => Len(d.path) <= d.top
    BY <1>5, <1>7, <1>13, <2>1
  <2>6. /\ d.op # "insert"
        /\ ~d.excl /\ ~strayed' => meta'.nid # d.path[1]
    BY <1>4, <1>6, <1>13, <2>1 DEF PathOK
  <2> QED BY <2>4, <2>5, <2>6, Zenon DEF PathOK
<1>16. CallsApart'
  BY <1>2, <1>4, <1>13, ApartOn DEF ChainInv
<1>17. /\ call[t].op = "remove" /\ call[t].excl => d.op = "remove" /\ d.excl
       /\ Busy(t) => d.op # "idle" /\ d.e = call[t].e
  BY <1>2, <1>13
<1>18. Chains(hd, W)'
  <2>1. HandlesWhole(hd, W) /\ EntryWhole(hd, W) /\ Whole(W)
    BY <1>1 DEF Chains
  <2> QED BY <1>1, <1>4, <1>13, <1>14, <1>15, <1>17, <2>1, HandlesKept, EntryKept, CallChains
<1>19. EntryKnown'
  BY <1>4, EntryKnownKept DEF ChainInv
<1> QED BY <1>16, <1>18, <1>19 DEF ChainInv

LEMMA RemoveEntryPointChains ==
  ASSUME IndexInv, ChainInv, NEW t \in Threads, RemoveEntryPoint(t)
  PROVE  ChainInv'
<1>1. PICK hd \in [NIDs -> NIDs], W \in SUBSET NIDs : Chains(hd, W)
  BY DEF ChainInv
<1>2. PICK c, d : c = call[t] /\ d = [c EXCEPT !.excl = FALSE]
  OBVIOUS
<1>3. /\ TypeOK /\ UNCHANGED <<pages, refs, handle, up>> /\ Busy(t)
      /\ c.op = "remove" /\ c.at = "end" /\ c.excl /\ entry' = meta'
      /\ call' = [call EXCEPT ![t] = d]
  BY <1>2 DEF IndexInv, RemoveEntryPoint, SetEntryPoint, UpdateMetadata, Busy
<1>4. /\ c \in CallType /\ PathOK(c, hd, W) /\ c.top \in Levels /\ c.top \in levels /\ up
  BY <1>1, <1>2, <1>3, BusyType DEF Chains, Paths, IndexInv, CallsOK, CallOK, Busy
<1>5. PICK n \in NIDs, l \in Levels, V \in SUBSET NIDs :
        /\ meta' = [nid |-> n, level |-> l] /\ l \in BuiltLevels(refs)
        /\ W \subseteq V /\ Whole(V)
        /\ n # NoNode /\ ~strayed' => n \in V /\ NodeAt(n, l) /\ hd[n] = n
  <2>1. \A l \in 0 .. c.top : l \in Levels /\ l \in BuiltLevels(refs)
    BY <1>4, IndexStoreAssumption DEF IndexInv, LevelsOK, StoresRestored, Levels
  <2>2. CASE SetEntryPoint(NoNode, 0)
    <3>1. meta' = [nid |-> NoNode, level |-> 0] /\ 0 \in 0 .. c.top
      BY <1>4, <2>2 DEF SetEntryPoint, UpdateMetadata, Levels
    <3>2. Whole(W)
      BY <1>1 DEF Chains
    <3> QED BY <1>1, <2>1, <3>1, <3>2, NoNodeDead
  <2>3. CASE \E p \in 1 .. Len(pages), s \in Slots, l \in 0 .. call[t].top :
               /\ SetEntryPoint(<<p, s>>, l)
               /\ strayed' = (strayed \/ ~TopOfChain(<<p, s>>, l))
    <3>1. PICK p \in 1 .. Len(pages), s \in Slots, l \in 0 .. c.top :
               /\ SetEntryPoint(<<p, s>>, l)
               /\ strayed' = (strayed \/ ~TopOfChain(<<p, s>>, l))
      BY <1>2, <2>3
    <3>2. PICK n \in NIDs : n = <<p, s>>
      <4>1. p \in 1 .. MaxPages
        BY LenProperties, IndexStoreAssumption DEF IndexInv, TypeOK
      <4> QED BY <4>1 DEF NIDs
    <3>9. meta' = [nid |-> n, level |-> l]
      BY <3>1, <3>2 DEF SetEntryPoint, UpdateMetadata
    <3>10. CASE strayed'
      <4>1. Whole(W)
        BY <1>1 DEF Chains
      <4> QED BY <1>1, <2>1, <3>9, <3>10, <4>1
    <3> SUFFICES ASSUME ~strayed'
                 PROVE  \E V \in SUBSET NIDs :
                          /\ W \subseteq V /\ Whole(V)
                          /\ n \in V /\ NodeAt(n, l) /\ hd[n] = n
      BY <2>1, <3>9, <3>10
    <3>3. HeadsChain(n, l) /\ IsTop(n)
      BY <3>1, <3>2 DEF TopOfChain
    <3>4. NodeAt(n, l) /\ Holds(n)
      <4>1. l \in Nat /\ 0 \in 0 .. l /\ l - 0 = l
        BY <2>1 DEF Levels
      <4>2. Descent(n, l)[0] = n
        BY <4>1, DescentDef
      <4>3. NodeAt(Descent(n, l)[0], l - 0)
        BY <3>3, <4>1 DEF HeadsChain
      <4> QED BY <4>1, <4>2, <4>3 DEF NodeAt
    <3>5. hd[n] = n
      BY <1>1, <3>3, <3>4, TopIsHead DEF Chains
    <3>6. PICK D \in SUBSET NIDs : Whole(D) /\ n \in D
      BY <2>1, <3>3, ChainIsWhole
    <3>7. /\ W \cup D \in SUBSET NIDs /\ W \subseteq W \cup D /\ n \in W \cup D
          /\ Whole(W \cup D)
      BY <1>1, <3>6, WholeUnion DEF Chains
    <3> QED BY <3>4, <3>5, <3>7
  <2> QED BY <2>2, <2>3 DEF RemoveEntryPoint
<1>6. /\ d \in CallType /\ d.op = "remove" /\ d.at = "end" /\ d.e = c.e /\ d.excl = FALSE
      /\ d.path = c.path /\ d.top = c.top
  BY <1>2, <1>3, <1>4 DEF CallType
<1>7. SameNodes
  BY <1>3, UnchangedNodes
<1>8. PathOK(d, hd, V)'
  <2>1. \A j \in 1 .. Len(c.path) : c.path[j] \in NIDs
    BY <1>4, ElementOfSeq DEF CallType
  <2>2. \A j \in 1 .. Len(c.path) : Stays(c.path[j]) /\ (c.path[j] \in W => c.path[j] \in V)
    BY <1>5, <1>7, <2>1 DEF SameNodes
  <2>3. PathOK(c, hd, V)'
    BY <1>3, <1>4, <2>2, PathFrame
  <2> QED BY <1>3, <1>6, <2>3 DEF PathOK
<1>9. CallsApart'
  BY <1>2, <1>3, <1>6, ApartOn DEF ChainInv
<1>10. \A u \in Threads \ {t} : ~Busy(u)
  BY <1>2, <1>3 DEF ChainInv, CallsApart
<1>11. Busy(t) => d.op # "idle" /\ d.e = call[t].e
  BY <1>2, <1>6
<1>12. meta'.nid = n /\ meta'.level = l
  BY <1>5
<1>13. Chains(hd, V)'
  <2>1. HandlesWhole(hd, V)
    BY <1>1, <1>5 DEF Chains, HandlesWhole
  <2>2. \A e \in Elements : handle'[e] # NoNode /\ ~InCall(e)' =>
           handle'[e] \in V /\ hd[handle'[e]] = handle'[e] /\ Rec(handle'[e]).owner = e
    BY <1>3, <1>11, <2>1, HandlesKept
  <2>3. meta'.nid # NoNode /\ ~strayed' =>
          /\ meta'.nid \in V /\ meta'.level \in Levels
          /\ NodeAt(meta'.nid, meta'.level) /\ hd[meta'.nid] = meta'.nid
    BY <1>5, <1>12
  <2> QED BY <1>1, <1>3, <1>5, <1>6, <1>7, <1>8, <1>10, <2>2, <2>3, CallChains
<1>14. EntryKnown'
  <2>1. BuiltLevels(refs)' = BuiltLevels(refs)
    BY <1>3 DEF BuiltLevels
  <2> QED BY <1>3, <1>5, <1>12, <2>1 DEF EntryKnown
<1> QED BY <1>9, <1>13, <1>14 DEF ChainInv

\* A call that returns, and leaves the nodes as they are.
LEMMA ReturnChains ==
  ASSUME IndexInv, ChainInv, NEW t \in Threads, Busy(t),
         call' = [call EXCEPT ![t] = NoCall],
         UNCHANGED <<pages, refs, meta, strayed, up, entry>>,
         handle' = [handle EXCEPT ![call[t].e] = NoNode],
         ~(call[t].op = "remove" /\ call[t].excl)
  PROVE  ChainInv'
<1>1. PICK hd \in [NIDs -> NIDs], W \in SUBSET NIDs : Chains(hd, W)
  BY DEF ChainInv
<1>2. TypeOK /\ call[t].e \in Elements
  BY BusyType DEF IndexInv
<1>3. SameNodes
  BY UnchangedNodes
<1>4. NoCall.op = "idle" /\ NoCall \notin CallType
  BY CallOrNone DEF NoCall
<1>5. CallsApart'
  BY <1>2, <1>4, ApartOn DEF ChainInv
<1>6. \A u \in Threads \ {t} : Busy(u) => handle'[call[u].e] = handle[call[u].e]
  <2> SUFFICES ASSUME NEW u \in Threads \ {t}, Busy(u)
               PROVE  handle'[call[u].e] = handle[call[u].e]
    OBVIOUS
  <2>1. call[u].e # call[t].e /\ call[u].e \in Elements
    BY <1>2, BusyType DEF ChainInv, CallsApart
  <2> QED BY <1>2, <2>1 DEF TypeOK
<1>7. ASSUME NEW e \in Elements, handle'[e] # NoNode, ~InCall(e)'
       PROVE  handle'[e] \in W /\ hd[handle'[e]] = handle'[e] /\ Rec(handle'[e]).owner = e
  <2>1. e # call[t].e /\ handle'[e] = handle[e]
    BY <1>2, <1>7 DEF TypeOK
  <2>2. ~InCall(e)
    BY <1>2, <1>7, <2>1, InCallAfter
  <2> QED BY <1>1, <1>7, <2>1, <2>2 DEF Chains, HandlesWhole
<1>8. call[t].op = "remove" /\ call[t].excl => NoCall.op = "remove" /\ NoCall.excl
  OBVIOUS
<1>9. Chains(hd, W)'
  <2>1. EntryWhole(hd, W) /\ Whole(W)
    BY <1>1 DEF Chains
  <2>2. meta'.nid # NoNode /\ ~Replacing' /\ ~strayed' =>
           /\ meta'.nid \in W /\ meta'.level \in Levels
           /\ NodeAt(meta'.nid, meta'.level) /\ hd[meta'.nid] = meta'.nid
    BY <1>2, <1>8, <2>1, EntryKept
  <2> QED BY <1>1, <1>3, <1>4, <1>6, <1>7, <2>1, <2>2, CallChains
<1>10. EntryKnown'
  BY EntryKnownKept DEF ChainInv
<1> QED BY <1>5, <1>9, <1>10 DEF ChainInv

LEMMA RemoveReturnChains ==
  ASSUME IndexInv, ChainInv, NEW t \in Threads, RemoveReturn(t)
  PROVE  ChainInv'
<1>1. /\ Busy(t) /\ call' = [call EXCEPT ![t] = NoCall]
      /\ UNCHANGED <<pages, refs, meta, strayed, up, entry>>
      /\ handle' = [handle EXCEPT ![call[t].e] = NoNode]
      /\ ~(call[t].op = "remove" /\ call[t].excl)
  BY DEF RemoveReturn, inMemory, Busy
<1> QED BY <1>1, ReturnChains

\* A call always finds the records of its path, so that only an insert fails.
LEMMA FailChains ==
  ASSUME RemovesFinish, IndexInv, ChainInv, NEW t \in Threads, Fail(t)
  PROVE  ChainInv'
<1>1. PICK hd \in [NIDs -> NIDs], W \in SUBSET NIDs : Chains(hd, W)
  BY DEF ChainInv
<1>2. PICK c : c = call[t]
  OBVIOUS
<1>3. Busy(t) /\ c \in CallType
  BY <1>2, BusyType DEF Fail, IndexInv
<1>4. PathOK(c, hd, W)
  BY <1>1, <1>2, <1>3 DEF Chains, Paths
<1>5. Readable(c.path)
  BY <1>4 DEF Readable, PathOK, NodeAt
<1>6. c.op = "insert" /\ handle[c.e] = NoNode /\ c.e \in Elements
  BY <1>2, <1>3, <1>4, <1>5 DEF Fail, RemovesFinish, PathOK, CallType
<1>7. handle' = [handle EXCEPT ![call[t].e] = NoNode]
  BY <1>2, <1>6 DEF Fail, onPages, IndexInv, TypeOK
<1>8. /\ call' = [call EXCEPT ![t] = NoCall]
      /\ UNCHANGED <<pages, refs, meta, strayed, up, entry>>
      /\ ~(call[t].op = "remove" /\ call[t].excl)
  BY <1>2, <1>6 DEF Fail, onPages, inMemory
<1> QED BY <1>3, <1>7, <1>8, ReturnChains

-------------------------------------------------------------------------------
(* create, drop, crash and load.                                           *)

LEMMA IdleChains ==
  ASSUME IndexInv, UNCHANGED <<pages, refs, meta, strayed, handle>>,
         \A t \in Threads : ~Busy(t)',
         \A t \in Threads : Busy(t) => call[t].op = "insert",
         NEW hd, NEW W \in SUBSET NIDs, Chains(hd, W)
  PROVE  Chains(hd, W)' /\ CallsApart'
<1>1. SameNodes
  BY UnchangedNodes
<1>2. Forest(hd)' /\ Whole(W)'
  BY <1>1, ForestSame, WholeSame DEF Chains
<1>3. Paths(hd, W)'
  BY CallOrNone DEF Paths, Busy
<1>4. HandlesWhole(hd, W)'
  <2> SUFFICES ASSUME NEW e \in Elements, handle'[e] # NoNode
               PROVE  /\ handle'[e] \in W /\ hd[handle'[e]] = handle'[e]
                      /\ Rec(handle[e])'.owner = e
    BY DEF HandlesWhole
  <2>1. ~InCall(e)
    <3> SUFFICES ASSUME NEW t \in Threads, Busy(t), call[t].e = e PROVE FALSE
      BY DEF InCall
    <3>1. PICK c \in CallType : c = call[t]
      BY BusyType DEF IndexInv
    <3>2. PathOK(c, hd, W) /\ c.op = "insert"
      BY <3>1 DEF Chains, Paths
    <3> QED BY <3>1, <3>2 DEF PathOK
  <2>2. handle[e] \in W /\ hd[handle[e]] = handle[e] /\ Rec(handle[e]).owner = e
    BY <2>1 DEF Chains, HandlesWhole
  <2> QED BY <2>2 DEF Rec
<1>5. EntryWhole(hd, W)'
  <2>1. ~Replacing
    BY DEF Replacing, Busy
  <2> QED BY <2>1 DEF Chains, EntryWhole, NodeAt, Holds
<1>6. CallsApart'
  BY DEF CallsApart
<1> QED BY <1>2, <1>3, <1>4, <1>5, <1>6 DEF Chains

LEMMA CrashChains ==
  ASSUME RemovesFinish, IndexInv, ChainInv, Crash
  PROVE  ChainInv'
<1>1. PICK hd \in [NIDs -> NIDs], W \in SUBSET NIDs : Chains(hd, W)
  BY DEF ChainInv
<1>2. /\ UNCHANGED <<pages, refs, meta, strayed, handle>> /\ ~up'
      /\ \A t \in Threads : ~Busy(t)'
  BY DEF Crash, onPages, Busy, NoCall
<1>3. \A t \in Threads : Busy(t) => call[t].op = "insert"
  BY BusyType DEF Crash, RemovesFinish, IndexInv, CallType
<1>4. Chains(hd, W)' /\ CallsApart'
  BY <1>1, <1>2, <1>3, IdleChains
<1>5. EntryKnown'
  BY <1>2 DEF ChainInv, EntryKnown, BuiltLevels
<1> QED BY <1>4, <1>5 DEF ChainInv

LEMMA LoadChains ==
  ASSUME IndexInv, ChainInv, Load
  PROVE  ChainInv'
<1>1. PICK hd \in [NIDs -> NIDs], W \in SUBSET NIDs : Chains(hd, W)
  BY DEF ChainInv
<1>2. UNCHANGED <<pages, refs, meta, strayed, handle, call>> /\ entry' = meta
  BY DEF Load, onPages
<1>3. \A t \in Threads : ~Busy(t)
  BY DEF Load, IndexInv, CallsOK, CallOK, Busy
<1>4. \A t \in Threads : ~Busy(t)'
  BY <1>2, <1>3 DEF Busy
<1>5. Chains(hd, W)' /\ CallsApart'
  BY <1>1, <1>2, <1>3, <1>4, IdleChains
<1>6. EntryKnown'
  BY <1>2 DEF ChainInv, EntryKnown, BuiltLevels
<1> QED BY <1>5, <1>6 DEF ChainInv

\* Without nodes there is nothing to say.
NothingStored ==
  /\ \A n \in NIDs : ~Holds(n)
  /\ \A e \in Elements : handle[e] = NoNode
  /\ meta.nid = NoNode
  /\ \A t \in Threads : ~Busy(t)

SomeChains == CallsApart /\ \E hd \in [NIDs -> NIDs], W \in SUBSET NIDs : Chains(hd, W)

LEMMA NoChains == NothingStored => SomeChains
<1> SUFFICES ASSUME NothingStored PROVE SomeChains
  OBVIOUS
<1>1. [n \in NIDs |-> n] \in [NIDs -> NIDs] /\ {} \in SUBSET NIDs
  OBVIOUS
<1>2. Chains([n \in NIDs |-> n], {})
  BY CallOrNone DEF NothingStored, Chains, Forest, Whole, Paths, HandlesWhole, EntryWhole, Busy
<1>3. CallsApart
  BY DEF CallsApart, NothingStored
<1> QED BY <1>1, <1>2, <1>3 DEF SomeChains

LEMMA InitChains == Init => ChainInv
<1> SUFFICES ASSUME Init PROVE ChainInv
  OBVIOUS
<1>1. NothingStored
  BY DEF Init, NothingStored, Holds, Busy, NoCall, NoEntry
<1>2. EntryKnown
  BY DEF Init, EntryKnown
<1> QED BY <1>1, <1>2, NoChains DEF ChainInv, SomeChains

LEMMA CreateChains ==
  ASSUME IndexInv, ChainInv, Create
  PROVE  ChainInv'
<1>1. pages = <<>> /\ ~up
  BY DEF Create, IndexInv, LevelsOK
<1>2. \A t \in Threads : ~Busy(t)
  BY <1>1 DEF IndexInv, CallsOK, CallOK, Busy
<1>3. \A e \in Elements : handle[e] = NoNode
  <2>1. PICK hd \in [NIDs -> NIDs], W \in SUBSET NIDs : Chains(hd, W)
    BY DEF ChainInv
  <2>2. \A n \in W : FALSE
    BY <1>1, <2>1, WholeHolds DEF Chains, Holds
  <2> QED BY <1>2, <2>1, <2>2 DEF Chains, HandlesWhole, InCall
<1>4. \A n \in NIDs : ~Holds(n)'
  <2>1. pages' = <<NewPage(INVALID_REF), NewPage(INVALID_REF)>>
    BY DEF Create
  <2> SUFFICES ASSUME NEW n \in NIDs, n[1] \in 1 .. 2
               PROVE  pages'[n[1]].recs[n[2]] = FreeRec
    BY <2>1 DEF Holds
  <2>2. n[2] \in Slots
    BY DEF NIDs, NoNode, INVALID_REF
  <2>3. pages'[n[1]] = NewPage(INVALID_REF)
    BY <2>1
  <2> QED BY <2>2, <2>3 DEF NewPage
<1>5. NothingStored'
  BY <1>2, <1>3, <1>4 DEF Create, NothingStored, NoEntry, Busy
<1>6. EntryKnown'
  <2>1. entry' = meta' /\ meta'.level = 0
    BY DEF Create, NoEntry
  <2>2. refs'[0] = 1 /\ refs'[1] = 2
    BY FirstStores DEF Create, NoStores, PrimaryRoot
  <2>3. 0 \in BuiltLevels(refs')
    BY <2>2, FirstStores DEF BuiltLevels, Primary, Overflow, INVALID_REF
  <2>4. BuiltLevels(refs') = BuiltLevels(refs)'
    BY DEF BuiltLevels
  <2> QED BY <2>1, <2>3, <2>4 DEF EntryKnown
<1>7. (NothingStored => SomeChains)'
  BY NoChains, PTL
<1> QED BY <1>5, <1>6, <1>7 DEF ChainInv, SomeChains

LEMMA DropChains ==
  ASSUME IndexInv, ChainInv, Drop
  PROVE  ChainInv'
<1>1. NothingStored'
  BY DEF Drop, NothingStored, NoEntry, Busy, Holds
<1>2. EntryKnown'
  BY DEF Drop, EntryKnown
<1>3. (NothingStored => SomeChains)'
  BY NoChains, PTL
<1> QED BY <1>1, <1>2, <1>3 DEF ChainInv, SomeChains

-------------------------------------------------------------------------------
(* Steps that change the nodes.                                            *)

\* A new half adds a root page, and no node is on a root page.
LEMMA EnsureHalfChains ==
  ASSUME IndexInv, ChainInv, NEW t \in Threads, EnsureHalf(t)
  PROVE  ChainInv'
<1>1. PICK hd \in [NIDs -> NIDs], W \in SUBSET NIDs : Chains(hd, W)
  BY DEF ChainInv
<1>2. PICK i \in Stores :
        /\ root[i] = INVALID_REF
        /\ pages' = Append(pages, NewPage(INVALID_REF))
        /\ refs' = [refs EXCEPT ![i] = Len(pages) + 1]
  BY DEF EnsureHalf, Missing
<1>3. /\ TypeOK /\ UNCHANGED <<meta, strayed, handle, up, entry, call>> /\ Busy(t)
      /\ pages \in Seq(PageType) /\ Len(pages) \in Nat
  BY LenProperties DEF EnsureHalf, IndexInv, TypeOK
<1>4. up /\ refs = root /\ pages # <<>>
  BY <1>3 DEF IndexInv, CallsOK, CallOK, Busy, StoresRestored, LevelsOK
<1>5. NewPage(INVALID_REF) \in PageType
  BY IndexStoreAssumption DEF NewPage, PageType, INVALID_REF
<1>6. /\ Len(pages') = Len(pages) + 1
      /\ \A p \in 1 .. Len(pages) : pages'[p] = pages[p]
      /\ pages'[Len(pages) + 1] = NewPage(INVALID_REF)
  <2> HIDE DEF NewPage, PageType
  <2> QED BY <1>2, <1>3, <1>5, AppendProperties
<1>7. ASSUME NEW n \in NIDs
      PROVE  Stays(n) /\ (Holds(n)' => Holds(n))
  <2>1. n[2] \in Slots \/ n = NoNode
    BY DEF NIDs
  <2>2. Holds(n)' => Holds(n)
    <3>1. CASE n[1] \in 1 .. Len(pages)
      BY <1>6, <3>1 DEF Holds
    <3>2. CASE n[1] = Len(pages) + 1
      <4>1. n # NoNode
        BY <1>3, <3>2 DEF NoNode, INVALID_REF
      <4>2. pages'[n[1]].recs[n[2]] = FreeRec
        BY <1>6, <2>1, <3>2, <4>1 DEF NewPage
      <4> QED BY <4>2 DEF Holds
    <3>3. CASE n[1] \notin 1 .. (Len(pages) + 1)
      BY <1>6, <3>3 DEF Holds
    <3> QED BY <1>3, <3>1, <3>2, <3>3
  <2>3. ASSUME Holds(n)
        PROVE  /\ Holds(n)' /\ Rec(n)' = Rec(n)
               /\ pages'[n[1]].root = pages[n[1]].root
               /\ \A l \in Levels : NodeAt(n, l)' <=> NodeAt(n, l)
    <3>1. n[1] \in 1 .. Len(pages) /\ n[1] \in 1 .. Len(pages') /\ pages'[n[1]] = pages[n[1]]
      BY <1>3, <1>6, <2>3 DEF Holds
    <3>2. pages[n[1]].root # INVALID_REF
      BY <1>1, <2>3 DEF Chains, Forest
    <3>3. pages[n[1]].root \in 0 .. Len(pages)
      BY <1>3, <1>4, <3>1, <3>2 DEF IndexInv, RootsReferenced, TypeOK
    <3>4. ASSUME NEW l \in Levels
          PROVE  (pages[n[1]].root = refs'[Primary(l)]) <=> (pages[n[1]].root = refs[Primary(l)])
      <4>1. Primary(l) \in Stores
        BY StoreOfLevel
      <4>2. CASE Primary(l) = i
        <5>1. refs'[Primary(l)] = Len(pages) + 1 /\ refs[Primary(l)] = INVALID_REF
          BY <1>2, <1>3, <1>4, <4>2 DEF TypeOK
        <5> QED BY <1>3, <3>2, <3>3, <5>1
      <4>3. CASE Primary(l) # i
        BY <1>2, <1>3, <4>1, <4>3 DEF TypeOK
      <4> QED BY <4>2, <4>3
    <3> QED BY <2>3, <3>1, <3>4 DEF Holds, Rec, NodeAt
  <2> QED BY <2>2, <2>3 DEF Stays
<1>8. SameNodes
  BY <1>7 DEF SameNodes
<1>9. PICK c \in CallType : c = call[t]
  BY <1>3, BusyType
<1>10. call' = [call EXCEPT ![t] = c]
  BY <1>3, <1>9 DEF TypeOK
<1>11. PathOK(c, hd, W)'
  <2>1. PathOK(c, hd, W)
    BY <1>1, <1>9 DEF Chains, Paths
  <2>2. \A j \in 1 .. Len(c.path) : c.path[j] \in NIDs
    BY ElementOfSeq DEF CallType
  <2>3. \A j \in 1 .. Len(c.path) : Stays(c.path[j])
    BY <1>8, <2>2 DEF SameNodes
  <2>4. c.op = "remove" /\ c.at # "end" /\ ~c.excl /\ ~strayed' => meta'.nid # c.path[1]
    BY <1>3, <2>1 DEF PathOK
  <2> QED BY <1>3, <2>1, <2>3, <2>4, PathFrame
<1>12. CallsApart'
  BY <1>3 DEF ChainInv, CallsApart, Busy
<1>13. /\ call[t].op = "remove" /\ call[t].excl => c.op = "remove" /\ c.excl
       /\ Busy(t) => c.op # "idle" /\ c.e = call[t].e
  BY <1>3, <1>9 DEF Busy
<1>14. Chains(hd, W)'
  <2>1. HandlesWhole(hd, W) /\ EntryWhole(hd, W) /\ Whole(W)
    BY <1>1 DEF Chains
  <2>2. \A e \in Elements : handle'[e] # NoNode /\ ~InCall(e)' =>
           handle'[e] \in W /\ hd[handle'[e]] = handle'[e] /\ Rec(handle'[e]).owner = e
    BY <1>3, <1>10, <1>13, <2>1, HandlesKept
  <2>3. meta'.nid # NoNode /\ ~Replacing' /\ ~strayed' =>
           /\ meta'.nid \in W /\ meta'.level \in Levels
           /\ NodeAt(meta'.nid, meta'.level) /\ hd[meta'.nid] = meta'.nid
    BY <1>3, <1>10, <1>13, <2>1, EntryKept
  <2> QED BY <1>1, <1>3, <1>8, <1>10, <1>11, <2>1, <2>2, <2>3, CallChains
<1>15. EntryKnown'
  <2>1. \A j \in Stores : refs[j] # INVALID_REF => refs'[j] # INVALID_REF
    BY <1>2, <1>3 DEF TypeOK, INVALID_REF
  <2>2. BuiltLevels(refs) \subseteq BuiltLevels(refs')
    BY <2>1, BuiltGrows
  <2>3. BuiltLevels(refs)' = BuiltLevels(refs')
    BY DEF BuiltLevels
  <2> QED BY <1>3, <1>4, <2>2, <2>3 DEF ChainInv, EntryKnown
<1> QED BY <1>12, <1>14, <1>15 DEF ChainInv

\* Node n on the pages ps.
HoldsIn(ps, n) == n[1] \in 1 .. Len(ps) /\ ps[n[1]].recs[n[2]] # FreeRec

LEMMA LiveRec == FreeRec \notin NodeRec
<1> SUFFICES ASSUME FreeRec \in NodeRec PROVE FALSE
  OBVIOUS
<1>1. NIDs \subseteq Nat \X Nat
  BY IndexStoreAssumption DEF NIDs, Slots, NoNode, INVALID_REF
<1>2. FreeRec \in [owner : Elements, lower : Nat \X Nat]
  BY <1>1 DEF NodeRec
<1> QED BY <1>2, IndexStoreAssumption

\* qs is ps with record rec at nid, and the other nodes as they were.
Written(ps, nid, rec, qs) ==
  /\ qs \in Seq(PageType) /\ Len(qs) = Len(ps)
  /\ qs[nid[1]].recs[nid[2]] = rec
  /\ HoldsIn(qs, nid) <=> rec # FreeRec
  /\ \A p \in 1 .. Len(ps) : qs[p].root = ps[p].root
  /\ \A n \in NIDs : n # nid =>
       /\ HoldsIn(qs, n) <=> HoldsIn(ps, n)
       /\ HoldsIn(ps, n) => qs[n[1]].recs[n[2]] = ps[n[1]].recs[n[2]]

LEMMA WriteNodes ==
  ASSUME NEW ps \in Seq(PageType), NEW nid \in (1 .. Len(ps)) \X Slots,
         NEW rec \in NodeRec \cup {FreeRec}, NEW qs, qs = Write(ps, nid, rec)
  PROVE  Written(ps, nid, rec, qs)
<1>1. /\ qs \in Seq(PageType) /\ SamePages(qs, ps)
      /\ \A q \in (1 .. Len(ps)) \X Slots : q # nid => qs[q[1]].recs[q[2]] = ps[q[1]].recs[q[2]]
  BY WriteKeeps
<1>2. qs[nid[1]].recs[nid[2]] = rec
  <2> DEFINE pg == [ps[nid[1]] EXCEPT !.recs[nid[2]] = rec]
  <2>1. ps[nid[1]] \in PageType /\ nid[1] \in 1 .. Len(ps)
    BY ElementOfSeq
  <2>2. pg.recs[nid[2]] = rec /\ pg \in PageType
    BY <2>1 DEF PageType
  <2>3. qs = [ps EXCEPT ![nid[1]] = pg]
    BY DEF Write
  <2> HIDE DEF pg
  <2>4. [ps EXCEPT ![nid[1]] = pg][nid[1]] = pg
    <3> HIDE DEF PageType
    <3> QED BY <2>1, <2>2, ExceptSeq
  <2> QED BY <2>2, <2>3, <2>4
<1>3. \A n \in NIDs : n[1] \in 1 .. Len(ps) => n \in (1 .. Len(ps)) \X Slots
  BY DEF NIDs, NoNode, INVALID_REF
<1>4. Len(qs) = Len(ps) /\ \A p \in 1 .. Len(ps) : qs[p].root = ps[p].root
  BY <1>1 DEF SamePages
<1>5. \A n \in NIDs : n # nid =>
        /\ HoldsIn(qs, n) <=> HoldsIn(ps, n)
        /\ HoldsIn(ps, n) => qs[n[1]].recs[n[2]] = ps[n[1]].recs[n[2]]
  BY <1>1, <1>3, <1>4 DEF HoldsIn
<1>6. HoldsIn(qs, nid) <=> rec # FreeRec
  BY <1>2, <1>4 DEF HoldsIn
<1> QED BY <1>1, <1>2, <1>4, <1>5, <1>6 DEF Written

\* Call c goes on below its new node nid.
Longer(c, nid) ==
  [c EXCEPT !.path = Append(c.path, nid),
            !.at = IF Primary(c.top - Len(c.path)) = Primary(0) THEN "end" ELSE c.at]

\* The step makes nid the next node of call c.
Makes(t, c, nid) ==
  /\ ~Holds(nid) /\ nid # NoNode
  /\ Holds(nid)' /\ Rec(nid)' = [owner |-> c.e, lower |-> NoNode]
  /\ pages'[nid[1]].root = refs[Primary(c.top - Len(c.path))]
  /\ \A n \in NIDs \ {nid} :
       /\ Holds(n)' <=> Holds(n)
       /\ Holds(n) =>
            /\ pages'[n[1]].root = pages[n[1]].root
            /\ Rec(n)' = IF c.path # <<>> /\ n = c.path[Len(c.path)]
                         THEN [Rec(n) EXCEPT !.lower = nid] ELSE Rec(n)
  /\ call' = [call EXCEPT ![t] = Longer(c, nid)]

\* The record of a new node, and the link to it.
LEMMA NewNodeEffect ==
  ASSUME IndexInv, NEW t \in Threads, CreateNode(t), NEW c, c = call[t]
  PROVE  \E nid \in NIDs : Makes(t, c, nid)
<1>1. PICK nid \in (1 .. MaxPages) \X Slots : NewNode(t, nid)
  BY DEF CreateNode
<1>2. PICK i, rec, qs, ws :
        /\ i = Primary(c.top - Len(c.path)) /\ rec = [owner |-> c.e, lower |-> NoNode]
        /\ qs = WithPage(nid, i) /\ ws = Write(qs, nid, rec)
  OBVIOUS
<1>3. /\ c.op = "insert" /\ c.at = "nodes"
      /\ c.path # <<>> => Holds(c.path[Len(c.path)])
      /\ nid \in Places(i) \cup NewPlaces(i)
      /\ pages' = LinkDown(ws, c.path, nid)
      /\ call' = [call EXCEPT ![t] = [c EXCEPT !.path = Append(c.path, nid),
                                               !.at = IF i = Primary(0) THEN "end" ELSE c.at]]
  BY <1>1, <1>2 DEF NewNode
<1>4. /\ up /\ c \in CallType /\ c.top \in levels /\ c.top \in Levels
      /\ c.path \in Seq(NIDs) /\ c.e \in Elements /\ Len(c.path) <= c.top
  BY <1>3, BusyType DEF IndexInv, CallsOK, CallOK, Busy
<1>5. Len(c.path) \in Nat /\ c.top - Len(c.path) \in 0 .. c.top /\ c.top \in Nat
  BY <1>4, LenProperties DEF Levels
<1>6. i \in Stores /\ refs[i] # INVALID_REF /\ root[i] = refs[i] /\ root[i] \in 0 .. MaxPages
  BY <1>2, <1>4, <1>5, LevelStore
<1>7. nid \in NIDs /\ nid # NoNode /\ rec \in NodeRec /\ rec # FreeRec
  BY <1>1, <1>2, <1>4, LiveRec DEF NIDs, NodeRec, NoNode, INVALID_REF
<1>8. pages \in Seq(PageType) /\ Len(pages) \in Nat /\ Len(pages) <= MaxPages /\ TypeOK
  BY LenProperties DEF IndexInv, TypeOK
<1>9. NewPage(root[i]) \in PageType /\ NewPage(root[i]).root = root[i]
      /\ \A s \in Slots : NewPage(root[i]).recs[s] = FreeRec
  BY <1>6 DEF NewPage, PageType
<1>10. /\ qs \in Seq(PageType) /\ nid \in (1 .. Len(qs)) \X Slots
       /\ Len(qs) >= Len(pages) /\ Len(qs) \in Nat
       /\ \A p \in 1 .. Len(pages) : qs[p] = pages[p]
       /\ qs[nid[1]].root = refs[i]
       /\ ~Holds(nid)
       /\ \A n \in NIDs : HoldsIn(qs, n) <=> Holds(n)
  <2> HIDE DEF PageType, NewPage
  <2>1. CASE nid \in Places(i)
    <3>1. nid[1] \in 1 .. Len(pages) /\ pages[nid[1]].root = root[i]
          /\ pages[nid[1]].recs[nid[2]] = FreeRec
      BY <2>1 DEF Places
    <3>2. qs = pages
      BY <1>2, <1>8, <3>1 DEF WithPage
    <3> QED BY <1>1, <1>6, <1>8, <3>1, <3>2 DEF Holds, HoldsIn
  <2>2. CASE nid \in NewPlaces(i)
    <3>1. nid = <<Len(pages) + 1, 1>>
      BY <2>2 DEF NewPlaces
    <3>2. qs = Append(pages, NewPage(root[i]))
      BY <1>2, <1>8, <3>1 DEF WithPage
    <3>3. /\ qs \in Seq(PageType) /\ Len(qs) = Len(pages) + 1
          /\ \A p \in 1 .. Len(pages) : qs[p] = pages[p]
          /\ qs[Len(pages) + 1] = NewPage(root[i])
      BY <1>8, <1>9, <3>2, AppendProperties
    <3>4. nid \in (1 .. Len(qs)) \X Slots /\ qs[nid[1]].root = refs[i] /\ ~Holds(nid)
      BY <1>1, <1>6, <1>8, <1>9, <3>1, <3>3 DEF Holds
    <3>5. ASSUME NEW n \in NIDs PROVE HoldsIn(qs, n) <=> Holds(n)
      <4>1. CASE n[1] \in 1 .. Len(pages)
        BY <1>8, <3>3, <4>1 DEF Holds, HoldsIn
      <4>2. CASE n[1] = Len(pages) + 1
        <5>1. n[2] \in Slots
          BY <1>8, <4>2 DEF NIDs, NoNode, INVALID_REF
        <5> QED BY <1>8, <1>9, <3>3, <4>2, <5>1 DEF Holds, HoldsIn
      <4>3. CASE n[1] \notin 1 .. (Len(pages) + 1)
        BY <1>8, <3>3, <4>3 DEF Holds, HoldsIn
      <4> QED BY <1>8, <4>1, <4>2, <4>3
    <3> QED BY <1>8, <3>3, <3>4, <3>5
  <2> QED BY <1>3, <2>1, <2>2
<1>11. /\ ws \in Seq(PageType) /\ Len(ws) = Len(qs)
       /\ ws[nid[1]].recs[nid[2]] = rec
       /\ HoldsIn(ws, nid)
       /\ \A p \in 1 .. Len(qs) : ws[p].root = qs[p].root
       /\ \A n \in NIDs : n # nid =>
            /\ HoldsIn(ws, n) <=> HoldsIn(qs, n)
            /\ HoldsIn(qs, n) => ws[n[1]].recs[n[2]] = qs[n[1]].recs[n[2]]
  <2>1. Written(qs, nid, rec, ws)
    BY <1>2, <1>7, <1>10, WriteNodes
  <2> QED BY <1>7, <2>1 DEF Written
<1>12. ASSUME NEW n \in NIDs \ {nid}
       PROVE  /\ HoldsIn(ws, n) <=> Holds(n)
              /\ Holds(n) => /\ ws[n[1]].recs[n[2]] = Rec(n)
                             /\ ws[n[1]].root = pages[n[1]].root
  <2>1. Holds(n) => n[1] \in 1 .. Len(pages) /\ n[1] \in 1 .. Len(qs)
    BY <1>8, <1>10 DEF Holds
  <2> QED BY <1>10, <1>11, <2>1 DEF Rec
<1>13. /\ nid[1] \in 1 .. Len(ws) /\ ws[nid[1]].root = refs[i]
  BY <1>10, <1>11
<1>14. CASE c.path = <<>>
  <2>1. pages' = ws
    BY <1>3, <1>14 DEF LinkDown
  <2>2. Holds(nid)' /\ Rec(nid)' = rec
    BY <1>11, <2>1 DEF Holds, HoldsIn, Rec
  <2>3. \A n \in NIDs \ {nid} : /\ Holds(n)' <=> Holds(n)
                                /\ Holds(n) => /\ pages'[n[1]].root = pages[n[1]].root
                                               /\ Rec(n)' = Rec(n)
    <3>1. \A n \in NIDs : (Holds(n)' <=> HoldsIn(ws, n)) /\ Rec(n)' = ws[n[1]].recs[n[2]]
      BY <2>1 DEF Holds, HoldsIn, Rec
    <3> QED BY <1>12, <2>1, <3>1
  <2>4. call' = [call EXCEPT ![t] = Longer(c, nid)]
    BY <1>2, <1>3 DEF Longer
  <2>5. Makes(t, c, nid)
    BY <1>2, <1>3, <1>7, <1>10, <1>13, <1>14, <2>1, <2>2, <2>3, <2>4 DEF Makes
  <2> QED BY <1>7, <2>5
<1>15. CASE c.path # <<>>
  <2>1. PICK a : a = c.path[Len(c.path)]
    OBVIOUS
  <2>2. a \in NIDs /\ Holds(a)
    <3>1. Len(c.path) \in 1 .. Len(c.path)
      BY <1>4, <1>5, <1>15, EmptySeq
    <3> QED BY <1>3, <1>4, <1>15, <2>1, <3>1, ElementOfSeq
  <2>3. a # nid
    BY <1>10, <2>2
  <2>4. PICK new : new = [Rec(a) EXCEPT !.lower = nid]
    OBVIOUS
  <2>5. new \in NodeRec /\ new # FreeRec
    <3>1. Rec(a) \in NodeRec
      BY <1>8, <2>2, LowerType
    <3> QED BY <1>7, <2>4, <3>1, LiveRec DEF NodeRec
  <2>6. a \in (1 .. Len(ws)) \X Slots
    <3>1. a \in (1 .. Len(pages)) \X Slots
      BY <1>8, <2>2, HoldsPlace
    <3> QED BY <1>8, <1>10, <1>11, <3>1
  <2>7. pages' = Write(ws, a, new)
    <3>1. ws[a[1]].recs[a[2]] = Rec(a)
      BY <1>12, <2>2, <2>3
    <3> QED BY <1>3, <1>15, <2>1, <2>4, <3>1 DEF LinkDown, Write
  <2>8. /\ Len(pages') = Len(ws)
        /\ pages'[a[1]].recs[a[2]] = new
        /\ HoldsIn(pages', a)
        /\ \A p \in 1 .. Len(ws) : pages'[p].root = ws[p].root
        /\ \A n \in NIDs : n # a =>
             /\ HoldsIn(pages', n) <=> HoldsIn(ws, n)
             /\ HoldsIn(ws, n) => pages'[n[1]].recs[n[2]] = ws[n[1]].recs[n[2]]
    <3>1. Written(ws, a, new, pages')
      BY <1>11, <2>5, <2>6, <2>7, WriteNodes
    <3> QED BY <2>5, <3>1 DEF Written
  <2>9. \A n \in NIDs : (Holds(n)' <=> HoldsIn(pages', n)) /\ Rec(n)' = pages'[n[1]].recs[n[2]]
    BY DEF Holds, HoldsIn, Rec
  <2>10. Holds(nid)' /\ Rec(nid)' = rec /\ pages'[nid[1]].root = refs[i]
    BY <1>7, <1>11, <1>13, <2>3, <2>8, <2>9
  <2>11. ASSUME NEW n \in NIDs \ {nid}
         PROVE  /\ Holds(n)' <=> Holds(n)
                /\ Holds(n) =>
                     /\ pages'[n[1]].root = pages[n[1]].root
                     /\ Rec(n)' = IF n = a THEN [Rec(n) EXCEPT !.lower = nid] ELSE Rec(n)
    <3>1. Holds(n) => n[1] \in 1 .. Len(ws)
      BY <1>8, <1>10, <1>11 DEF Holds
    <3>2. CASE n = a
      BY <1>12, <2>2, <2>4, <2>8, <2>9, <3>1, <3>2
    <3>3. CASE n # a
      BY <1>12, <2>8, <2>9, <3>1, <3>3
    <3> QED BY <3>2, <3>3
  <2>12. \A n \in NIDs \ {nid} :
           /\ Holds(n)' <=> Holds(n)
           /\ Holds(n) =>
                /\ pages'[n[1]].root = pages[n[1]].root
                /\ Rec(n)' = IF c.path # <<>> /\ n = c.path[Len(c.path)]
                             THEN [Rec(n) EXCEPT !.lower = nid] ELSE Rec(n)
    BY <1>15, <2>1, <2>11
  <2>13. call' = [call EXCEPT ![t] = Longer(c, nid)]
    BY <1>2, <1>3 DEF Longer
  <2>14. Makes(t, c, nid)
    BY <1>2, <1>7, <1>10, <2>10, <2>12, <2>13 DEF Makes
  <2> QED BY <1>7, <2>14
<1> QED BY <1>14, <1>15

\* The nodes of other elements stay, and the entry point leads down from its top.
OthersStay(e, hd, gd, W, V) ==
  \A n \in NIDs : Holds(n) /\ Rec(n).owner # e =>
    Stays(n) /\ gd[n] = hd[n] /\ (n \in W => n \in V)

EntryStays(gd, V) ==
  meta.nid # NoNode /\ ~Replacing /\ ~strayed =>
    meta.nid \in V /\ gd[meta.nid] = meta.nid /\ NodeAt(meta.nid, meta.level)'

\* A step of the call of thread t that changes only nodes of its element.
LEMMA NodesChains ==
  ASSUME IndexInv, CallsApart, NEW t \in Threads, NEW c \in CallType, c = call[t],
         NEW d \in CallType, call' = [call EXCEPT ![t] = d],
         d.e = c.e, d.op = c.op, d.excl = c.excl, UNCHANGED <<meta, strayed, handle>>,
         NEW hd, NEW gd, NEW W \in SUBSET NIDs, NEW V, Chains(hd, W),
         Forest(gd)', Whole(V)', PathOK(d, gd, V)',
         OthersStay(c.e, hd, gd, W, V), EntryStays(gd, V)
  PROVE  Chains(gd, V)' /\ CallsApart'
<1>0. TypeOK /\ Busy(t) /\ d.op # "idle"
  BY CallOrNone DEF IndexInv, Busy
<1>1. Paths(gd, V)'
  <2>1. ASSUME NEW u \in Threads \ {t}, NEW b \in CallType, call[u] = b
        PROVE  PathOK(b, gd, V)'
    <3>1. PathOK(b, hd, W)
      BY <2>1 DEF Chains, Paths
    <3>2. b.e # c.e
      BY <1>0, <2>1, CallOrNone DEF Busy, CallsApart
    <3>3. ASSUME NEW j \in 1 .. Len(b.path)
          PROVE  /\ Stays(b.path[j]) /\ gd[b.path[j]] = hd[b.path[j]]
                 /\ b.path[j] \in W => b.path[j] \in V
      <4>1. b.path[j] \in NIDs
        BY ElementOfSeq DEF CallType
      <4>2. Holds(b.path[j]) /\ Rec(b.path[j]).owner # c.e
        BY <3>1, <3>2 DEF PathOK, NodeAt
      <4> QED BY <4>1, <4>2 DEF OthersStay
    <3>4. b.op = "remove" /\ b.at # "end" /\ ~b.excl /\ ~strayed' => meta'.nid # b.path[1]
      BY <3>1 DEF PathOK
    <3> QED BY <3>1, <3>3, <3>4, PathFrame
  <2> QED BY <1>0, <2>1, PathsFrame
<1>2. HandlesWhole(gd, V)'
  <2> SUFFICES ASSUME NEW e \in Elements, handle'[e] # NoNode, ~InCall(e)'
               PROVE  /\ handle'[e] \in V /\ gd[handle'[e]] = handle'[e]
                      /\ Rec(handle[e])'.owner = e
    BY DEF HandlesWhole
  <2>1. ~InCall(e) /\ e # c.e
    <3>1. d.e # e
      <4>1. Busy(t)' /\ call'[t].e = d.e
        BY <1>0 DEF IndexInv, TypeOK, Busy
      <4> QED BY <4>1 DEF InCall
    <3>2. ASSUME InCall(e) PROVE FALSE
      <4>1. PICK u \in Threads : Busy(u) /\ call[u].e = e
        BY <3>2 DEF InCall
      <4>2. u # t
        BY <3>1, <4>1
      <4>3. Busy(u)' /\ call'[u].e = e
        BY <1>0, <4>1, <4>2 DEF IndexInv, TypeOK, Busy
      <4> QED BY <4>3 DEF InCall
    <3> QED BY <3>1, <3>2
  <2>2. PICK n \in NIDs : n = handle[e] /\ n \in W /\ hd[n] = n /\ Rec(n).owner = e
    BY <2>1 DEF Chains, HandlesWhole
  <2>3. e # c.e
    BY <2>1
  <2>4. Holds(n)
    BY <2>2, WholeHolds DEF Chains
  <2>5. Stays(n) /\ gd[n] = hd[n] /\ n \in V
    BY <2>2, <2>3, <2>4 DEF OthersStay
  <2>6. Rec(handle[e])' = Rec(n)
    BY <2>2, <2>4, <2>5 DEF Stays, Rec
  <2> QED BY <2>2, <2>5, <2>6
<1>3. EntryWhole(gd, V)'
  <2> SUFFICES ASSUME meta.nid # NoNode, ~Replacing', ~strayed
               PROVE  /\ meta.nid \in V /\ gd[meta.nid] = meta.nid
                      /\ NodeAt(meta.nid, meta.level)'
    BY DEF EntryWhole
  <2>1. ~Replacing
    BY <1>0, ReplacingAfter
  <2> QED BY <2>1 DEF EntryStays
<1>4. CallsApart'
  BY <1>0, ApartOn
<1> QED BY <1>1, <1>2, <1>3, <1>4 DEF Chains

LEMMA CreateNodeChains ==
  ASSUME IndexInv, ChainInv, NEW t \in Threads, CreateNode(t)
  PROVE  ChainInv'
<1>1. PICK hd \in [NIDs -> NIDs], W \in SUBSET NIDs : Chains(hd, W)
  BY DEF ChainInv
<1>2. PICK c, k : c = call[t] /\ k = Len(c.path)
  OBVIOUS
<1>3. /\ c.op = "insert" /\ c.at = "nodes"
      /\ UNCHANGED <<refs, meta, strayed, handle, up, entry>>
  BY <1>2 DEF CreateNode, NewNode, inMemory
<1>4. /\ up /\ c \in CallType /\ c.top \in levels /\ c.top \in Levels /\ c.top \in Nat
      /\ c.path \in Seq(NIDs) /\ c.e \in Elements /\ k <= c.top /\ k \in Nat /\ TypeOK
  BY <1>2, <1>3, BusyType, LenProperties DEF IndexInv, CallsOK, CallOK, Busy, Levels
<1>5. PathOK(c, hd, W)
  BY <1>1, <1>2, <1>4 DEF Chains, Paths
<1>6a. PICK nid \in NIDs : Makes(t, c, nid)
  BY <1>2, NewNodeEffect
<1>6. /\ ~Holds(nid) /\ nid # NoNode
           /\ Holds(nid)' /\ Rec(nid)' = [owner |-> c.e, lower |-> NoNode]
           /\ pages'[nid[1]].root = refs[Primary(c.top - k)]
           /\ \A n \in NIDs \ {nid} :
                /\ Holds(n)' <=> Holds(n)
                /\ Holds(n) =>
                     /\ pages'[n[1]].root = pages[n[1]].root
                     /\ Rec(n)' = IF c.path # <<>> /\ n = c.path[k]
                                  THEN [Rec(n) EXCEPT !.lower = nid] ELSE Rec(n)
  BY <1>2, <1>6a DEF Makes
\* The node above, if there is one.
<1>7. PICK a : a = IF c.path = <<>> THEN NoNode ELSE c.path[k]
  OBVIOUS
<1>8. a # NoNode =>
        /\ k \in 1 .. k /\ c.path # <<>> /\ a = c.path[k] /\ a \in NIDs /\ Holds(a)
        /\ NodeAt(a, c.top + 1 - k) /\ c.top + 1 - k \in Levels /\ c.top + 1 - k # 0
        /\ hd[a] = c.path[1] /\ Rec(a).owner = c.e /\ Rec(a).lower = NoNode
  <2> SUFFICES ASSUME a # NoNode
               PROVE  /\ k \in 1 .. k /\ c.path # <<>> /\ a = c.path[k] /\ a \in NIDs /\ Holds(a)
                      /\ NodeAt(a, c.top + 1 - k) /\ c.top + 1 - k \in Levels
                      /\ c.top + 1 - k # 0
                      /\ hd[a] = c.path[1] /\ Rec(a).owner = c.e /\ Rec(a).lower = NoNode
    OBVIOUS
  <2>1. c.path # <<>> /\ a = c.path[k] /\ k \in 1 .. k
    BY <1>2, <1>4, <1>7, EmptySeq
  <2>2. a \in NIDs
    BY <1>2, <1>4, <2>1, ElementOfSeq
  <2>3. c.top + 1 - k \in Levels /\ c.top + 1 - k # 0
    BY <1>4, <2>1, IndexStoreAssumption DEF Levels
  <2> QED BY <1>2, <1>3, <1>5, <2>1, <2>2, <2>3 DEF PathOK, NodeAt
<1>9. c.path # <<>> => a # NoNode /\ a = c.path[k] /\ c.path[1] \in NIDs /\ Holds(c.path[1])
  <2> SUFFICES ASSUME c.path # <<>>
               PROVE  a # NoNode /\ a = c.path[k] /\ c.path[1] \in NIDs /\ Holds(c.path[1])
    OBVIOUS
  <2>1. k \in 1 .. k /\ 1 \in 1 .. k
    BY <1>2, <1>4, EmptySeq
  <2>2. Holds(c.path[k]) /\ Holds(c.path[1])
    BY <1>2, <1>5, <2>1 DEF PathOK, NodeAt
  <2>3. c.path[1] \in NIDs
    BY <1>2, <1>4, <2>1, ElementOfSeq
  <2> QED BY <1>7, <2>2, <2>3, NoNodeDead
<1>10. ASSUME NEW n \in NIDs, Holds(n)
       PROVE  /\ n # nid /\ n # NoNode /\ Holds(n)'
              /\ pages'[n[1]].root = pages[n[1]].root
              /\ Rec(n)' = IF n = a THEN [Rec(n) EXCEPT !.lower = nid] ELSE Rec(n)
              /\ Rec(n)'.owner = Rec(n).owner
              /\ \A l \in Levels : NodeAt(n, l)' <=> NodeAt(n, l)
  <2>1. n # nid /\ n # NoNode
    BY <1>6, <1>10, NoNodeDead
  <2>2. /\ Holds(n)' /\ pages'[n[1]].root = pages[n[1]].root
        /\ Rec(n)' = IF n = a THEN [Rec(n) EXCEPT !.lower = nid] ELSE Rec(n)
    BY <1>6, <1>7, <1>9, <1>10, <2>1
  <2>3. Rec(n) \in NodeRec
    BY <1>4, <1>10, LowerType
  <2>4. Rec(n)'.owner = Rec(n).owner
    BY <2>2, <2>3 DEF NodeRec
  <2>5. \A l \in Levels : NodeAt(n, l)' <=> NodeAt(n, l)
    BY <1>3, <1>10, <2>2 DEF NodeAt
  <2> QED BY <2>1, <2>2, <2>4, <2>5
<1>11. \A n \in NIDs : Holds(n)' => n = nid \/ Holds(n)
  BY <1>6
<1>12. a # NoNode => Rec(a)'.lower = nid
  <2> SUFFICES ASSUME a # NoNode PROVE Rec(a)'.lower = nid
    OBVIOUS
  <2>1. Rec(a) \in NodeRec /\ Rec(a)' = [Rec(a) EXCEPT !.lower = nid]
    BY <1>4, <1>8, <1>10, LowerType
  <2> QED BY <2>1 DEF NodeRec
<1>13. PICK h \in NIDs, gd \in [NIDs -> NIDs] :
         /\ h = IF c.path = <<>> THEN nid ELSE c.path[1]
         /\ gd = [hd EXCEPT ![nid] = h]
  BY <1>1, <1>9
<1>14. /\ gd[nid] = h
       /\ \A n \in NIDs : n # nid => gd[n] = hd[n]
       /\ h # nid => a # NoNode
       /\ a # NoNode => h # nid /\ h = hd[a]
  BY <1>1, <1>6, <1>7, <1>8, <1>9, <1>13
<1>15. refs[Primary(c.top - k)] # INVALID_REF
  <2>1. c.top - k \in 0 .. c.top
    BY <1>4
  <2> QED BY <1>4, <2>1, LevelStore
<1>16. Forest(gd)'
  <2>1. ASSUME NEW n \in NIDs, Holds(n)'
        PROVE  /\ pages'[n[1]].root # INVALID_REF
               /\ gd[n] # n => \E m \in NIDs : Holds(m)' /\ Rec(m)'.lower = n
               /\ NodeAt(n, 0)' => Rec(n)'.lower = NoNode
    <3>1. CASE n = nid
      <4>1. gd[n] # n => \E m \in NIDs : Holds(m)' /\ Rec(m)'.lower = n
        BY <1>8, <1>10, <1>12, <1>14, <3>1
      <4> QED BY <1>6, <1>15, <3>1, <4>1
    <3>2. CASE n # nid
      <4>1. Holds(n)
        BY <1>11, <2>1, <3>2
      <4>2. pages'[n[1]].root # INVALID_REF
        BY <1>1, <1>10, <4>1 DEF Chains, Forest
      <4>3. ASSUME gd[n] # n PROVE \E m \in NIDs : Holds(m)' /\ Rec(m)'.lower = n
        <5>1. PICK m \in NIDs : Holds(m) /\ Rec(m).lower = n
          BY <1>1, <1>14, <3>2, <4>1, <4>3 DEF Chains, Forest
        <5>2. m # a
          BY <1>8, <1>10, <4>1, <5>1, NoNodeDead
        <5> QED BY <1>10, <5>1, <5>2
      <4>4. ASSUME NodeAt(n, 0)' PROVE Rec(n)'.lower = NoNode
        <5>1. NodeAt(n, 0) /\ pages[n[1]].root # INVALID_REF
          BY <1>1, <1>10, <4>1, <4>4, FirstStores DEF Chains, Forest
        <5>2. n # a
          BY <1>8, <1>10, <4>1, <5>1, FirstStores, LevelUnique
        <5> QED BY <1>1, <1>10, <4>1, <5>1, <5>2 DEF Chains, Forest
      <4> QED BY <4>2, <4>3, <4>4
    <3> QED BY <3>1, <3>2
  <2>2. ASSUME NEW n \in NIDs, NEW m \in NIDs, Holds(n)', Rec(n)'.lower = m, m # NoNode
        PROVE  /\ Holds(m)' /\ gd[m] = gd[n] /\ gd[m] # m /\ Rec(m)'.owner = Rec(n)'.owner
               /\ \A q \in NIDs : Holds(q)' /\ Rec(q)'.lower = m => q = n
    <3>0. Holds(n) /\ n # nid
      BY <1>6, <1>11, <2>2
    <3>1. CASE n = a
      <4>1. m = nid /\ a # NoNode
        BY <1>10, <1>12, <2>2, <3>0, <3>1
      <4>2. gd[m] = gd[n] /\ gd[m] # m
        BY <1>14, <3>0, <3>1, <4>1
      <4>3. Rec(m)'.owner = Rec(n)'.owner
        BY <1>6, <1>8, <1>10, <3>0, <3>1, <4>1
      <4>4. ASSUME NEW q \in NIDs, Holds(q)', Rec(q)'.lower = m PROVE q = n
        <5>1. q # nid
          BY <1>6, <2>2, <4>4
        <5>2. Holds(q)
          BY <1>11, <4>4, <5>1
        <5>3. q # a => Rec(q).lower = nid
          BY <1>10, <4>1, <4>4, <5>2
        <5>4. Rec(q).lower # nid
          BY <1>1, <1>6, <5>2 DEF Chains, Forest
        <5> QED BY <3>1, <5>3, <5>4
      <4> QED BY <1>6, <4>1, <4>2, <4>3, <4>4
    <3>2. CASE n # a
      <4>1. Rec(n).lower = m
        BY <1>10, <2>2, <3>0, <3>2
      <4>2. /\ Holds(m) /\ hd[m] = hd[n] /\ hd[m] # m /\ Rec(m).owner = Rec(n).owner
            /\ \A q \in NIDs : Holds(q) /\ Rec(q).lower = m => q = n
        BY <1>1, <2>2, <3>0, <4>1 DEF Chains, Forest
      <4>3. m # nid /\ Holds(m)' /\ Rec(m)'.owner = Rec(n)'.owner
        BY <1>10, <3>0, <4>2
      <4>4. ASSUME NEW q \in NIDs, Holds(q)', Rec(q)'.lower = m PROVE q = n
        <5>1. q # nid
          BY <1>6, <2>2, <4>4
        <5>2. Holds(q)
          BY <1>11, <4>4, <5>1
        <5>3. q # a
          BY <1>10, <1>12, <4>3, <4>4, <5>2
        <5> QED BY <1>10, <4>2, <4>4, <5>2, <5>3
      <4> QED BY <1>14, <3>0, <4>2, <4>3, <4>4
    <3> QED BY <3>1, <3>2
  <2> QED BY <2>1, <2>2, Zenon DEF Forest
<1>17. \A n \in W : n \in NIDs /\ Holds(n) /\ n # a
  <2> SUFFICES ASSUME NEW n \in W PROVE n \in NIDs /\ Holds(n) /\ n # a
    OBVIOUS
  <2>1. n \in NIDs /\ Holds(n)
    BY <1>1, WholeHolds DEF Chains
  <2>2. ASSUME n = a PROVE FALSE
    <3>1. a # NoNode
      BY <2>1, <2>2, NoNodeDead
    <3>2. Rec(n).lower \in W
      BY <1>1, <1>8, <2>2, <3>1, WholeBelow DEF Chains
    <3>3. Rec(n).lower = NoNode
      BY <1>8, <2>2, <3>1
    <3> QED BY <1>1, <3>2, <3>3, WholeHolds, NoNodeDead DEF Chains
  <2> QED BY <2>1, <2>2
<1>18. Whole(W)'
  <2> SUFFICES ASSUME NEW n \in W
               PROVE  \E l \in Levels :
                        /\ NodeAt(n, l)'
                        /\ l # 0 => \E m \in W : Rec(n)'.lower = m /\ NodeAt(m, l - 1)'
    BY Zenon DEF Whole
  <2>1. PICK l \in Levels :
          /\ NodeAt(n, l)
          /\ l # 0 => \E m \in W : Rec(n).lower = m /\ NodeAt(m, l - 1)
    BY <1>1 DEF Chains, Whole
  <2>2. NodeAt(n, l)' /\ Rec(n)' = Rec(n)
    BY <1>10, <1>17, <2>1
  <2>3. ASSUME l # 0 PROVE \E m \in W : Rec(n)'.lower = m /\ NodeAt(m, l - 1)'
    <3>1. l - 1 \in Levels
      BY <2>3, IndexStoreAssumption DEF Levels
    <3> QED BY <1>10, <1>17, <2>1, <2>2, <2>3, <3>1
  <2> QED BY <2>2, <2>3
<1>19. PICK d : d = Longer(c, nid)
  OBVIOUS
<1>20. /\ Append(c.path, nid) \in Seq(NIDs) /\ Len(Append(c.path, nid)) = k + 1
       /\ Append(c.path, nid)[k + 1] = nid
       /\ \A j \in 1 .. k : Append(c.path, nid)[j] = c.path[j]
  BY <1>2, <1>4, AppendProperties
<1>21. /\ d \in CallType /\ d.op = "insert" /\ d.e = c.e /\ d.excl = c.excl
       /\ d.at = (IF Primary(c.top - k) = Primary(0) THEN "end" ELSE "nodes")
       /\ d.path = Append(c.path, nid) /\ d.top = c.top
       /\ call' = [call EXCEPT ![t] = d]
  <2>1. call' = [call EXCEPT ![t] = d]
    BY <1>6a, <1>19 DEF Makes
  <2>2. d.at = (IF Primary(c.top - k) = Primary(0) THEN "end" ELSE "nodes")
    BY <1>2, <1>3, <1>4, <1>19 DEF CallType, Longer
  <2>3. d = [op |-> c.op, at |-> d.at, e |-> c.e, top |-> c.top, excl |-> c.excl,
             path |-> Append(c.path, nid)]
    BY <1>4, <1>19 DEF CallType, Longer
  <2>4. d \in CallType
    <3>1. d.at \in {"end", "nodes"}
      BY <2>2
    <3>2. /\ c.op \in {"insert", "remove"} /\ c.e \in Elements /\ c.top \in Levels
          /\ c.excl \in BOOLEAN
      BY <1>4 DEF CallType
    <3>3. Append(c.path, nid) \in Seq(NIDs)
      BY <1>20
    <3>4. PICK w, q : w = d.at /\ q = Append(c.path, nid)
      OBVIOUS
    <3>5. d = [op |-> c.op, at |-> w, e |-> c.e, top |-> c.top, excl |-> c.excl, path |-> q]
      BY <2>3, <3>4, Zenon
    <3>6. w \in {"levels", "down", "nodes", "end"} /\ q \in Seq(NIDs)
      BY <3>1, <3>3, <3>4
    <3> QED BY <3>2, <3>5, <3>6 DEF CallType
  <2> QED BY <1>3, <2>1, <2>2, <2>3, <2>4
<1>22. PathOK(d, gd, W)'
  <2>1. /\ Len(d.path) = k + 1 /\ d.path[k + 1] = nid
        /\ \A j \in 1 .. k : d.path[j] = c.path[j]
    BY <1>20, <1>21
  <2>2. d.path[1] = h
    <3>1. CASE c.path = <<>>
      BY <1>2, <1>13, <2>1, <3>1
    <3>2. CASE c.path # <<>>
      <4>1. 1 \in 1 .. k
        BY <1>2, <1>4, <3>2, EmptySeq
      <4> QED BY <1>13, <2>1, <3>2, <4>1
    <3> QED BY <3>1, <3>2
  <2>3. NodeAt(nid, c.top - k)'
    BY <1>3, <1>6 DEF NodeAt
  <2>4. ASSUME NEW j \in 1 .. Len(d.path)
        PROVE  /\ NodeAt(d.path[j], d.top + 1 - j)'
               /\ gd[d.path[j]] = d.path[1]
               /\ Rec(d.path[j])'.owner = d.e
               /\ j < Len(d.path) => Rec(d.path[j])'.lower = d.path[j + 1]
               /\ j = Len(d.path) => Rec(d.path[j])'.lower = NoNode
    <3>1. CASE j = k + 1
      <4>1. d.path[j] = nid /\ d.top + 1 - j = c.top - k /\ ~(j < Len(d.path))
        BY <1>4, <1>21, <2>1, <3>1
      <4> QED BY <1>6, <1>14, <1>21, <2>2, <2>3, <4>1
    <3>2. CASE j # k + 1
      <4>1. j \in 1 .. k /\ d.path[j] = c.path[j] /\ j # Len(d.path) /\ d.top = c.top
        BY <1>4, <1>21, <2>1, <3>2
      <4>2. c.path # <<>>
        BY <1>2, <1>4, <4>1
      <4>3. /\ NodeAt(c.path[j], c.top + 1 - j) /\ hd[c.path[j]] = c.path[1]
            /\ Rec(c.path[j]).owner = c.e
            /\ j < k => Rec(c.path[j]).lower = c.path[j + 1]
        BY <1>2, <1>5, <4>1 DEF PathOK
      <4>4. c.path[j] \in NIDs /\ Holds(c.path[j]) /\ c.top + 1 - j \in Levels
        BY <1>2, <1>4, <4>1, <4>3, ElementOfSeq, IndexStoreAssumption DEF Levels, NodeAt
      <4>5. /\ NodeAt(c.path[j], c.top + 1 - j)' /\ Rec(c.path[j])'.owner = d.e
            /\ gd[c.path[j]] = h
        BY <1>10, <1>13, <1>14, <1>21, <4>2, <4>3, <4>4
      <4>6. Rec(c.path[j])'.lower = d.path[j + 1]
        <5>1. CASE j = k
          BY <1>9, <1>12, <2>1, <4>2, <5>1
        <5>2. CASE j # k
          <6>1. j < k /\ j + 1 \in 1 .. k
            BY <1>4, <4>1, <5>2
          <6>2. Rec(c.path[j]).lower = c.path[j + 1] /\ Holds(c.path[j + 1])
            BY <1>2, <1>5, <4>3, <6>1 DEF PathOK, NodeAt
          <6>3. c.path[j] # a
            BY <1>8, <1>9, <4>2, <6>2, NoNodeDead
          <6> QED BY <1>10, <2>1, <4>4, <6>1, <6>2, <6>3
        <5> QED BY <5>1, <5>2
      <4> QED BY <2>2, <4>1, <4>5, <4>6
    <3> QED BY <3>1, <3>2
  <2>5. /\ Len(d.path) <= d.top + 1
        /\ d.at # "down"
        /\ d.at = "end" => Len(d.path) = d.top + 1
    <3>1. Primary(c.top - k) = Primary(0) => k = c.top
      BY <1>4 DEF Primary
    <3> QED BY <1>4, <1>21, <2>1, <3>1
  <2>6. d.op # "remove" /\ handle'[d.e] = NoNode
    BY <1>3, <1>5, <1>21 DEF PathOK
  <2> QED BY <2>4, <2>5, <2>6, Zenon DEF PathOK
<1>23. ASSUME NEW n \in NIDs, Holds(n), Rec(n).owner # c.e
       PROVE  Stays(n) /\ gd[n] = hd[n]
  <2>1. n # a
    BY <1>8, <1>23, NoNodeDead
  <2> QED BY <1>10, <1>14, <1>23, <2>1 DEF Stays
<1>24. meta.nid # NoNode /\ ~Replacing /\ ~strayed =>
           meta.nid \in W /\ gd[meta.nid] = meta.nid /\ NodeAt(meta.nid, meta.level)'
  <2> SUFFICES ASSUME meta.nid # NoNode, ~Replacing, ~strayed
               PROVE  meta.nid \in W /\ gd[meta.nid] = meta.nid /\ NodeAt(meta.nid, meta.level)'
    OBVIOUS
  <2>1. PICK n \in NIDs, l \in Levels : n = meta.nid /\ l = meta.level
    BY <1>4 DEF TypeOK, EntryType
  <2>2. n \in W /\ NodeAt(n, l) /\ hd[n] = n
    BY <1>1, <2>1 DEF Chains, EntryWhole
  <2>3. NodeAt(n, l)' /\ gd[n] = n
    BY <1>10, <1>14, <1>17, <2>2
  <2>4. NodeAt(meta.nid, meta.level)' = NodeAt(n, l)'
    BY <1>3, <2>1 DEF NodeAt, Holds
  <2> QED BY <2>1, <2>2, <2>3, <2>4
<1>25. Chains(gd, W)' /\ CallsApart'
  <2>1. CallsApart /\ c = call[t] /\ Chains(hd, W)
    BY <1>1, <1>2 DEF ChainInv
  <2>2. d.op = c.op /\ d.e = c.e /\ d.excl = c.excl /\ call' = [call EXCEPT ![t] = d]
    BY <1>3, <1>21
  <2>3. UNCHANGED <<meta, strayed, handle>>
    BY <1>3
  <2>4. OthersStay(c.e, hd, gd, W, W) /\ EntryStays(gd, W)
    BY <1>23, <1>24, Zenon DEF OthersStay, EntryStays
  <2>5. c \in CallType /\ d \in CallType
    BY <1>4, <1>21
  <2> QED BY <1>1, <1>16, <1>18, <1>22, <2>1, <2>2, <2>3, <2>4, <2>5, NodesChains
<1>26. EntryKnown'
  <2>1. pages # <<>>
    BY <1>4 DEF IndexInv, LevelsOK
  <2>2. BuiltLevels(refs)' = BuiltLevels(refs)
    BY <1>3 DEF BuiltLevels
  <2> QED BY <1>3, <2>1, <2>2 DEF ChainInv, EntryKnown
<1> QED BY <1>13, <1>25, <1>26 DEF ChainInv

\* Call c goes on above the node it dropped.
Shorter(c) ==
  [c EXCEPT !.path = SubSeq(c.path, 1, Len(c.path) - 1),
            !.at = IF SubSeq(c.path, 1, Len(c.path) - 1) = <<>> THEN "end" ELSE c.at]

\* The step drops nid, the last node of call c, below a.
DropsNode(t, c, nid, a) ==
  /\ ~Holds(nid)'
  /\ \A n \in NIDs \ {nid} :
       /\ Holds(n)' <=> Holds(n)
       /\ Holds(n) =>
            /\ pages'[n[1]].root = pages[n[1]].root
            /\ Rec(n)' = IF n = a THEN [Rec(n) EXCEPT !.lower = NoNode] ELSE Rec(n)
  /\ call' = [call EXCEPT ![t] = Shorter(c)]

\* The record that is freed, and the link to it that is cleared.
LEMMA DropNodeEffect ==
  ASSUME IndexInv, NEW t \in Threads, RemoveDrop(t), NEW c, c = call[t],
         NEW k, k = Len(c.path), NEW nid, nid = c.path[k],
         NEW a, a = (IF k = 1 THEN NoNode ELSE c.path[k - 1]),
         Rec(nid).owner = c.e, a # nid
  PROVE  DropsNode(t, c, nid, a)
<1>1. PICK above, ws : above = SubSeq(c.path, 1, k - 1) /\ ws = LinkDown(pages, above, NoNode)
  OBVIOUS
<1>2. /\ c.op = "remove" /\ c.at = "nodes" /\ Readable(c.path)
      /\ pages' = Write(ws, nid, FreeRec)
      /\ call' = [call EXCEPT ![t] = Shorter(c)]
  BY <1>1 DEF RemoveDrop, Shorter
<1>3. c \in CallType /\ c.path \in Seq(NIDs) /\ c.path # <<>>
  BY <1>2, BusyType DEF IndexInv, CallsOK, CallOK, Busy
<1>4. k \in Nat /\ k >= 1
  BY <1>3, EmptySeq, LenProperties
<1>5. /\ above \in Seq(NIDs) /\ Len(above) = k - 1
      /\ \A j \in 1 .. k - 1 : above[j] = c.path[j]
  BY <1>1, <1>3, <1>4, SubSeqProperties
<1>6. TypeOK /\ pages \in Seq(PageType) /\ NoNode \in NIDs
  BY DEF IndexInv, TypeOK, NIDs
<1>7. nid \in NIDs /\ Holds(nid) /\ nid \in (1 .. Len(pages)) \X Slots
  <2>1. k \in 1 .. Len(c.path) /\ k + 1 >= Len(c.path)
    BY <1>4
  <2> QED BY <1>2, <1>3, <1>6, <2>1, ElementOfSeq, HoldsPlace DEF Readable
<1>8. /\ ws \in Seq(PageType) /\ Len(ws) = Len(pages)
      /\ \A p \in 1 .. Len(pages) : ws[p].root = pages[p].root
      /\ \A n \in NIDs :
           /\ HoldsIn(ws, n) <=> Holds(n)
           /\ Holds(n) => ws[n[1]].recs[n[2]] =
                 IF n = a THEN [Rec(n) EXCEPT !.lower = NoNode] ELSE Rec(n)
  <2>0. \A n : (Holds(n) <=> HoldsIn(pages, n)) /\ Rec(n) = pages[n[1]].recs[n[2]]
    BY DEF Holds, HoldsIn, Rec
  <2>1. CASE k = 1
    <3>1. above = <<>>
      BY <1>5, <2>1, EmptySeq
    <3>2. ws = pages
      BY <1>1, <3>1 DEF LinkDown
    <3>3. \A n \in NIDs : Holds(n) => n # a
      BY <2>1, NoNodeDead
    <3> QED BY <1>6, <2>0, <3>2, <3>3
  <2>2. CASE k # 1
    <3>1. k - 1 \in 1 .. k - 1 /\ k - 1 \in 1 .. Len(c.path) /\ (k - 1) + 1 >= Len(c.path)
      <4>1. \A i \in Nat : i >= 1 /\ i # 1 => i - 1 \in 1 .. i - 1 /\ i - 1 \in 1 .. i /\ (i - 1) + 1 >= i
        OBVIOUS
      <4> QED BY <1>4, <2>2, <4>1
    <3>2. above # <<>> /\ above[Len(above)] = a /\ a = c.path[k - 1]
      BY <1>4, <1>5, <2>2, <3>1, EmptySeq
    <3>3. a \in NIDs /\ Holds(a) /\ a \in (1 .. Len(pages)) \X Slots
      BY <1>2, <1>3, <1>6, <3>1, <3>2, ElementOfSeq, HoldsPlace DEF Readable
    <3>4. PICK new : new = [Rec(a) EXCEPT !.lower = NoNode]
      OBVIOUS
    <3>5. new \in NodeRec /\ new # FreeRec
      <4>1. Rec(a) \in NodeRec
        BY <1>6, <3>3, LowerType
      <4> QED BY <1>6, <3>4, <4>1, LiveRec DEF NodeRec
    <3>6. ws = Write(pages, a, new)
      BY <1>1, <2>0, <3>2, <3>4 DEF LinkDown, Write
    <3>7. /\ ws \in Seq(PageType) /\ Len(ws) = Len(pages)
          /\ ws[a[1]].recs[a[2]] = new
          /\ HoldsIn(ws, a)
          /\ \A p \in 1 .. Len(pages) : ws[p].root = pages[p].root
          /\ \A n \in NIDs : n # a =>
               /\ HoldsIn(ws, n) <=> HoldsIn(pages, n)
               /\ HoldsIn(pages, n) => ws[n[1]].recs[n[2]] = pages[n[1]].recs[n[2]]
      <4>1. PICK ps : ps = pages
        OBVIOUS
      <4>2. ps \in Seq(PageType) /\ a \in (1 .. Len(ps)) \X Slots /\ ws = Write(ps, a, new)
        BY <1>6, <3>3, <3>6, <4>1
      <4>3. /\ ws \in Seq(PageType) /\ Len(ws) = Len(ps)
            /\ ws[a[1]].recs[a[2]] = new
            /\ HoldsIn(ws, a)
            /\ \A p \in 1 .. Len(ps) : ws[p].root = ps[p].root
            /\ \A n \in NIDs : n # a =>
                 /\ HoldsIn(ws, n) <=> HoldsIn(ps, n)
                 /\ HoldsIn(ps, n) => ws[n[1]].recs[n[2]] = ps[n[1]].recs[n[2]]
        <5>1. Written(ps, a, new, ws)
          BY <3>5, <4>2, WriteNodes
        <5> QED BY <3>5, <5>1 DEF Written
      <4> QED BY <4>1, <4>3
    <3>8. ASSUME NEW n \in NIDs
          PROVE  /\ HoldsIn(ws, n) <=> Holds(n)
                 /\ Holds(n) => ws[n[1]].recs[n[2]] =
                       IF n = a THEN [Rec(n) EXCEPT !.lower = NoNode] ELSE Rec(n)
      <4>1. CASE n = a
        BY <3>3, <3>4, <3>7, <4>1
      <4>2. CASE n # a
        BY <2>0, <3>7, <4>2
      <4> QED BY <4>1, <4>2
    <3> QED BY <3>7, <3>8
  <2> QED BY <2>1, <2>2
<1>9. /\ Len(pages') = Len(ws)
      /\ ~HoldsIn(pages', nid)
      /\ \A p \in 1 .. Len(ws) : pages'[p].root = ws[p].root
      /\ \A n \in NIDs : n # nid =>
           /\ HoldsIn(pages', n) <=> HoldsIn(ws, n)
           /\ HoldsIn(ws, n) => pages'[n[1]].recs[n[2]] = ws[n[1]].recs[n[2]]
  <2>1. Written(ws, nid, FreeRec, pages')
    BY <1>2, <1>7, <1>8, WriteNodes
  <2> QED BY <2>1 DEF Written
<1>10. \A n \in NIDs : (Holds(n)' <=> HoldsIn(pages', n)) /\ Rec(n)' = pages'[n[1]].recs[n[2]]
  BY DEF Holds, HoldsIn, Rec
<1>11. ASSUME NEW n \in NIDs \ {nid}
       PROVE  /\ Holds(n)' <=> Holds(n)
              /\ Holds(n) =>
                   /\ pages'[n[1]].root = pages[n[1]].root
                   /\ Rec(n)' = IF n = a THEN [Rec(n) EXCEPT !.lower = NoNode] ELSE Rec(n)
  <2>1. Holds(n) => n[1] \in 1 .. Len(pages)
    BY DEF Holds
  <2>2. Holds(n)' <=> Holds(n)
    BY <1>8, <1>9, <1>10
  <2>3. Holds(n) => pages'[n[1]].root = pages[n[1]].root
    BY <1>8, <1>9, <2>1
  <2>4. Holds(n) => Rec(n)' = ws[n[1]].recs[n[2]]
    BY <1>8, <1>9, <1>10
  <2>5. Holds(n) => Rec(n)' = IF n = a THEN [Rec(n) EXCEPT !.lower = NoNode] ELSE Rec(n)
    BY <1>8, <2>4
  <2> QED BY <2>2, <2>3, <2>5
<1>12. ~Holds(nid)'
  BY <1>7, <1>9, <1>10
<1> QED BY <1>2, <1>11, <1>12 DEF DropsNode

LEMMA RemoveDropChains ==
  ASSUME IndexInv, ChainInv, NEW t \in Threads, RemoveDrop(t)
  PROVE  ChainInv'
<1>1. PICK hd \in [NIDs -> NIDs], W \in SUBSET NIDs : Chains(hd, W)
  BY DEF ChainInv
<1>2. PICK c, k, nid, a, h :
        /\ c = call[t] /\ k = Len(c.path) /\ nid = c.path[k]
        /\ a = (IF k = 1 THEN NoNode ELSE c.path[k - 1]) /\ h = c.path[1]
  OBVIOUS
<1>3. /\ c.op = "remove" /\ c.at = "nodes" /\ Readable(c.path)
      /\ UNCHANGED <<refs, meta, strayed, handle, up, entry>>
  BY <1>2 DEF RemoveDrop, inMemory
<1>4. /\ c \in CallType /\ c.path \in Seq(NIDs) /\ c.path # <<>> /\ up /\ c.e \in Elements
      /\ c.top \in Levels /\ c.top \in Nat /\ TypeOK
  BY <1>2, <1>3, BusyType DEF IndexInv, CallsOK, CallOK, Busy, Levels
<1>5. k \in Nat /\ k >= 1 /\ k \in 1 .. k /\ 1 \in 1 .. k
  BY <1>2, <1>4, EmptySeq, LenProperties
<1>6. PathOK(c, hd, W)
  BY <1>1, <1>2, <1>4 DEF Chains, Paths
<1>7. ASSUME NEW j \in 1 .. k
      PROVE  /\ c.path[j] \in NIDs /\ Holds(c.path[j]) /\ c.path[j] # NoNode
             /\ NodeAt(c.path[j], c.top + 1 - j) /\ c.top + 1 - j \in Levels
             /\ hd[c.path[j]] = h /\ Rec(c.path[j]).owner = c.e
             /\ j < k => Rec(c.path[j]).lower = c.path[j + 1]
             /\ j = k => Rec(c.path[j]).lower = NoNode
             /\ pages[c.path[j][1]].root # INVALID_REF
  <2>1. c.path[j] \in NIDs
    BY <1>2, <1>4, ElementOfSeq
  <2>2. /\ NodeAt(c.path[j], c.top + 1 - j) /\ hd[c.path[j]] = h
        /\ Rec(c.path[j]).owner = c.e
        /\ j < k => Rec(c.path[j]).lower = c.path[j + 1]
        /\ j = k => Rec(c.path[j]).lower = NoNode
    BY <1>2, <1>3, <1>6 DEF PathOK
  <2>3. Holds(c.path[j]) /\ c.path[j] # NoNode
    BY <2>2, NoNodeDead DEF NodeAt
  <2>4. k <= c.top + 1
    BY <1>2, <1>6 DEF PathOK
  <2>5. c.top + 1 - j \in Levels
    BY <1>4, <1>5, <2>4, IndexStoreAssumption DEF Levels
  <2> QED BY <1>1, <2>1, <2>2, <2>3, <2>5 DEF Chains, Forest
<1>8. \A i, j \in 1 .. k : c.path[i] = c.path[j] => i = j
  <2> SUFFICES ASSUME NEW i \in 1 .. k, NEW j \in 1 .. k, c.path[i] = c.path[j]
               PROVE  i = j
    OBVIOUS
  <2>1. c.top + 1 - i = c.top + 1 - j
    BY <1>7, LevelUnique
  <2> QED BY <1>4, <1>5, <2>1
<1>9. /\ nid \in NIDs /\ Holds(nid) /\ nid # NoNode /\ hd[nid] = h
      /\ Rec(nid).owner = c.e /\ Rec(nid).lower = NoNode
  BY <1>2, <1>5, <1>7
<1>10. k # 1 => /\ k - 1 \in 1 .. k /\ k - 1 < k /\ (k - 1) + 1 = k /\ a = c.path[k - 1]
                /\ a \in NIDs /\ Holds(a) /\ hd[a] = h /\ Rec(a).owner = c.e
                /\ Rec(a).lower = nid /\ a # nid /\ a # NoNode
  <2> SUFFICES ASSUME k # 1
               PROVE  /\ k - 1 \in 1 .. k /\ k - 1 < k /\ (k - 1) + 1 = k /\ a = c.path[k - 1]
                      /\ a \in NIDs /\ Holds(a) /\ hd[a] = h /\ Rec(a).owner = c.e
                      /\ Rec(a).lower = nid /\ a # nid /\ a # NoNode
    OBVIOUS
  <2>1. k - 1 \in 1 .. k /\ k - 1 < k /\ (k - 1) + 1 = k /\ k - 1 # k
    BY <1>5
  <2>2. a = c.path[k - 1]
    BY <1>2
  <2>3. a # nid
    BY <1>2, <1>5, <1>8, <2>1, <2>2
  <2> QED BY <1>2, <1>7, <2>1, <2>2, <2>3
<1>11. k = 1 => a = NoNode /\ nid = h
  BY <1>2
<1>12. a # nid
  BY <1>9, <1>10, <1>11
<1>13. DropsNode(t, c, nid, a)
  BY <1>2, <1>9, <1>12, DropNodeEffect
<1>14. /\ ~Holds(nid)' /\ \A n \in NIDs : Holds(n)' => n # nid /\ Holds(n)
  BY <1>13 DEF DropsNode
<1>15. ASSUME NEW n \in NIDs, Holds(n), n # nid
       PROVE  /\ Holds(n)' /\ n # NoNode
              /\ pages'[n[1]].root = pages[n[1]].root
              /\ Rec(n)' = IF n = a THEN [Rec(n) EXCEPT !.lower = NoNode] ELSE Rec(n)
              /\ Rec(n)'.owner = Rec(n).owner
              /\ n = a => Rec(n)'.lower = NoNode
              /\ \A l \in Levels : NodeAt(n, l)' <=> NodeAt(n, l)
  <2>1. /\ Holds(n)' /\ pages'[n[1]].root = pages[n[1]].root
        /\ Rec(n)' = IF n = a THEN [Rec(n) EXCEPT !.lower = NoNode] ELSE Rec(n)
    BY <1>13, <1>15 DEF DropsNode
  <2>2. Rec(n) \in NodeRec /\ n # NoNode
    BY <1>4, <1>15, LowerType, NoNodeDead
  <2>3. Rec(n)'.owner = Rec(n).owner /\ (n = a => Rec(n)'.lower = NoNode)
    BY <2>1, <2>2 DEF NodeRec
  <2>4. \A l \in Levels : NodeAt(n, l)' <=> NodeAt(n, l)
    BY <1>3, <1>15, <2>1 DEF NodeAt
  <2> QED BY <2>1, <2>2, <2>3, <2>4
\* Only a leads down to nid.
<1>16. ASSUME NEW n \in NIDs, Holds(n), Rec(n).lower = nid PROVE n = a
  <2>1. /\ hd[nid] # nid
        /\ \A q \in NIDs : Holds(q) /\ Rec(q).lower = nid => q = n
    BY <1>1, <1>9, <1>16 DEF Chains, Forest
  <2>2. k # 1
    BY <1>9, <1>11, <2>1
  <2> QED BY <1>10, <2>1, <2>2
<1>17. Forest(hd)'
  <2>1. ASSUME NEW n \in NIDs, Holds(n)'
        PROVE  /\ pages'[n[1]].root # INVALID_REF
               /\ hd[n] # n => \E m \in NIDs : Holds(m)' /\ Rec(m)'.lower = n
               /\ NodeAt(n, 0)' => Rec(n)'.lower = NoNode
    <3>1. Holds(n) /\ n # nid /\ n # NoNode
      BY <1>14, <2>1, NoNodeDead
    <3>2. pages'[n[1]].root # INVALID_REF
      BY <1>1, <1>15, <3>1 DEF Chains, Forest
    <3>3. ASSUME hd[n] # n PROVE \E m \in NIDs : Holds(m)' /\ Rec(m)'.lower = n
      <4>1. PICK m \in NIDs : Holds(m) /\ Rec(m).lower = n
        BY <1>1, <3>1, <3>3 DEF Chains, Forest
      <4>2. m # nid
        BY <1>9, <3>1, <4>1
      <4>3. m # a
        <5>1. ASSUME m = a PROVE FALSE
          <6>1. k # 1
            BY <1>11, <4>1, <5>1, NoNodeDead
          <6> QED BY <1>10, <3>1, <4>1, <5>1, <6>1
        <5> QED BY <5>1
      <4> QED BY <1>15, <4>1, <4>2, <4>3
    <3>4. ASSUME NodeAt(n, 0)' PROVE Rec(n)'.lower = NoNode
      <4>1. NodeAt(n, 0)
        BY <1>15, <3>1, <3>4, FirstStores
      <4> QED BY <1>1, <1>15, <3>1, <4>1 DEF Chains, Forest
    <3> QED BY <3>2, <3>3, <3>4
  <2>2. ASSUME NEW n \in NIDs, NEW m \in NIDs, Holds(n)', Rec(n)'.lower = m, m # NoNode
        PROVE  /\ Holds(m)' /\ hd[m] = hd[n] /\ hd[m] # m /\ Rec(m)'.owner = Rec(n)'.owner
               /\ \A q \in NIDs : Holds(q)' /\ Rec(q)'.lower = m => q = n
    <3>1. Holds(n) /\ n # nid
      BY <1>14, <2>2
    <3>2. n # a /\ Rec(n).lower = m
      BY <1>15, <2>2, <3>1
    <3>3. /\ Holds(m) /\ hd[m] = hd[n] /\ hd[m] # m /\ Rec(m).owner = Rec(n).owner
          /\ \A q \in NIDs : Holds(q) /\ Rec(q).lower = m => q = n
      BY <1>1, <2>2, <3>1, <3>2 DEF Chains, Forest
    <3>4. m # nid
      BY <1>16, <3>1, <3>2
    <3>5. Holds(m)' /\ Rec(m)'.owner = Rec(n)'.owner
      BY <1>15, <3>1, <3>3, <3>4
    <3>6. ASSUME NEW q \in NIDs, Holds(q)', Rec(q)'.lower = m PROVE q = n
      <4>1. Holds(q) /\ q # nid
        BY <1>14, <3>6
      <4>2. Rec(q).lower = m
        BY <1>15, <2>2, <3>6, <4>1
      <4> QED BY <3>3, <4>1, <4>2
    <3> QED BY <3>3, <3>5, <3>6
  <2> QED BY <2>1, <2>2, Zenon DEF Forest
<1>18. PICK V \in SUBSET NIDs : V = {n \in W : ~(hd[n] = h /\ Rec(n).owner = c.e)}
  BY <1>1
<1>19. \A n \in V : /\ n \in W /\ n \in NIDs /\ Holds(n) /\ n # nid /\ n # a
                     /\ ~(hd[n] = h /\ Rec(n).owner = c.e)
  <2> SUFFICES ASSUME NEW n \in V
               PROVE  /\ n \in W /\ n \in NIDs /\ Holds(n) /\ n # nid /\ n # a
                      /\ ~(hd[n] = h /\ Rec(n).owner = c.e)
    OBVIOUS
  <2>1. n \in W /\ n \in NIDs /\ ~(hd[n] = h /\ Rec(n).owner = c.e)
    BY <1>18
  <2>2. Holds(n)
    BY <1>1, <2>1, WholeHolds DEF Chains
  <2>3. n # nid /\ n # a
    BY <1>9, <1>10, <1>11, <2>1, <2>2, NoNodeDead
  <2> QED BY <2>1, <2>2, <2>3
<1>20. Whole(V)'
  <2> SUFFICES ASSUME NEW n \in V
               PROVE  \E l \in Levels :
                        /\ NodeAt(n, l)'
                        /\ l # 0 => \E m \in V : Rec(n)'.lower = m /\ NodeAt(m, l - 1)'
    BY Zenon DEF Whole
  <2>0. /\ n \in W /\ n \in NIDs /\ Holds(n) /\ n # nid /\ n # a
        /\ ~(hd[n] = h /\ Rec(n).owner = c.e)
    BY <1>19
  <2>1. PICK l \in Levels :
          /\ NodeAt(n, l)
          /\ l # 0 => \E m \in W : Rec(n).lower = m /\ NodeAt(m, l - 1)
    BY <1>1, <2>0 DEF Chains, Whole
  <2>2. NodeAt(n, l)' /\ Rec(n)' = Rec(n)
    BY <1>15, <2>0, <2>1
  <2>3. ASSUME l # 0 PROVE \E m \in V : Rec(n)'.lower = m /\ NodeAt(m, l - 1)'
    <3>1. l - 1 \in Levels
      BY <2>3, IndexStoreAssumption DEF Levels
    <3>2. PICK m \in W : Rec(n).lower = m /\ NodeAt(m, l - 1)
      BY <2>1, <2>3
    <3>3. m \in NIDs /\ Holds(m) /\ m # NoNode
      BY <1>1, <3>2, WholeHolds, NoNodeDead DEF Chains
    <3>4. hd[m] = hd[n] /\ Rec(m).owner = Rec(n).owner
      BY <1>1, <2>0, <3>2, <3>3 DEF Chains, Forest
    <3>5. m \in V
      BY <1>18, <2>0, <3>2, <3>4
    <3>6. NodeAt(m, l - 1)'
      BY <1>15, <1>19, <3>1, <3>2, <3>3, <3>5
    <3> QED BY <2>2, <3>2, <3>5, <3>6
  <2> QED BY <2>2, <2>3
<1>21. PICK above, d : above = SubSeq(c.path, 1, k - 1) /\ d = Shorter(c)
  OBVIOUS
<1>22. /\ above \in Seq(NIDs) /\ Len(above) = k - 1
       /\ \A j \in 1 .. k - 1 : above[j] = c.path[j]
  <2>1. \A j \in 1 .. k - 1 : c.path[j] \in NIDs
    BY <1>5, <1>7
  <2> QED BY <1>5, <1>21, <2>1, SubSeqProperties
<1>23. /\ d \in CallType /\ d.op = c.op /\ d.e = c.e /\ d.excl = c.excl /\ d.top = c.top
       /\ d.path = above /\ d.at = (IF above = <<>> THEN "end" ELSE "nodes")
       /\ call' = [call EXCEPT ![t] = d]
  <2>1. call' = [call EXCEPT ![t] = d]
    BY <1>13, <1>21 DEF DropsNode
  <2>2. d = [c EXCEPT !.path = above, !.at = IF above = <<>> THEN "end" ELSE c.at]
    BY <1>2, <1>21 DEF Shorter
  <2> QED BY <1>3, <1>4, <1>22, <2>1, <2>2 DEF CallType
<1>24. PathOK(d, hd, V)'
  <2>1. ASSUME NEW j \in 1 .. Len(d.path)
        PROVE  /\ NodeAt(d.path[j], d.top + 1 - j)'
               /\ hd[d.path[j]] = d.path[1]
               /\ Rec(d.path[j])'.owner = d.e
               /\ j < Len(d.path) => Rec(d.path[j])'.lower = d.path[j + 1]
               /\ j = Len(d.path) => Rec(d.path[j])'.lower = NoNode
    <3>1. /\ j \in 1 .. k - 1 /\ j \in 1 .. k /\ k # 1 /\ j < k /\ j # k
          /\ Len(d.path) = k - 1 /\ 1 \in 1 .. k - 1
      BY <1>5, <1>22, <1>23
    <3>2. PICK x \in NIDs : x = c.path[j] /\ x = d.path[j]
      BY <1>7, <1>22, <1>23, <3>1
    <3>3. x # nid
      BY <1>2, <1>5, <1>8, <3>1, <3>2
    <3>4. /\ Holds(x) /\ NodeAt(x, c.top + 1 - j) /\ c.top + 1 - j \in Levels
          /\ hd[x] = h /\ Rec(x).owner = c.e /\ Rec(x).lower = c.path[j + 1]
      BY <1>7, <3>1, <3>2
    <3>5. NodeAt(x, c.top + 1 - j)' /\ Rec(x)'.owner = c.e
      BY <1>15, <3>3, <3>4
    <3>6. d.path[1] = h
      BY <1>2, <1>22, <1>23, <3>1
    <3>7. ASSUME j < Len(d.path) PROVE Rec(x)'.lower = d.path[j + 1]
      <4>1. j + 1 \in 1 .. k - 1 /\ j # k - 1
        BY <1>5, <3>1, <3>7
      <4>2. x # a
        BY <1>8, <1>10, <3>1, <3>2, <4>1
      <4>3. d.path[j + 1] = c.path[j + 1]
        BY <1>22, <1>23, <4>1
      <4> QED BY <1>15, <3>3, <3>4, <4>2, <4>3
    <3>8. ASSUME j = Len(d.path) PROVE Rec(x)'.lower = NoNode
      <4>1. j = k - 1
        BY <3>1, <3>8
      <4>2. x = a
        BY <1>10, <3>1, <3>2, <4>1
      <4> QED BY <1>15, <3>3, <3>4, <4>2
    <3> QED BY <1>23, <3>2, <3>4, <3>5, <3>6, <3>7, <3>8
  <2>2. /\ Len(d.path) <= d.top + 1 /\ d.at # "down" /\ d.op # "insert"
    <3>1. k <= c.top + 1
      BY <1>2, <1>6 DEF PathOK
    <3> QED BY <1>3, <1>4, <1>5, <1>22, <1>23, <3>1
  <2>3. ASSUME d.at # "end", ~d.excl, ~strayed' PROVE meta'.nid # d.path[1]
    <3>1. above # <<>>
      BY <1>23, <2>3
    <3>2. 1 \in 1 .. k - 1
      BY <1>5, <1>22, <3>1, EmptySeq
    <3>3. d.path[1] = c.path[1]
      BY <1>22, <1>23, <3>2
    <3>4. meta.nid # c.path[1]
      BY <1>3, <1>6, <1>23, <2>3 DEF PathOK
    <3> QED BY <1>3, <3>3, <3>4
  <2> QED BY <2>1, <2>2, <2>3, Zenon DEF PathOK
<1>25. OthersStay(c.e, hd, hd, W, V)
  <2> SUFFICES ASSUME NEW n \in NIDs, Holds(n), Rec(n).owner # c.e
               PROVE  Stays(n) /\ (n \in W => n \in V)
    BY DEF OthersStay
  <2>1. n # nid /\ n # a
    BY <1>9, <1>10, <1>11, NoNodeDead
  <2>2. Stays(n)
    BY <1>15, <2>1 DEF Stays
  <2> QED BY <1>18, <2>2
<1>26. EntryStays(hd, V)
  <2> SUFFICES ASSUME meta.nid # NoNode, ~Replacing, ~strayed
               PROVE  /\ meta.nid \in V /\ hd[meta.nid] = meta.nid
                      /\ NodeAt(meta.nid, meta.level)'
    BY DEF EntryStays
  <2>1. PICK n \in NIDs, l \in Levels : n = meta.nid /\ l = meta.level
    BY <1>4 DEF TypeOK, EntryType
  <2>2. n \in W /\ NodeAt(n, l) /\ hd[n] = n
    BY <1>1, <2>1 DEF Chains, EntryWhole
  <2>3. ~c.excl
    BY <1>2, <1>3 DEF Replacing
  <2>4. n # h
    BY <1>2, <1>3, <1>6, <2>1, <2>3 DEF PathOK
  <2>5. n \in V
    BY <1>18, <2>2, <2>4
  <2>6. NodeAt(n, l)'
    BY <1>15, <1>19, <2>2, <2>5
  <2>7. NodeAt(meta.nid, meta.level)' = NodeAt(n, l)'
    BY <1>3, <2>1 DEF NodeAt, Holds
  <2> QED BY <2>1, <2>2, <2>5, <2>6, <2>7
<1>27. Chains(hd, V)' /\ CallsApart'
  <2>1. CallsApart /\ c = call[t] /\ Chains(hd, W)
    BY <1>1, <1>2 DEF ChainInv
  <2>2. UNCHANGED <<meta, strayed, handle>>
    BY <1>3
  <2> QED BY <1>1, <1>4, <1>17, <1>20, <1>23, <1>24, <1>25, <1>26, <2>1, <2>2, NodesChains
<1>28. EntryKnown'
  <2>1. pages # <<>>
    BY <1>4 DEF IndexInv, LevelsOK
  <2>2. BuiltLevels(refs)' = BuiltLevels(refs)
    BY <1>3 DEF BuiltLevels
  <2> QED BY <1>3, <2>1, <2>2 DEF ChainInv, EntryKnown
<1> QED BY <1>1, <1>18, <1>27, <1>28 DEF ChainInv

-------------------------------------------------------------------------------
(* The invariant holds, and what it implies.                               *)

LEMMA StutterChains ==
  ASSUME ChainInv, UNCHANGED vars
  PROVE  ChainInv'
<1>1. PICK hd \in [NIDs -> NIDs], W \in SUBSET NIDs : Chains(hd, W)
  BY DEF ChainInv
<1>2. UNCHANGED <<pages, refs, meta, strayed, handle, up, entry, call>>
  BY DEF vars, onPages, inMemory
<1>3. Chains(hd, W)' = Chains(hd, W)
  BY <1>2 DEF Chains, Forest, Whole, Paths, PathOK, HandlesWhole, EntryWhole, Replacing,
              InCall, Busy, NodeAt, Holds, Rec
<1>4. CallsApart' /\ EntryKnown'
  BY <1>2 DEF ChainInv, CallsApart, EntryKnown, Busy, BuiltLevels
<1> QED BY <1>1, <1>3, <1>4 DEF ChainInv

LEMMA NextChains ==
  ASSUME RemovesFinish, IndexInv, ChainInv, [Next]_vars
  PROVE  ChainInv'
<1>1. CASE Create BY <1>1, CreateChains
<1>2. CASE Drop BY <1>2, DropChains
<1>3. CASE Crash BY <1>3, CrashChains
<1>4. CASE Load BY <1>4, LoadChains
<1>5. ASSUME NEW t \in Threads, NEW e \in Elements, NEW l \in Levels, InsertCall(t, e, l)
      PROVE  ChainInv'
  BY <1>5, InsertCallChains
<1>6. ASSUME NEW t \in Threads, EnsureHalf(t) PROVE ChainInv'
  BY <1>6, EnsureHalfChains
<1>7. ASSUME NEW t \in Threads, EnsureDone(t) PROVE ChainInv'
  BY <1>7, EnsureDoneChains
<1>8. ASSUME NEW t \in Threads, CreateNode(t) PROVE ChainInv'
  BY <1>8, CreateNodeChains
<1>9. ASSUME NEW t \in Threads, InsertEntryPoint(t) PROVE ChainInv'
  BY <1>9, InsertEntryPointChains
<1>10. ASSUME NEW t \in Threads, InsertReturn(t) PROVE ChainInv'
  BY <1>10, InsertReturnChains
<1>11. ASSUME NEW t \in Threads, NEW e \in Elements, RemoveCall(t, e) PROVE ChainInv'
  BY <1>11, RemoveCallChains
<1>12. ASSUME NEW t \in Threads, RemoveDescend(t) PROVE ChainInv'
  BY <1>12, RemoveDescendChains
<1>13. ASSUME NEW t \in Threads, RemoveDrop(t) PROVE ChainInv'
  BY <1>13, RemoveDropChains
<1>14. ASSUME NEW t \in Threads, RemoveEntryPoint(t) PROVE ChainInv'
  BY <1>14, RemoveEntryPointChains
<1>15. ASSUME NEW t \in Threads, RemoveReturn(t) PROVE ChainInv'
  BY <1>15, RemoveReturnChains
<1>16. ASSUME NEW t \in Threads, Fail(t) PROVE ChainInv'
  BY <1>16, FailChains
<1>17. CASE UNCHANGED vars BY <1>17, StutterChains
<1>18. CASE LoadFails BY <1>18, StutterChains DEF LoadFails
<1> QED
  BY <1>1, <1>2, <1>3, <1>4, <1>5, <1>6, <1>7, <1>8, <1>9, <1>10, <1>11, <1>12, <1>13,
     <1>14, <1>15, <1>16, <1>17, <1>18 DEF Next

LEMMA ChainsAlways ==
  ASSUME RemovesFinish
  PROVE  Spec => [](IndexInv /\ ChainInv)
<1>1. Init => IndexInv /\ ChainInv
  BY InitInv, InitChains
<1>2. IndexInv /\ ChainInv /\ [Next]_vars => (IndexInv /\ ChainInv)'
  <2> SUFFICES ASSUME IndexInv, ChainInv, [Next]_vars PROVE (IndexInv /\ ChainInv)'
    OBVIOUS
  <2>1. IndexInv'
    BY NextInv
  <2>2. ChainInv'
    BY NextChains
  <2> QED BY <2>1, <2>2
<1> QED BY <1>1, <1>2, PTL DEF Spec

LEMMA ChainsLocated == IndexInv /\ ChainInv => HandlesLocated
<1> SUFFICES ASSUME IndexInv, ChainInv, NEW e \in Elements, handle[e] # NoNode, ~InCall(e)
             PROVE  /\ \E l \in Levels : HeadsChain(handle[e], l)
                    /\ IsTop(handle[e]) /\ Rec(handle[e]).owner = e
  BY DEF HandlesLocated
<1>1. PICK hd \in [NIDs -> NIDs], W \in SUBSET NIDs : Chains(hd, W)
  BY DEF ChainInv
<1>2. PICK n : n = handle[e]
  OBVIOUS
<1>3. n \in W /\ n \in NIDs /\ hd[n] = n /\ Rec(n).owner = e
  BY <1>1, <1>2 DEF Chains, HandlesWhole
<1>4. PICK l \in Levels : NodeAt(n, l)
  BY <1>1, <1>3 DEF Chains, Whole
<1>5. HeadsChain(n, l)
  BY <1>1, <1>3, <1>4, WholeHeadsChain DEF Chains
<1>6. IsTop(n)
  BY <1>1, <1>3, <1>4, TopIsHead DEF Chains, NodeAt
<1> QED BY <1>2, <1>3, <1>5, <1>6

\* With no exclusive call under way, the persisted entry point leads down.
LEMMA EntryLeadsDown ==
  ASSUME IndexInv, ChainInv, \A t \in Threads : Busy(t) => ~call[t].excl,
         meta.nid # NoNode, ~strayed
  PROVE  HeadsChain(meta.nid, meta.level)
<1>1. PICK hd \in [NIDs -> NIDs], W \in SUBSET NIDs : Chains(hd, W)
  BY DEF ChainInv
<1>2. ~Replacing
  BY DEF Replacing, Busy
<1>3. PICK n \in NIDs, l \in Levels : n = meta.nid /\ l = meta.level
  BY DEF IndexInv, TypeOK, EntryType
<1>4. n \in W /\ NodeAt(n, l)
  BY <1>1, <1>2, <1>3 DEF Chains, EntryWhole
<1>5. HeadsChain(n, l)
  BY <1>1, <1>3, <1>4, WholeHeadsChain DEF Chains
<1> QED BY <1>3, <1>5

LEMMA ChainsEntered == IndexInv /\ ChainInv => EntryPointLive
<1> SUFFICES ASSUME IndexInv, ChainInv, up, \A t \in Threads : Busy(t) => ~call[t].excl
             PROVE  /\ entry = meta
                    /\ ~strayed /\ entry.nid # NoNode => HeadsChain(entry.nid, entry.level)
  BY DEF EntryPointLive
<1>1. entry = meta
  BY DEF ChainInv, EntryKnown
<1> QED BY <1>1, EntryLeadsDown

LEMMA ChainsLoadable == IndexInv /\ ChainInv => Loadable
<1> SUFFICES ASSUME IndexInv, ChainInv, ~up, pages # <<>>, meta.nid # NoNode
             PROVE  /\ meta.level \in BuiltLevels(refs)
                    /\ ~strayed => HeadsChain(meta.nid, meta.level)
  BY DEF Loadable
<1>1. \A t \in Threads : ~Busy(t)
  BY DEF IndexInv, CallsOK, CallOK, Busy
<1>2. meta.level \in BuiltLevels(refs)
  BY DEF ChainInv, EntryKnown
<1> QED BY <1>1, <1>2, EntryLeadsDown

\* The key reference of a row names the top node of the row's vector, whose
\* chain leads down to level 0 (what purge and mark_delete start from), after
\* any number of calls, failed inserts and restarts, when purges run to their
\* end.
THEOREM RowsLocated ==
  ASSUME RemovesFinish
  PROVE  Spec => []HandlesLocated
<1> QED BY ChainsAlways, ChainsLocated, PTL

\* A call that takes the graph lock finds the entry point in memory to be the
\* persisted one, and to lead down to level 0 through live nodes of one
\* element, when purges run to their end and as long as each of them that
\* removed the entry point put the top node of a vector in its place.  The
\* second condition is part of EntryPointLive: remove does not see to it.
THEOREM EntryPointAlive ==
  ASSUME RemovesFinish
  PROVE  Spec => []EntryPointLive
<1> QED BY ChainsAlways, ChainsEntered, PTL

\* Whenever the server stops, IndexStore::load finds the level of the persisted
\* entry point, and its record as long as every replacement of an entry point
\* was the top node of a vector (that condition is part of Loadable), when
\* purges run to their end (crash_load shows what a purge that is cut short
\* leaves behind).
THEOREM AlwaysLoadable ==
  ASSUME RemovesFinish
  PROVE  Spec => []Loadable
<1> QED BY ChainsAlways, ChainsLoadable, PTL
===============================================================================
