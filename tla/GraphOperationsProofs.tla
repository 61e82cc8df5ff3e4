------------------------- MODULE GraphOperationsProofs -------------------------
(***************************************************************************)
(* Proofs about GraphOperations for every number of threads, elements and  *)
(* levels, whether or not reads and writes fail: type correctness, that no *)
(* level is locked before it exists, that threads never wait for each      *)
(* other in a circle, that an entry point only gives way as it should, and *)
(* that the nodes of an element are marked as one.                         *)
(***************************************************************************)
EXTENDS GraphOperations, IndexGraphProofs

\* The places in a call, by the locks held there: none yet, those above the
\* level the call is at, and those from that level on.
NoLockPcs == {"idle", "ins_upgrade", "rem_upgrade"}

AbovePcs == {"ins_lock", "rem_lock", "rem_relock", "knn_lock", "mark_lock"}

FromPcs == {"ins_search", "ins_descend", "ins_create", "ins_keep", "rem_repair",
            "rem_shrink", "rem_replace", "knn_search", "knn_descend"}

\* The nodes of the new element are all there.
CreatedPcs == {"ins_link", "ins_linking", "ins_shrink", "ins_replace", "ins_done"}

ShrinkPcs == {"ins_linking", "ins_shrink", "ins_replace", "rem_shrink",
              "rem_replace"}

\* A remove repairs the level it is at.
RepairPcs == {"rem_repair", "rem_shrink", "rem_replace"}

\* The locals L of a call at p, on an index of height h.
LocalsOK(p, L, h) ==
  /\ p = "ins_lock" => L.level >= L.top
  /\ p \in {"ins_search", "ins_descend"} => L.level > L.top
  /\ p \in {"ins_keep", "knn_descend"} => L.level > 0
  /\ p \in CreatedPcs \cup RemovePcs \cup {"ins_create", "ins_keep"} =>
       L.level <= L.top
  /\ L.elevel <= h /\ L.rlevel <= h
  /\ p # "ins_upgrade" => L.level <= h /\ L.top <= h
  /\ p \in KnnPcs \cup {"idle"} => L.e = Nil
  /\ p \in InsertPcs \cup RemovePcs \cup {"mark_lock"} => L.e \in Elements
  /\ p \in ShrinkPcs => L.link \in Elements
  /\ p \in {"ins_replace", "rem_replace"} => L.shrink \in Elements

\* Its locks H: levels that exist, and none below the next one it asks for.  A
\* remove repairs a level alone, and frees nodes of levels it has locked.
HeldOK(p, L, H, h) ==
  /\ p \in NoLockPcs <=> H[GraphLock] = "none"
  /\ \A k \in Levels : H[k] # "none" =>
       /\ p \notin NoLockPcs
       /\ k <= h
       /\ p \in AbovePcs => k > L.level
       /\ p \in FromPcs => k >= L.level
  /\ p \in RepairPcs => H[L.level] = "X"
  /\ p = "rem_relock" => \A k \in (L.level + 1) .. L.top : H[k] # "none"
  /\ p = "rem_drop" => \A k \in 0 .. L.top : H[k] # "none"

ChainFrom(nds, e, a, b) == \A k \in a .. b : Exists(nds[k], e)

\* The nodes of its element that are there.
OwnsOK(p, L, nds, hd) ==
  /\ p = "ins_create" => ChainFrom(nds, L.e, L.level + 1, L.top)
  /\ p = "ins_keep" => ChainFrom(nds, L.e, L.level, L.top)
  /\ p \in CreatedPcs => ChainFrom(nds, L.e, 0, L.top)
  /\ p \in RemovePcs => hd[L.e] = L.top
  /\ p \in RemovePcs \ {"rem_drop", "rem_done"} => ChainFrom(nds, L.e, 0, L.top)
  /\ p = "rem_drop" => ChainFrom(nds, L.e, L.level, L.top)
  /\ p = "mark_lock" => /\ L.level <= hd[L.e]
                        /\ ChainFrom(nds, L.e, 0, hd[L.e])
  /\ p \in RepairPcs => \A o \in L.orph : Exists(nds[L.level], o)

\* No caller knows a handle of the element it inserts.
FreshOK(p, L, hd) == p \in InsertPcs => hd[L.e] = NoLevel

\* A call that will set the entry point has the graph to itself, and what it
\* saw of the entry point still holds.
EntryOK(p, L, H, en, el) ==
  L.newEp =>
    /\ H[GraphLock] = "X"
    /\ p \in InsertPcs => en = Nil \/ L.top > el
    /\ p \in RemovePcs => en = L.e

CallsOK ==
  \A t \in Threads :
    /\ LocalsOK(pc[t], loc[t], height)
    /\ HeldOK(pc[t], loc[t], held[t], height)
    /\ OwnsOK(pc[t], loc[t], nodes, handle)
    /\ FreshOK(pc[t], loc[t], handle)
    /\ EntryOK(pc[t], loc[t], held[t], entry, entryLevel)

\* No two calls work on the same element.
OneCallEach ==
  \A t, u \in Threads : t # u /\ loc[t].e # Nil => loc[u].e # loc[t].e

LocksExclude ==
  \A t, u \in Threads, k \in Locks :
    t # u /\ held[t][k] = "X" => held[u][k] = "none"

\* The levels below the height and the nodes of elements no call works on.
IndexOK ==
  /\ entryLevel <= height
  /\ \A e \in Elements : handle[e] <= height
  /\ \A e \in Elements :
       Unused(e) /\ handle[e] # NoLevel => ChainFrom(nodes, e, 0, handle[e])

GraphInv == TypeOK /\ CallsOK /\ OneCallEach /\ LocksExclude /\ IndexOK

-------------------------------------------------------------------------------
(* One thread's step.                                                      *)

Modes == {"none", "S", "X"}

\* The other threads stay where they are, and t gets to a place where it holds
\* what it should, having waited for the locks it takes.
Moves(t) ==
  /\ pc' \in [Threads -> Pcs]
  /\ loc' \in [Threads -> Locals]
  /\ held' \in [Threads -> [Locks -> Modes]]
  /\ height' \in Levels /\ height' >= height
  /\ \A u \in Threads \ {t} :
       pc'[u] = pc[u] /\ loc'[u] = loc[u] /\ held'[u] = held[u]
  /\ LocalsOK(pc'[t], loc'[t], height')
  /\ HeldOK(pc'[t], loc'[t], held'[t], height')
  /\ \A k \in Locks :
       \/ held'[t][k] \in {held[t][k], "none"}
       \/ CanLock(t, k)
       \/ held'[t][k] = "S" /\ CanShare(t, k)

\* t makes and frees nodes of its own element only, and leaves them complete or
\* without a handle.
Keeps(t) ==
  /\ nodes' \in [Levels -> LevelType]
  /\ handle' \in [Elements -> Levels \cup {NoLevel}]
  /\ \A e \in Elements : handle'[e] <= height'
  /\ \A e \in Elements \ {loc[t].e} :
       /\ handle'[e] = handle[e]
       /\ \A k \in Levels : Exists(nodes[k], e) => Exists(nodes'[k], e)
  /\ \A k \in Levels, e \in Elements :
       held[t][k] = "none" /\ Exists(nodes[k], e) => Exists(nodes'[k], e)
  /\ OwnsOK(pc'[t], loc'[t], nodes', handle')
  /\ FreshOK(pc'[t], loc'[t], handle')
  /\ loc'[t].e \in {loc[t].e, Nil} \/ (loc[t].e = Nil /\ Unused(loc'[t].e))
  /\ loc[t].e \in Elements /\ loc'[t].e = Nil /\ handle'[loc[t].e] # NoLevel =>
       ChainFrom(nodes', loc[t].e, 0, handle'[loc[t].e])

\* t changes the entry point only with the graph to itself.
Enters(t) ==
  /\ entry' \in Elements \cup {Nil}
  /\ entryLevel' \in Levels /\ entryLevel' <= height'
  /\ strayed' \in BOOLEAN
  /\ UNCHANGED <<entry, entryLevel>> \/ held[t][GraphLock] = "X"
  /\ EntryOK(pc'[t], loc'[t], held'[t], entry', entryLevel')

LEMMA LockSets ==
  /\ Levels \subseteq Locks /\ GraphLock \in Locks /\ GraphLock \notin Levels
  /\ 0 \in Levels /\ Locks = Levels \cup {GraphLock}
  /\ \A l \in Levels : l \in Int /\ l >= 0 /\ (0 .. l) \subseteq Levels
  /\ NoLevel \notin Levels
  BY GraphAssumption DEF Levels, Locks, GraphLock, NoLevel

LEMMA StepTogether ==
  ASSUME GraphInv, NEW t \in Threads, Moves(t), Keeps(t), Enters(t)
  PROVE  GraphInv'
<1>1. TypeOK'
  BY DEF Moves, Keeps, Enters, TypeOK, LevelType, Modes
<1>2. LocksExclude'
  <2> SUFFICES ASSUME NEW u \in Threads, NEW v \in Threads, NEW k \in Locks,
                      u # v, held'[u][k] = "X"
               PROVE  held'[v][k] = "none"
    BY DEF LocksExclude
  <2>1. held' \in [Threads -> [Locks -> Modes]] /\ held \in [Threads -> [Locks -> Modes]]
    BY DEF Moves, GraphInv, TypeOK, Modes
  <2>2. \A x, y \in Threads : x # y /\ held[x][k] = "X" => held[y][k] = "none"
    BY DEF GraphInv, LocksExclude
  <2>3. CASE u # t /\ v # t
    BY <2>2, <2>3 DEF Moves
  <2>4. CASE u = t
    <3>1. held'[v] = held[v]
      BY <2>4 DEF Moves
    <3>2. held[t][k] = "X" \/ CanLock(t, k)
      BY <2>4 DEF Moves
    <3> QED
      BY <2>2, <2>4, <3>1, <3>2 DEF CanLock
  <2>5. CASE v = t
    <3>1. held[u][k] = "X" /\ held[t][k] = "none" /\ u # t
      BY <2>2, <2>5 DEF Moves
    <3>2. ~CanLock(t, k) /\ ~CanShare(t, k)
      BY <3>1 DEF CanLock, CanShare
    <3> QED
      BY <2>5, <3>1, <3>2 DEF Moves
  <2> QED
    BY <2>3, <2>4, <2>5
<1>3. ASSUME NEW u \in Threads
      PROVE  LocalsOK(pc'[u], loc'[u], height') /\ HeldOK(pc'[u], loc'[u], held'[u], height')
  <2>1. CASE u = t
    BY <2>1 DEF Moves
  <2>2. CASE u # t
    <3>1. pc'[u] = pc[u] /\ loc'[u] = loc[u] /\ held'[u] = held[u] /\ height' >= height
          /\ height \in Int /\ height' \in Int
      BY <2>2, LockSets DEF Moves, GraphInv, TypeOK
    <3>2. LocalsOK(pc[u], loc[u], height) /\ HeldOK(pc[u], loc[u], held[u], height)
      BY DEF GraphInv, CallsOK
    <3>3. LocalsOK(pc[u], loc[u], height')
      <4>1. loc[u].elevel \in Int /\ loc[u].rlevel \in Int /\ loc[u].level \in Int
            /\ loc[u].top \in Int
        BY LockSets DEF GraphInv, TypeOK, Locals
      <4> QED
        BY <3>1, <3>2, <4>1 DEF LocalsOK
    <3>4. HeldOK(pc[u], loc[u], held[u], height')
      BY <3>1, <3>2, LockSets DEF HeldOK
    <3> QED
      BY <3>1, <3>3, <3>4
  <2> QED
    BY <2>1, <2>2
<1>4. OneCallEach'
  <2> SUFFICES ASSUME NEW u \in Threads, NEW v \in Threads, u # v, loc'[u].e # Nil
               PROVE  loc'[v].e # loc'[u].e
    BY DEF OneCallEach
  <2>1. \A x, y \in Threads : x # y /\ loc[x].e # Nil => loc[y].e # loc[x].e
    BY DEF GraphInv, OneCallEach
  <2>2. CASE u # t /\ v # t
    BY <2>1, <2>2 DEF Moves
  <2>3. CASE u = t
    <3>1. loc'[v] = loc[v]
      BY <2>3 DEF Moves
    <3>2. loc'[t].e = loc[t].e \/ Unused(loc'[t].e)
      BY <2>3 DEF Keeps
    <3> QED
      BY <2>1, <2>3, <3>1, <3>2 DEF Unused
  <2>4. CASE v = t
    <3>1. loc'[u] = loc[u]
      BY <2>4 DEF Moves
    <3>2. loc'[t].e = loc[t].e \/ loc'[t].e = Nil \/ Unused(loc'[t].e)
      BY DEF Keeps
    <3> QED
      BY <2>1, <2>4, <3>1, <3>2 DEF Unused
  <2> QED
    BY <2>2, <2>3, <2>4
<1>5. ASSUME NEW u \in Threads
      PROVE  OwnsOK(pc'[u], loc'[u], nodes', handle') /\ FreshOK(pc'[u], loc'[u], handle')
  <2>1. CASE u = t
    BY <2>1 DEF Keeps
  <2>2. CASE u # t
    <3>1. pc'[u] = pc[u] /\ loc'[u] = loc[u]
      BY <2>2 DEF Moves
    <3>2. /\ OwnsOK(pc[u], loc[u], nodes, handle) /\ LocalsOK(pc[u], loc[u], height)
          /\ FreshOK(pc[u], loc[u], handle)
      BY DEF GraphInv, CallsOK
    <3>3. CASE pc[u] \notin InsertPcs \cup RemovePcs \cup {"mark_lock"}
      BY <3>1, <3>3 DEF OwnsOK, FreshOK, CreatedPcs, InsertPcs, RemovePcs, RepairPcs
    <3>4. CASE pc[u] \in InsertPcs \cup RemovePcs \cup {"mark_lock"}
      <4>1. loc[u].e \in Elements /\ loc[u].e # loc[t].e
        <5>1. loc[u].e \in Elements
          BY <3>2, <3>4 DEF LocalsOK
        <5> QED
          BY <2>2, <5>1, GraphAssumption DEF GraphInv, OneCallEach
      <4>2. /\ handle'[loc[u].e] = handle[loc[u].e]
            /\ \A k \in Levels : Exists(nodes[k], loc[u].e) => Exists(nodes'[k], loc[u].e)
        BY <4>1 DEF Keeps
      <4>3. /\ loc[u].top \in Levels /\ loc[u].level \in Levels
            /\ handle[loc[u].e] \in Levels \cup {NoLevel}
        BY <4>1 DEF GraphInv, TypeOK, Locals
      <4>4. /\ (loc[u].level + 1) .. loc[u].top \subseteq Levels
            /\ loc[u].level .. loc[u].top \subseteq Levels
            /\ 0 .. loc[u].top \subseteq Levels
            /\ 0 .. handle[loc[u].e] \subseteq Levels
        BY <4>3, GraphAssumption DEF Levels, NoLevel
      <4>5. ASSUME pc[u] \in RepairPcs
            PROVE  \A o \in loc[u].orph : Exists(nodes'[loc[u].level], o)
        <5>1. held[u][loc[u].level] = "X"
          BY <4>5 DEF GraphInv, CallsOK, HeldOK
        <5>2. held[t][loc[u].level] = "none"
          BY <2>2, <4>3, <5>1, LockSets DEF GraphInv, LocksExclude
        <5>3. loc[u].orph \subseteq Elements
          BY DEF GraphInv, TypeOK, Locals
        <5>4. \A o \in loc[u].orph : Exists(nodes[loc[u].level], o)
          BY <3>2, <4>5 DEF OwnsOK
        <5> QED
          BY <4>3, <5>2, <5>3, <5>4 DEF Keeps
      <4>6. OwnsOK(pc[u], loc[u], nodes', handle')
        BY <3>2, <4>2, <4>4, <4>5 DEF OwnsOK, ChainFrom
      <4> QED
        BY <3>1, <3>2, <4>2, <4>6 DEF FreshOK
    <3> QED
      BY <3>3, <3>4
  <2> QED
    BY <2>1, <2>2
<1>6. ASSUME NEW u \in Threads
      PROVE  EntryOK(pc'[u], loc'[u], held'[u], entry', entryLevel')
  <2>1. CASE u = t
    BY <2>1 DEF Enters
  <2>2. CASE u # t
    <3>1. pc'[u] = pc[u] /\ loc'[u] = loc[u] /\ held'[u] = held[u]
      BY <2>2 DEF Moves
    <3>2. EntryOK(pc[u], loc[u], held[u], entry, entryLevel)
      BY DEF GraphInv, CallsOK
    <3>3. CASE UNCHANGED <<entry, entryLevel>>
      BY <3>1, <3>2, <3>3
    <3>4. CASE held[t][GraphLock] = "X"
      <4>1. held[u][GraphLock] = "none"
        BY <2>2, <3>4, LockSets DEF GraphInv, LocksExclude
      <4> QED
        BY <3>1, <3>2, <4>1 DEF EntryOK
    <3> QED
      BY <3>3, <3>4 DEF Enters
  <2> QED
    BY <2>1, <2>2
<1>7. IndexOK'
  <2>1. ASSUME NEW e \in Elements, Unused(e)', handle'[e] # NoLevel
        PROVE  ChainFrom(nodes', e, 0, handle'[e])
    <3>1. CASE e = loc[t].e
      <4>1. loc'[t].e # e
        BY <2>1 DEF Unused
      <4>2. loc'[t].e = Nil
        BY <3>1, <4>1, GraphAssumption DEF Keeps
      <4> QED
        BY <2>1, <3>1, <4>2 DEF Keeps
    <3>2. CASE e # loc[t].e
      <4>1. /\ handle'[e] = handle[e]
            /\ \A k \in Levels : Exists(nodes[k], e) => Exists(nodes'[k], e)
        BY <3>2 DEF Keeps
      <4>2. Unused(e)
        BY <2>1, <3>2 DEF Unused, Moves
      <4>3. 0 .. handle[e] \subseteq Levels
        <5>1. handle[e] \in Levels \cup {NoLevel}
          BY DEF GraphInv, TypeOK
        <5> QED
          BY <5>1, GraphAssumption DEF Levels, NoLevel
      <4> QED
        BY <2>1, <4>1, <4>2, <4>3 DEF GraphInv, IndexOK, ChainFrom
    <3> QED
      BY <3>1, <3>2
  <2> QED
    BY <2>1 DEF IndexOK, Enters, Keeps
<1> QED
  BY <1>1, <1>2, <1>3, <1>4, <1>5, <1>6, <1>7 DEF GraphInv, CallsOK

-------------------------------------------------------------------------------
(* Locks and places.                                                       *)

LEMMA CallFacts ==
  ASSUME GraphInv, NEW t \in Threads
  PROVE  /\ pc[t] \in Pcs /\ loc[t] \in Locals /\ held[t] \in [Locks -> Modes]
         /\ LocalsOK(pc[t], loc[t], height)
         /\ HeldOK(pc[t], loc[t], held[t], height)
         /\ OwnsOK(pc[t], loc[t], nodes, handle)
         /\ FreshOK(pc[t], loc[t], handle)
         /\ EntryOK(pc[t], loc[t], held[t], entry, entryLevel)
  BY DEF GraphInv, CallsOK, TypeOK, Modes

LEMMA LevelFacts ==
  ASSUME GraphInv, NEW t \in Threads
  PROVE  /\ loc[t].level \in Levels /\ loc[t].top \in Levels
         /\ loc[t].elevel \in Levels /\ loc[t].rlevel \in Levels
         /\ height \in Levels /\ entryLevel \in Levels /\ entryLevel <= height
         /\ nodes \in [Levels -> LevelType] /\ At(t) \in LevelType
  BY DEF GraphInv, TypeOK, Locals, LevelType, At, IndexOK

LEMMA NoLocalsType == NoLocals \in Locals
  BY LockSets DEF NoLocals, Locals

\* The locks of t, and no others, change.
Holds(t) ==
  /\ held' \in [Threads -> [Locks -> Modes]]
  /\ \A u \in Threads \ {t} : held'[u] = held[u]

LEMMA HoldOnlyHolds ==
  ASSUME GraphInv, NEW t \in Threads, NEW k \in Levels, NEW m \in Modes,
         HoldOnly(t, k, m)
  PROVE  /\ Holds(t) /\ held'[t][GraphLock] = held[t][GraphLock]
         /\ \A j \in Levels : held'[t][j] = IF j = k THEN m ELSE "none"
<1> DEFINE H == [j \in Locks |-> IF j = k THEN m
                                ELSE IF j = GraphLock THEN held[t][j] ELSE "none"]
<1>1. H \in [Locks -> Modes]
  BY CallFacts DEF Modes
<1>2. held \in [Threads -> [Locks -> Modes]] /\ held' = [held EXCEPT ![t] = H]
  BY DEF GraphInv, TypeOK, Modes, HoldOnly
<1>3. H[GraphLock] = held[t][GraphLock]
      /\ \A j \in Levels : H[j] = IF j = k THEN m ELSE "none"
  BY LockSets
<1> HIDE DEF H
<1> QED
  BY <1>1, <1>2, <1>3 DEF Holds

LEMMA HoldAlsoHolds ==
  ASSUME GraphInv, NEW t \in Threads, NEW k \in Locks, NEW m \in Modes,
         HoldAlso(t, k, m)
  PROVE  /\ Holds(t) /\ held'[t][k] = m
         /\ \A j \in Locks \ {k} : held'[t][j] = held[t][j]
<1>1. held \in [Threads -> [Locks -> Modes]]
  BY DEF GraphInv, TypeOK, Modes
<1> QED
  BY <1>1 DEF HoldAlso, Holds

LEMMA DropLevelsHolds ==
  ASSUME GraphInv, NEW t \in Threads, DropLevels(t)
  PROVE  /\ Holds(t) /\ held'[t][GraphLock] = held[t][GraphLock]
         /\ \A j \in Levels : held'[t][j] = "none"
<1>1. held \in [Threads -> [Locks -> Modes]]
  BY DEF GraphInv, TypeOK, Modes
<1>2. NoLocks \in [Locks -> Modes]
  BY DEF NoLocks, Modes
<1> QED
  BY <1>1, <1>2, LockSets DEF DropLevels, Holds, NoLocks

LEMMA UnchangedHolds ==
  ASSUME GraphInv, NEW t \in Threads, UNCHANGED held
  PROVE  Holds(t) /\ held'[t] = held[t]
  BY DEF GraphInv, TypeOK, Modes, Holds

\* Where a step takes t.
LEMMA MovesTo ==
  ASSUME GraphInv, NEW t \in Threads, NEW p \in Pcs, NEW L \in Locals,
         Goto(t, p), Set(t, L), Holds(t),
         height' \in Levels, height' >= height,
         LocalsOK(p, L, height'), HeldOK(p, L, held'[t], height'),
         \A k \in Locks :
           \/ held'[t][k] \in {held[t][k], "none"}
           \/ CanLock(t, k)
           \/ held'[t][k] = "S" /\ CanShare(t, k)
  PROVE  Moves(t) /\ pc'[t] = p /\ loc'[t] = L
<1>1. pc \in [Threads -> Pcs] /\ loc \in [Threads -> Locals]
  BY DEF GraphInv, TypeOK
<1>2. /\ pc' \in [Threads -> Pcs] /\ pc'[t] = p
      /\ \A u \in Threads \ {t} : pc'[u] = pc[u]
  BY <1>1 DEF Goto
<1>3. /\ loc' \in [Threads -> Locals] /\ loc'[t] = L
      /\ \A u \in Threads \ {t} : loc'[u] = loc[u]
  BY <1>1 DEF Set
<1> QED
  BY <1>2, <1>3 DEF Moves, Holds

LEMMA ReturnMoves ==
  ASSUME GraphInv, NEW t \in Threads, Return(t), UNCHANGED height
  PROVE  /\ Moves(t) /\ pc'[t] = "idle" /\ loc'[t] = NoLocals
         /\ held'[t] = NoLocks
<1>1. held \in [Threads -> [Locks -> Modes]] /\ NoLocks \in [Locks -> Modes]
  BY DEF GraphInv, TypeOK, Modes, NoLocks
<1>2. Holds(t) /\ held'[t] = NoLocks
  BY <1>1 DEF Return, DropAll, Holds
<1>3. height' \in Levels /\ height' = height /\ height \in Int /\ height >= 0
  BY LevelFacts, LockSets
<1>4. LocalsOK("idle", NoLocals, height')
  BY <1>3 DEF LocalsOK, NoLocals, CreatedPcs, RemovePcs, InsertPcs, ShrinkPcs, KnnPcs
<1>5. HeldOK("idle", NoLocals, NoLocks, height')
  BY LockSets DEF HeldOK, NoLocks, NoLockPcs, RepairPcs
<1>6. \A k \in Locks : held'[t][k] = "none"
  BY <1>2 DEF NoLocks
<1>7. "idle" \in Pcs
  BY DEF Pcs
<1> QED
  BY <1>2, <1>3, <1>4, <1>5, <1>6, <1>7, MovesTo, NoLocalsType DEF Return

\* Nodes that are made, or written and kept, leave what a call owns.
Grows == \A k \in Levels, e \in Elements :
           Exists(nodes[k], e) => Exists(nodes'[k], e)

LEMMA OwnsGrows ==
  ASSUME GraphInv, NEW p, NEW L \in Locals, OwnsOK(p, L, nodes, handle), Grows,
         p \in CreatedPcs \cup RemovePcs \cup {"ins_create", "ins_keep", "mark_lock"}
           => L.e \in Elements
  PROVE  OwnsOK(p, L, nodes', handle)
<1>1. L.top \in Levels /\ L.level \in Levels /\ L.orph \subseteq Elements
  BY DEF Locals
<1>2. CASE p \notin CreatedPcs \cup RemovePcs \cup {"ins_create", "ins_keep", "mark_lock"}
  BY <1>2 DEF OwnsOK, RemovePcs, RepairPcs
<1>3. CASE p \in CreatedPcs \cup RemovePcs \cup {"ins_create", "ins_keep", "mark_lock"}
  <2>1. L.e \in Elements /\ handle[L.e] \in Levels \cup {NoLevel}
    BY <1>3 DEF GraphInv, TypeOK
  <2>2. /\ (L.level + 1) .. L.top \subseteq Levels
        /\ L.level .. L.top \subseteq Levels
        /\ 0 .. L.top \subseteq Levels
        /\ 0 .. handle[L.e] \subseteq Levels
    BY <1>1, <2>1, GraphAssumption DEF Levels, NoLevel
  <2>3. \A k \in Levels : Exists(nodes[k], L.e) => Exists(nodes'[k], L.e)
    BY <2>1 DEF Grows
  <2>4. (\A o \in L.orph : Exists(nodes[L.level], o))
          => \A o \in L.orph : Exists(nodes'[L.level], o)
    BY <1>1 DEF Grows
  <2> QED
    BY <2>2, <2>3, <2>4 DEF OwnsOK, ChainFrom
<1> QED
  BY <1>2, <1>3

\* A step within a call, or into it, frees nothing and leaves the entry point
\* and the handles alone.
LEMMA CallStep ==
  ASSUME GraphInv, NEW t \in Threads, NEW p \in Pcs, NEW L \in Locals,
         Goto(t, p), Set(t, L), Holds(t),
         height' \in Levels, height' >= height,
         LocalsOK(p, L, height'), HeldOK(p, L, held'[t], height'),
         \A k \in Locks :
           \/ held'[t][k] \in {held[t][k], "none"}
           \/ CanLock(t, k)
           \/ held'[t][k] = "S" /\ CanShare(t, k),
         nodes' \in [Levels -> LevelType], Grows,
         UNCHANGED <<entry, entryLevel, handle, strayed>>,
         OwnsOK(p, L, nodes', handle), FreshOK(p, L, handle),
         EntryOK(p, L, held'[t], entry, entryLevel),
         L.e = loc[t].e \/ (loc[t].e = Nil /\ Unused(L.e))
  PROVE  GraphInv'
<1>1. Moves(t) /\ pc'[t] = p /\ loc'[t] = L
  BY MovesTo
<1>2. height \in Int /\ height' \in Int /\ entryLevel \in Int
  BY LevelFacts, LockSets
<1>3. \A e \in Elements : handle[e] <= height /\ handle[e] \in Int
  BY LockSets DEF GraphInv, IndexOK, TypeOK, NoLevel
<1>4. handle \in [Elements -> Levels \cup {NoLevel}]
  BY DEF GraphInv, TypeOK
<1>5. loc[t].e \in Elements /\ L.e = Nil => FALSE
  BY GraphAssumption
<1>6. Keeps(t)
  BY <1>1, <1>2, <1>3, <1>4, <1>5 DEF Keeps, Grows
<1>7. /\ entry \in Elements \cup {Nil} /\ entryLevel \in Levels /\ entryLevel <= height
      /\ strayed \in BOOLEAN
  BY DEF GraphInv, TypeOK, IndexOK
<1>8. Enters(t)
  BY <1>1, <1>2, <1>7 DEF Enters
<1> QED
  BY <1>1, <1>6, <1>8, StepTogether

LEMMA SameNodes ==
  ASSUME GraphInv, UNCHANGED nodes
  PROVE  nodes' \in [Levels -> LevelType] /\ Grows
  BY DEF GraphInv, TypeOK, LevelType, Grows

LEMMA WriteLevelGrows ==
  ASSUME GraphInv, NEW t \in Threads, NEW q \in LevelType, WriteLevel(t, q),
         \A y \in Elements : Exists(At(t), y) => Exists(q, y)
  PROVE  nodes' \in [Levels -> LevelType] /\ Grows
<1>1. nodes \in [Levels -> LevelType] /\ loc[t].level \in Levels
  BY LevelFacts
<1>2. /\ nodes' \in [Levels -> LevelType]
      /\ \A k \in Levels : nodes'[k] = IF k = loc[t].level THEN q ELSE nodes[k]
  BY <1>1 DEF WriteLevel
<1> QED
  BY <1>2 DEF Grows, At

\* The locks of t as they were are no new ones.
LEMMA SameLocks ==
  ASSUME GraphInv, NEW t \in Threads, UNCHANGED held
  PROVE  /\ Holds(t) /\ held'[t] = held[t]
         /\ \A k \in Locks : held'[t][k] \in {held[t][k], "none"}
  BY UnchangedHolds

-------------------------------------------------------------------------------
(* insert.                                                                 *)

LEMMA InsertLevelsType == InsertLevels \subseteq Levels
<1> SUFFICES ASSUME NEW d \in 0 .. MaxLevel + 1
             PROVE  Min({d, MaxLevel}) \in Levels
  BY DEF InsertLevels
<1> QED
  BY MinOfTwo, GraphAssumption DEF Levels

LEMMA InsertCallInv ==
  ASSUME GraphInv, NEW t \in Threads, NEW e \in Elements, NEW top \in Levels,
         InsertCall(t, e, top)
  PROVE  GraphInv'
<1> DEFINE elevel == IF entry = Nil THEN 0 ELSE entryLevel
           up     == entry = Nil \/ top > elevel
           L      == [NoLocals EXCEPT !.e = e, !.top = top, !.elevel = elevel,
                                      !.level = Max({elevel, top}),
                                      !.cand = {entry} \ {Nil}]
           p      == IF up THEN "ins_upgrade" ELSE "ins_lock"
<1>1. /\ pc[t] = "idle" /\ Unused(e) /\ CanShare(t, GraphLock)
      /\ Set(t, L) /\ Goto(t, p)
      /\ IF up THEN UNCHANGED held ELSE HoldAlso(t, GraphLock, "S")
      /\ UNCHANGED <<nodes, entry, entryLevel, height, handle, strayed>>
  BY DEF InsertCall
<1>2. /\ entryLevel \in Levels /\ height \in Levels /\ entryLevel <= height
      /\ entry \in Elements \cup {Nil}
  BY LevelFacts DEF GraphInv, TypeOK
<1>3. elevel \in Levels /\ elevel <= height /\ elevel \in Int /\ top \in Int
      /\ height \in Int /\ height >= 0
  BY <1>2, LockSets
<1>4. Max({elevel, top}) = IF elevel >= top THEN elevel ELSE top
  BY <1>3, MaxOfTwo
<1>5. /\ L \in Locals /\ L.e = e /\ L.top = top /\ L.elevel = elevel
      /\ L.level = Max({elevel, top}) /\ L.rlevel = 0 /\ ~L.newEp
  <2>1. Max({elevel, top}) \in Levels /\ {entry} \ {Nil} \in SUBSET Elements
    BY <1>2, <1>3, <1>4
  <2> DEFINE m == Max({elevel, top})
             C == {entry} \ {Nil}
  <2>2. m \in Levels /\ C \in SUBSET Elements /\ elevel \in Levels
    BY <1>3, <2>1
  <2>3. L = [NoLocals EXCEPT !.e = e, !.top = top, !.elevel = elevel,
                             !.level = m, !.cand = C]
    OBVIOUS
  <2> HIDE DEF m, C, elevel, L
  <2>4. /\ L \in Locals /\ L.e = e /\ L.top = top /\ L.elevel = elevel
        /\ L.level = m /\ L.rlevel = 0 /\ ~L.newEp
    BY <2>2, <2>3, LockSets DEF NoLocals, Locals
  <2> QED
    BY <2>4 DEF m
<1>6. loc[t].e = Nil /\ p \in Pcs
  BY <1>1, CallFacts DEF LocalsOK, Pcs, InsertPcs
<1> HIDE DEF L
<1>7. LocalsOK(p, L, height')
  BY <1>1, <1>3, <1>4, <1>5 DEF LocalsOK, CreatedPcs, RemovePcs, InsertPcs, ShrinkPcs, KnnPcs
<1>8. \A k \in Levels : held[t][k] = "none"
  BY <1>1, CallFacts DEF HeldOK, NoLockPcs
<1>9. /\ Holds(t) /\ HeldOK(p, L, held'[t], height')
      /\ \A k \in Locks : \/ held'[t][k] \in {held[t][k], "none"}
                          \/ held'[t][k] = "S" /\ CanShare(t, k)
  <2>1. CASE up
    <3>1. held[t][GraphLock] = "none"
      BY <1>1, CallFacts DEF HeldOK, NoLockPcs
    <3> QED
      BY <1>1, <1>8, <2>1, <3>1, SameLocks DEF HeldOK, NoLockPcs, RepairPcs
  <2>2. CASE ~up
    <3>1. /\ Holds(t) /\ held'[t][GraphLock] = "S"
          /\ \A j \in Locks \ {GraphLock} : held'[t][j] = held[t][j]
      BY <1>1, <2>2, HoldAlsoHolds, LockSets DEF Modes
    <3> QED
      BY <1>1, <1>8, <2>2, <3>1, LockSets DEF HeldOK, NoLockPcs, RepairPcs
  <2> QED
    BY <2>1, <2>2
<1>10. OwnsOK(p, L, nodes', handle) /\ FreshOK(p, L, handle)
  <2>1. OwnsOK(p, L, nodes', handle)
    BY DEF OwnsOK, CreatedPcs, RemovePcs, RepairPcs
  <2>2. ~Exists(nodes[0], e) /\ Unused(e)
    BY LockSets DEF InsertCall
  <2>3. handle[e] = NoLevel
    <3>1. SUFFICES ASSUME handle[e] # NoLevel PROVE FALSE
      OBVIOUS
    <3>2. handle[e] \in Levels /\ ChainFrom(nodes, e, 0, handle[e])
      BY <2>2, <3>1 DEF GraphInv, TypeOK, IndexOK
    <3>3. 0 \in 0 .. handle[e]
      BY <3>2, LockSets
    <3> QED
      BY <2>2, <3>2, <3>3 DEF ChainFrom
  <2> QED
    BY <1>5, <2>1, <2>3 DEF FreshOK
<1>11. EntryOK(p, L, held'[t], entry, entryLevel)
  BY <1>5 DEF EntryOK
<1>12. height' \in Levels /\ height' >= height
  BY <1>1, <1>2, <1>3
<1>13. nodes' \in [Levels -> LevelType] /\ Grows
  BY <1>1, SameNodes
<1> HIDE DEF p
<1> QED
  BY <1>1, <1>5, <1>6, <1>7, <1>9, <1>10, <1>11, <1>12, <1>13, CallStep

LEMMA InsertUpgradeInv ==
  ASSUME GraphInv, NEW t \in Threads, InsertUpgrade(t)
  PROVE  GraphInv'
<1> DEFINE elevel == IF entry = Nil THEN loc[t].elevel ELSE entryLevel
           level  == Max({elevel, loc[t].top})
           C      == {entry} \ {Nil}
           nw     == entry = Nil \/ loc[t].top > elevel
           L      == [loc[t] EXCEPT !.elevel = elevel, !.level = level,
                                    !.cand = C, !.newEp = nw]
<1>1. /\ pc[t] = "ins_upgrade" /\ CanLock(t, GraphLock)
      /\ Set(t, L) /\ Goto(t, "ins_lock") /\ HoldAlso(t, GraphLock, "X")
      /\ height' = Max({height, level})
      /\ UNCHANGED <<nodes, entry, entryLevel, handle, strayed>>
  BY DEF InsertUpgrade, EnsureLevels
<1>2. /\ entryLevel \in Levels /\ height \in Levels /\ entryLevel <= height
      /\ loc[t].top \in Levels /\ loc[t].elevel \in Levels
      /\ entry \in Elements \cup {Nil}
  BY LevelFacts DEF GraphInv, TypeOK
<1>3. LocalsOK("ins_upgrade", loc[t], height) /\ loc[t] \in Locals
  BY <1>1, CallFacts
<1>4. /\ elevel \in Levels /\ elevel <= height /\ elevel \in Int
      /\ height \in Int /\ height >= 0 /\ loc[t].top \in Int
      /\ C \in SUBSET Elements /\ nw \in BOOLEAN
  BY <1>2, <1>3, LockSets DEF LocalsOK
<1>5. level = (IF elevel >= loc[t].top THEN elevel ELSE loc[t].top)
      /\ level \in Levels
  BY <1>2, <1>4, MaxOfTwo
<1>6. level \in Int
  BY <1>5, LockSets
<1>7. /\ L \in Locals /\ L.e = loc[t].e /\ L.top = loc[t].top
      /\ L.elevel = elevel /\ L.level = level /\ L.rlevel = loc[t].rlevel
      /\ L.newEp = nw
  <2> HIDE DEF elevel, level, C, nw
  <2> QED
    BY <1>3, <1>4, <1>5 DEF Locals
<1> HIDE DEF L, level
<1>8. height' = (IF height >= level THEN height ELSE level)
      /\ height' \in Levels
  BY <1>1, <1>2, <1>4, <1>5, <1>6, MaxOfTwo
<1>9. height' >= height /\ height' >= level /\ height' \in Int
  BY <1>4, <1>6, <1>8
<1>10. LocalsOK("ins_lock", L, height')
  <2>1. loc[t].rlevel <= height /\ loc[t].e \in Elements /\ loc[t].rlevel \in Int
    BY <1>3, LevelFacts, LockSets DEF LocalsOK, InsertPcs
  <2> QED
    BY <1>4, <1>5, <1>6, <1>7, <1>9, <2>1
    DEF LocalsOK, CreatedPcs, RemovePcs, InsertPcs, ShrinkPcs, KnnPcs
<1>11. /\ Holds(t) /\ held'[t][GraphLock] = "X"
       /\ \A j \in Locks \ {GraphLock} : held'[t][j] = held[t][j]
  BY <1>1, HoldAlsoHolds, LockSets DEF Modes
<1>12. \A k \in Levels : held[t][k] = "none"
  BY <1>1, CallFacts DEF HeldOK, NoLockPcs
<1>13. HeldOK("ins_lock", L, held'[t], height')
  BY <1>11, <1>12, LockSets DEF HeldOK, NoLockPcs, RepairPcs
<1>14. OwnsOK("ins_lock", L, nodes', handle) /\ FreshOK("ins_lock", L, handle)
  BY <1>1, <1>7, CallFacts DEF OwnsOK, FreshOK, InsertPcs, CreatedPcs, RemovePcs, RepairPcs
<1>15. EntryOK("ins_lock", L, held'[t], entry, entryLevel)
  BY <1>7, <1>11 DEF EntryOK, RemovePcs
<1>16. nodes' \in [Levels -> LevelType] /\ Grows
  BY <1>1, SameNodes
<1>17. "ins_lock" \in Pcs
  BY DEF Pcs, InsertPcs
<1>18. \A k \in Locks : held'[t][k] \in {held[t][k], "none"} \/ CanLock(t, k)
  BY <1>1, <1>11
<1> QED
  BY <1>1, <1>7, <1>8, <1>9, <1>10, <1>11, <1>13, <1>14, <1>15, <1>16, <1>17,
     <1>18, CallStep

\* A step of t in a call that has its locks and goes on to p with the locals L.
\* The lock it takes, if any, is a shared one.
LEMMA OwnStep ==
  ASSUME GraphInv, NEW t \in Threads, NEW p \in Pcs, NEW L \in Locals,
         Goto(t, p), Set(t, L), Holds(t),
         pc[t] \in InsertPcs \ NoLockPcs \/ pc[t] \in RemovePcs \ NoLockPcs
           \/ pc[t] \in KnnPcs \/ pc[t] = "mark_lock",
         p \in InsertPcs => pc[t] \in InsertPcs,
         p \in RemovePcs => pc[t] \in RemovePcs,
         L.e = loc[t].e, L.top = loc[t].top, L.newEp = loc[t].newEp,
         LocalsOK(p, L, height), HeldOK(p, L, held'[t], height),
         held'[t][GraphLock] = held[t][GraphLock],
         \A k \in Levels :
           \/ held'[t][k] \in {held[t][k], "none"}
           \/ CanLock(t, k)
           \/ held'[t][k] = "S" /\ CanShare(t, k),
         nodes' \in [Levels -> LevelType], Grows,
         UNCHANGED <<entry, entryLevel, height, handle, strayed>>,
         OwnsOK(p, L, nodes', handle)
  PROVE  GraphInv'
<1>1. height' \in Levels /\ height' >= height /\ height' = height
  BY LevelFacts, LockSets
<1>2. EntryOK(pc[t], loc[t], held[t], entry, entryLevel) /\ FreshOK(pc[t], loc[t], handle)
  BY CallFacts
<1>3. EntryOK(p, L, held'[t], entry, entryLevel) /\ FreshOK(p, L, handle)
  BY <1>2 DEF EntryOK, FreshOK
<1>4. \A k \in Locks : \/ held'[t][k] \in {held[t][k], "none"}
                       \/ CanLock(t, k)
                       \/ held'[t][k] = "S" /\ CanShare(t, k)
  BY LockSets
<1> QED
  BY <1>1, <1>3, <1>4, CallStep

LEMMA InsertLockInv ==
  ASSUME GraphInv, NEW t \in Threads, InsertLock(t)
  PROVE  GraphInv'
<1> DEFINE l == loc[t].level
           p == IF l > loc[t].top THEN "ins_search" ELSE "ins_create"
<1>1. /\ pc[t] = "ins_lock" /\ CanShare(t, l) /\ HoldOnly(t, l, "S") /\ Goto(t, p)
      /\ UNCHANGED <<nodes, entry, entryLevel, height, loc, handle, strayed>>
  BY DEF InsertLock
<1>2. l \in Levels /\ loc[t].top \in Levels /\ loc[t].elevel \in Levels
  BY LevelFacts
<1>3. /\ LocalsOK("ins_lock", loc[t], height) /\ loc[t] \in Locals
      /\ HeldOK("ins_lock", loc[t], held[t], height)
  BY <1>1, CallFacts
<1>4. /\ Holds(t) /\ held'[t][GraphLock] = held[t][GraphLock]
      /\ \A j \in Levels : held'[t][j] = IF j = l THEN "S" ELSE "none"
  BY <1>1, <1>2, HoldOnlyHolds DEF Modes
<1>5. LocalsOK(p, loc[t], height)
  BY <1>2, <1>3, LockSets
  DEF LocalsOK, CreatedPcs, RemovePcs, InsertPcs, ShrinkPcs, KnnPcs
<1>6. HeldOK(p, loc[t], held'[t], height)
  BY <1>2, <1>3, <1>4, LockSets DEF HeldOK, LocalsOK, NoLockPcs, AbovePcs, RepairPcs
<1>7. OwnsOK(p, loc[t], nodes', handle)
  <2>1. CASE l > loc[t].top
    BY <2>1 DEF OwnsOK, CreatedPcs, RemovePcs, RepairPcs
  <2>2. CASE ~(l > loc[t].top)
    <3>1. l = loc[t].top
      BY <1>2, <1>3, <2>2, LockSets DEF LocalsOK
    <3> QED
      BY <1>2, <3>1, LockSets DEF OwnsOK, CreatedPcs, RemovePcs, RepairPcs, ChainFrom
  <2> QED
    BY <2>1, <2>2
<1>8. Set(t, loc[t])
  BY <1>1 DEF Set, GraphInv, TypeOK
<1>9. p \in Pcs /\ p \notin RemovePcs
  BY DEF Pcs, InsertPcs, RemovePcs
<1>10. nodes' \in [Levels -> LevelType] /\ Grows
  BY <1>1, SameNodes
<1>11. pc[t] \in InsertPcs \ NoLockPcs
  BY <1>1 DEF InsertPcs, NoLockPcs
<1> HIDE DEF p
<1> QED
  BY <1>1, <1>3, <1>4, <1>5, <1>6, <1>7, <1>8, <1>9, <1>10, <1>11, OwnStep

LEMMA SearchResultsLive ==
  ASSUME GraphInv, NEW t \in Threads, NEW seeds \in SUBSET Elements, NEW avoid,
         NEW ef, NEW W \in SearchResults(t, seeds, avoid, ef)
  PROVE  /\ W \in SUBSET Elements
         /\ W \subseteq Reachable(At(t), seeds, avoid)
         /\ \A x \in W : Exists(At(t), x)
<1>1. \A x \in Reachable(At(t), seeds, avoid) : Exists(At(t), x)
  BY DEF SearchResults
<1>2. W \in Found(At(t), seeds, avoid, ef)
  BY <1>1 DEF SearchResults
<1>3. W \subseteq Reachable(At(t), seeds, avoid)
  BY <1>2, FoundWithin
<1>4. Reachable(At(t), seeds, avoid) \subseteq Elements
  BY ReachableType, LevelFacts
<1> QED
  BY <1>1, <1>3, <1>4

LEMMA CandType ==
  ASSUME GraphInv, NEW t \in Threads
  PROVE  /\ loc[t].cand \in SUBSET Elements /\ loc[t].pend \in SUBSET Elements
         /\ loc[t].over \in SUBSET Elements /\ loc[t].shrunk \in SUBSET Elements
         /\ loc[t].unl \in SUBSET Elements /\ loc[t].orph \in SUBSET Elements
         /\ loc[t].repl \in Elements \cup {Nil}
  BY DEF GraphInv, TypeOK, Locals

\* Other candidates are all that changes.
LEMMA NewCand ==
  ASSUME GraphInv, NEW t \in Threads, NEW W \in SUBSET Elements
  PROVE  LET L == [loc[t] EXCEPT !.cand = W]
         IN  /\ L \in Locals /\ L.e = loc[t].e /\ L.top = loc[t].top
             /\ L.level = loc[t].level /\ L.elevel = loc[t].elevel
             /\ L.newEp = loc[t].newEp /\ L.rlevel = loc[t].rlevel
             /\ L.link = loc[t].link /\ L.shrink = loc[t].shrink
             /\ L.orph = loc[t].orph
<1>1. loc[t] \in Locals
  BY CallFacts
<1> QED
  BY <1>1 DEF Locals

LEMMA InsertSearchInv ==
  ASSUME GraphInv, NEW t \in Threads, InsertSearch(t)
  PROVE  GraphInv'
<1>1. PICK W \in SearchResults(t, loc[t].cand, {}, GREEDY_DESCENT_EF) :
        Set(t, [loc[t] EXCEPT !.cand = W])
  BY DEF InsertSearch, Narrow
<1>2. /\ pc[t] = "ins_search" /\ Goto(t, "ins_descend")
      /\ UNCHANGED <<nodes, entry, entryLevel, height, held, handle, strayed>>
  BY DEF InsertSearch
<1>3. W \in SUBSET Elements
  BY <1>1, CandType, SearchResultsLive
<1> DEFINE L == [loc[t] EXCEPT !.cand = W]
<1>4. /\ L \in Locals /\ L.e = loc[t].e /\ L.top = loc[t].top
      /\ L.level = loc[t].level /\ L.elevel = loc[t].elevel
      /\ L.newEp = loc[t].newEp /\ L.rlevel = loc[t].rlevel
  BY <1>3, NewCand
<1> HIDE DEF L
<1>5. /\ LocalsOK("ins_search", loc[t], height)
      /\ HeldOK("ins_search", loc[t], held[t], height)
  BY <1>2, CallFacts
<1>6. LocalsOK("ins_descend", L, height)
  BY <1>4, <1>5 DEF LocalsOK, CreatedPcs, RemovePcs, InsertPcs, ShrinkPcs, KnnPcs
<1>7. HeldOK("ins_descend", L, held'[t], height)
  BY <1>2, <1>4, <1>5 DEF HeldOK, NoLockPcs, AbovePcs, FromPcs, RepairPcs
<1>8. OwnsOK("ins_descend", L, nodes', handle)
  BY DEF OwnsOK, CreatedPcs, RemovePcs, RepairPcs
<1>9. "ins_descend" \in Pcs /\ "ins_descend" \in InsertPcs
      /\ "ins_descend" \notin RemovePcs /\ pc[t] \in InsertPcs \ NoLockPcs
  BY <1>2 DEF Pcs, InsertPcs, RemovePcs, NoLockPcs
<1>10. nodes' \in [Levels -> LevelType] /\ Grows
  BY <1>2, SameNodes
<1>11. /\ Holds(t) /\ held'[t] = held[t]
       /\ \A k \in Levels : held'[t][k] \in {held[t][k], "none"}
  BY <1>2, SameLocks, LockSets
<1>12. Set(t, L)
  BY <1>1 DEF L
<1> QED
  BY <1>2, <1>4, <1>6, <1>7, <1>8, <1>9, <1>10, <1>11, <1>12, OwnStep

\* Another level is all that changes.
LEMMA NewLevel ==
  ASSUME GraphInv, NEW t \in Threads, NEW l \in Levels
  PROVE  LET L == [loc[t] EXCEPT !.level = l]
         IN  /\ L \in Locals /\ L.e = loc[t].e /\ L.top = loc[t].top
             /\ L.level = l /\ L.elevel = loc[t].elevel
             /\ L.newEp = loc[t].newEp /\ L.rlevel = loc[t].rlevel
             /\ L.link = loc[t].link /\ L.shrink = loc[t].shrink
             /\ L.orph = loc[t].orph
<1>1. loc[t] \in Locals
  BY CallFacts
<1> QED
  BY <1>1 DEF Locals

LEMMA InsertDescendInv ==
  ASSUME GraphInv, NEW t \in Threads, InsertDescend(t)
  PROVE  GraphInv'
<1> DEFINE l == loc[t].level - 1
           p == IF l > loc[t].top THEN "ins_search" ELSE "ins_create"
           L == [loc[t] EXCEPT !.level = l]
<1>1. /\ pc[t] = "ins_descend" /\ CanShare(t, l) /\ HoldOnly(t, l, "S") /\ Goto(t, p)
      /\ Set(t, L) /\ UNCHANGED <<nodes, entry, entryLevel, height, handle, strayed>>
  BY DEF InsertDescend
<1>2. /\ LocalsOK("ins_descend", loc[t], height)
      /\ HeldOK("ins_descend", loc[t], held[t], height)
  BY <1>1, CallFacts
<1>3. l \in Levels /\ l \in Int /\ loc[t].top \in Levels /\ loc[t].top \in Int
      /\ l >= loc[t].top /\ l < loc[t].level /\ loc[t].level \in Int /\ height \in Int
  BY <1>2, LevelFacts, GraphAssumption DEF LocalsOK, Levels
<1>4. /\ L \in Locals /\ L.e = loc[t].e /\ L.top = loc[t].top
      /\ L.level = l /\ L.elevel = loc[t].elevel
      /\ L.newEp = loc[t].newEp /\ L.rlevel = loc[t].rlevel
  BY <1>3, NewLevel
<1> HIDE DEF L
<1>5. /\ Holds(t) /\ held'[t][GraphLock] = held[t][GraphLock]
      /\ \A j \in Levels : held'[t][j] = IF j = l THEN "S" ELSE "none"
  BY <1>1, <1>3, HoldOnlyHolds DEF Modes
<1>6. LocalsOK(p, L, height)
  BY <1>2, <1>3, <1>4
  DEF LocalsOK, CreatedPcs, RemovePcs, InsertPcs, ShrinkPcs, KnnPcs
<1>7. HeldOK(p, L, held'[t], height)
  BY <1>2, <1>3, <1>4, <1>5, LockSets
  DEF HeldOK, LocalsOK, NoLockPcs, AbovePcs, FromPcs, RepairPcs
<1>8. OwnsOK(p, L, nodes', handle)
  BY <1>3, <1>4 DEF OwnsOK, CreatedPcs, RemovePcs, RepairPcs, ChainFrom
<1>9. p \in Pcs /\ p \notin RemovePcs /\ pc[t] \in InsertPcs \ NoLockPcs
  BY <1>1 DEF Pcs, InsertPcs, RemovePcs, NoLockPcs
<1>10. nodes' \in [Levels -> LevelType] /\ Grows
  BY <1>1, SameNodes
<1> HIDE DEF p
<1> QED
  BY <1>1, <1>4, <1>5, <1>6, <1>7, <1>8, <1>9, <1>10, OwnStep

LEMMA InsertKeepInv ==
  ASSUME GraphInv, NEW t \in Threads, InsertKeep(t)
  PROVE  GraphInv'
<1> DEFINE l == loc[t].level - 1
           L == [loc[t] EXCEPT !.level = l]
<1>1. /\ pc[t] = "ins_keep" /\ CanShare(t, l) /\ HoldAlso(t, l, "S")
      /\ Goto(t, "ins_create") /\ Set(t, L)
      /\ UNCHANGED <<nodes, entry, entryLevel, height, handle, strayed>>
  BY DEF InsertKeep
<1>2. /\ LocalsOK("ins_keep", loc[t], height)
      /\ HeldOK("ins_keep", loc[t], held[t], height)
      /\ OwnsOK("ins_keep", loc[t], nodes, handle)
  BY <1>1, CallFacts
<1>3. l \in Levels /\ l \in Int /\ loc[t].top \in Int /\ l < loc[t].level
      /\ l + 1 = loc[t].level /\ loc[t].level \in Int /\ height \in Int
      /\ loc[t].level <= loc[t].top
  BY <1>2, LevelFacts, GraphAssumption DEF LocalsOK, Levels
<1>4. /\ L \in Locals /\ L.e = loc[t].e /\ L.top = loc[t].top
      /\ L.level = l /\ L.elevel = loc[t].elevel
      /\ L.newEp = loc[t].newEp /\ L.rlevel = loc[t].rlevel
  BY <1>3, NewLevel
<1> HIDE DEF L
<1>5. /\ Holds(t) /\ held'[t][l] = "S"
      /\ \A j \in Locks \ {l} : held'[t][j] = held[t][j]
  BY <1>1, <1>3, HoldAlsoHolds, LockSets DEF Modes
<1>6. held'[t][GraphLock] = held[t][GraphLock]
      /\ \A j \in Levels : held'[t][j] = IF j = l THEN "S" ELSE held[t][j]
  BY <1>3, <1>5, LockSets
<1>7. LocalsOK("ins_create", L, height)
  BY <1>2, <1>3, <1>4
  DEF LocalsOK, CreatedPcs, RemovePcs, InsertPcs, ShrinkPcs, KnnPcs
<1>8. HeldOK("ins_create", L, held'[t], height)
  BY <1>2, <1>3, <1>4, <1>6, LockSets
  DEF HeldOK, LocalsOK, NoLockPcs, AbovePcs, FromPcs, RepairPcs
<1>9. OwnsOK("ins_create", L, nodes', handle)
  BY <1>1, <1>2, <1>3, <1>4 DEF OwnsOK, CreatedPcs, RemovePcs, RepairPcs, ChainFrom
<1>10. "ins_create" \in Pcs /\ "ins_create" \notin RemovePcs
       /\ pc[t] \in InsertPcs \ NoLockPcs
  BY <1>1 DEF Pcs, InsertPcs, RemovePcs, NoLockPcs
<1>11. nodes' \in [Levels -> LevelType] /\ Grows
  BY <1>1, SameNodes
<1> QED
  BY <1>1, <1>4, <1>5, <1>6, <1>7, <1>8, <1>9, <1>10, <1>11, OwnStep

LEMMA InsertCreateInv ==
  ASSUME GraphInv, NEW t \in Threads, InsertCreate(t)
  PROVE  GraphInv'
<1> DEFINE l   == loc[t].level
           e   == loc[t].e
           new == l > loc[t].elevel
           p   == IF l = 0 THEN "ins_link" ELSE "ins_keep"
           C(W) == IF new THEN loc[t].cand ELSE W
           L(W) == [loc[t] EXCEPT !.cand = C(W)]
<1>1. /\ pc[t] = "ins_create" /\ Goto(t, p)
      /\ UNCHANGED <<entry, entryLevel, height, held, handle, strayed>>
  BY DEF InsertCreate
<1>2. PICK W \in IF new THEN {{}}
                 ELSE SearchResults(t, loc[t].cand, {}, EfConstruction) :
      \E neighbours \in Selections(W, M) :
        /\ nodes' = [k \in Levels |->
             IF k = l THEN [nodes[k] EXCEPT ![e] = NewNode(neighbours)]
             ELSE IF k = l + 1 /\ l < loc[t].top
                  THEN [nodes[k] EXCEPT ![e].lower = TRUE]
             ELSE nodes[k]]
        /\ Set(t, [loc[t] EXCEPT !.cand = IF new THEN @ ELSE W])
  BY DEF InsertCreate
<1>3. PICK neighbours \in Selections(W, M) :
        /\ nodes' = [k \in Levels |->
             IF k = l THEN [nodes[k] EXCEPT ![e] = NewNode(neighbours)]
             ELSE IF k = l + 1 /\ l < loc[t].top
                  THEN [nodes[k] EXCEPT ![e].lower = TRUE]
             ELSE nodes[k]]
        /\ Set(t, L(W))
  BY <1>2
<1>4. W \in SUBSET Elements
  <2>1. CASE new
    BY <1>2, <2>1
  <2>2. CASE ~new
    <3>1. W \in SearchResults(t, loc[t].cand, {}, EfConstruction)
      BY <1>2, <2>2
    <3> QED
      BY <3>1, CandType, SearchResultsLive
  <2> QED
    BY <2>1, <2>2
<1>5. C(W) \in SUBSET Elements
  BY <1>4, CandType
<1>6. /\ L(W) \in Locals /\ L(W).e = e /\ L(W).top = loc[t].top
      /\ L(W).level = l /\ L(W).elevel = loc[t].elevel
      /\ L(W).newEp = loc[t].newEp /\ L(W).rlevel = loc[t].rlevel
  BY <1>5, NewCand
<1> DEFINE K == L(W)
<1>7. /\ K \in Locals /\ K.e = e /\ K.top = loc[t].top
      /\ K.level = l /\ K.elevel = loc[t].elevel
      /\ K.newEp = loc[t].newEp /\ K.rlevel = loc[t].rlevel /\ Set(t, K)
  BY <1>3, <1>6
<1> HIDE DEF L, C, K
<1>8. /\ LocalsOK("ins_create", loc[t], height)
      /\ HeldOK("ins_create", loc[t], held[t], height)
      /\ OwnsOK("ins_create", loc[t], nodes, handle)
  BY <1>1, CallFacts
<1>9. l \in Levels /\ l \in Int /\ l >= 0 /\ loc[t].top \in Int /\ l <= loc[t].top
      /\ e \in Elements /\ height \in Int /\ loc[t].top \in Levels
  BY <1>8, LevelFacts, LockSets DEF LocalsOK, InsertPcs
<1>10. neighbours \in SUBSET Elements /\ NewNode(neighbours) \in NodeRec
  BY <1>4, <1>3, SelectionsWithin, NewNodeType
<1>11. ASSUME NEW k \in Levels
       PROVE  /\ nodes'[k] \in LevelType
              /\ \A x \in Elements : Exists(nodes[k], x) => Exists(nodes'[k], x)
              /\ k = l => Exists(nodes'[k], e)
  <2>1. nodes[k] \in LevelType
    BY LevelFacts
  <2>2. CASE k = l
    <3>1. nodes'[k] = [nodes[k] EXCEPT ![e] = NewNode(neighbours)]
      BY <1>3, <2>2
    <3>2. NewNode(neighbours) # FreeNode
      BY <1>10, NodeAssumption
    <3> QED
      BY <1>9, <1>10, <2>1, <3>1, <3>2 DEF LevelType, Exists
  <2>3. CASE k = l + 1 /\ l < loc[t].top
    <3>1. nodes'[k] = [nodes[k] EXCEPT ![e].lower = TRUE] /\ k # l
      BY <1>3, <1>9, <2>3
    <3>2. Exists(nodes[k], e)
      BY <1>8, <1>9, <2>3 DEF OwnsOK, ChainFrom
    <3>3. nodes[k][e] \in NodeRec
      BY <1>9, <2>1, <3>2, NodeOfLevel
    <3> DEFINE rec == [nodes[k][e] EXCEPT !.lower = TRUE]
    <3>4. rec \in NodeRec
      BY <3>3 DEF NodeRec
    <3>5. nodes'[k] = [nodes[k] EXCEPT ![e] = rec]
      BY <3>1
    <3> HIDE DEF rec
    <3>6. rec # FreeNode
      BY <3>4, NodeAssumption
    <3> QED
      BY <1>9, <2>1, <3>1, <3>4, <3>5, <3>6 DEF LevelType, Exists
  <2>4. CASE k # l /\ ~(k = l + 1 /\ l < loc[t].top)
    BY <1>3, <2>1, <2>4
  <2> QED
    BY <2>2, <2>3, <2>4
<1>12. nodes' \in [Levels -> LevelType]
  <2>1. nodes' = [k \in Levels |-> nodes'[k]]
    BY <1>3
  <2> QED
    BY <1>11, <2>1
<1>13. Grows
  BY <1>11 DEF Grows
<1>14. LocalsOK(p, K, height)
  BY <1>7, <1>8, <1>9 DEF LocalsOK, CreatedPcs, RemovePcs, InsertPcs, ShrinkPcs, KnnPcs
<1>15. HeldOK(p, K, held'[t], height)
  BY <1>1, <1>7, <1>8 DEF HeldOK, NoLockPcs, AbovePcs, FromPcs, RepairPcs
<1>16. OwnsOK(p, K, nodes', handle)
  <2>1. ASSUME NEW k \in l .. loc[t].top
        PROVE  Exists(nodes'[k], e)
    <3>1. k \in Levels
      BY <1>9, GraphAssumption DEF Levels
    <3>2. CASE k = l
      BY <1>11, <3>1, <3>2
    <3>3. CASE k # l
      BY <1>8, <1>9, <1>11, <3>1, <3>3 DEF OwnsOK, ChainFrom
    <3> QED
      BY <3>2, <3>3
  <2> QED
    BY <1>7, <2>1 DEF OwnsOK, CreatedPcs, RemovePcs, RepairPcs, ChainFrom
<1>17. p \in Pcs /\ p \notin RemovePcs /\ pc[t] \in InsertPcs \ NoLockPcs
  BY <1>1 DEF Pcs, InsertPcs, RemovePcs, NoLockPcs
<1>18. /\ Holds(t) /\ held'[t] = held[t]
       /\ \A k \in Levels : held'[t][k] \in {held[t][k], "none"}
  BY <1>1, SameLocks, LockSets
<1> HIDE DEF p
<1> QED
  BY <1>1, <1>7, <1>12, <1>13, <1>14, <1>15, <1>16, <1>17, <1>18, OwnStep

LEMMA InsertLinkInv ==
  ASSUME GraphInv, NEW t \in Threads, InsertLink(t)
  PROVE  GraphInv'
<1> DEFINE P == At(t)[loc[t].e].inc
           L == [loc[t] EXCEPT !.link = loc[t].e, !.cand = {}, !.pend = P]
<1>1. /\ pc[t] = "ins_link" /\ Set(t, L) /\ Goto(t, "ins_linking")
      /\ UNCHANGED <<nodes, entry, entryLevel, height, held, handle, strayed>>
  BY DEF InsertLink
<1>2. /\ LocalsOK("ins_link", loc[t], height)
      /\ HeldOK("ins_link", loc[t], held[t], height)
      /\ OwnsOK("ins_link", loc[t], nodes, handle)
      /\ loc[t] \in Locals
  BY <1>1, CallFacts
<1>3. /\ loc[t].e \in Elements /\ loc[t].level \in Levels /\ At(t) \in LevelType
      /\ loc[t].level \in 0 .. loc[t].top
  BY <1>2, LevelFacts, LockSets DEF LocalsOK, InsertPcs, CreatedPcs
<1>4. Exists(At(t), loc[t].e)
  BY <1>2, <1>3 DEF OwnsOK, CreatedPcs, ChainFrom, At
<1>5. P \in SUBSET Elements
  BY <1>3, <1>4, NodeOfLevel DEF NodeRec
<1>6. /\ L \in Locals /\ L.e = loc[t].e /\ L.top = loc[t].top
      /\ L.level = loc[t].level /\ L.elevel = loc[t].elevel
      /\ L.newEp = loc[t].newEp /\ L.rlevel = loc[t].rlevel
      /\ L.link = loc[t].e
  <2> HIDE DEF P
  <2> QED
    BY <1>2, <1>3, <1>5 DEF Locals
<1> HIDE DEF L
<1>7. LocalsOK("ins_linking", L, height)
  BY <1>2, <1>3, <1>6 DEF LocalsOK, CreatedPcs, RemovePcs, InsertPcs, ShrinkPcs, KnnPcs
<1>8. HeldOK("ins_linking", L, held'[t], height)
  BY <1>1, <1>2, <1>6 DEF HeldOK, NoLockPcs, AbovePcs, FromPcs, RepairPcs
<1>9. OwnsOK("ins_linking", L, nodes', handle)
  BY <1>1, <1>2, <1>6 DEF OwnsOK, CreatedPcs, RemovePcs, RepairPcs
<1>10. "ins_linking" \in Pcs /\ "ins_linking" \notin RemovePcs
       /\ pc[t] \in InsertPcs \ NoLockPcs
  BY <1>1 DEF Pcs, InsertPcs, RemovePcs, NoLockPcs
<1>11. nodes' \in [Levels -> LevelType] /\ Grows
  BY <1>1, SameNodes
<1>12. /\ Holds(t) /\ held'[t] = held[t]
       /\ \A k \in Levels : held'[t][k] \in {held[t][k], "none"}
  BY <1>1, SameLocks, LockSets
<1> QED
  BY <1>1, <1>6, <1>7, <1>8, <1>9, <1>10, <1>11, <1>12, OwnStep

LEMMA InsertLinkBackInv ==
  ASSUME GraphInv, NEW t \in Threads, InsertLinkBack(t)
  PROVE  GraphInv'
<1> DEFINE nd == At(t)
           l  == loc[t].level
<1>1. PICK n \in loc[t].pend :
        /\ WriteLevel(t, IF Exists(nd, n)
                         THEN [nd EXCEPT ![n] = LinkBack(@, l, loc[t].e)]
                         ELSE nd)
        /\ Set(t, [loc[t] EXCEPT !.pend = @ \ {n},
                     !.over = IF Exists(nd, n) /\ ~HasRoom(nd[n], l)
                              THEN @ \cup {n} ELSE @])
  BY DEF InsertLinkBack
<1>2. /\ pc[t] = "ins_linking"
      /\ UNCHANGED <<entry, entryLevel, height, held, pc, handle, strayed>>
  BY DEF InsertLinkBack
<1>3. /\ LocalsOK("ins_linking", loc[t], height)
      /\ HeldOK("ins_linking", loc[t], held[t], height)
      /\ OwnsOK("ins_linking", loc[t], nodes, handle)
      /\ loc[t] \in Locals
  BY <1>2, CallFacts
<1>4. /\ loc[t].e \in Elements /\ nd \in LevelType /\ n \in Elements
  BY <1>1, <1>3, LevelFacts, CandType DEF LocalsOK, InsertPcs
<1> DEFINE q == IF Exists(nd, n) THEN [nd EXCEPT ![n] = LinkBack(@, l, loc[t].e)]
                                 ELSE nd
           P == loc[t].pend \ {n}
           O == IF Exists(nd, n) /\ ~HasRoom(nd[n], l)
                THEN loc[t].over \cup {n} ELSE loc[t].over
           L == [loc[t] EXCEPT !.pend = P, !.over = O]
<1>5. WriteLevel(t, q) /\ Set(t, L)
  BY <1>1
<1>6. q \in LevelType /\ \A y \in Elements : Exists(nd, y) => Exists(q, y)
  <2>1. CASE Exists(nd, n)
    <3>1. nd[n] \in NodeRec
      BY <1>4, <2>1, NodeOfLevel
    <3>2. LinkBack(nd[n], l, loc[t].e) \in NodeRec
      BY <1>4, <3>1, LinkBackType
    <3>3. q = [nd EXCEPT ![n] = LinkBack(nd[n], l, loc[t].e)]
      BY <2>1
    <3>4. LinkBack(nd[n], l, loc[t].e) # FreeNode
      BY <3>2, NodeAssumption
    <3> HIDE DEF q, nd
    <3> QED
      BY <1>4, <3>2, <3>3, <3>4 DEF LevelType, Exists
  <2>2. CASE ~Exists(nd, n)
    BY <1>4, <2>2
  <2> QED
    BY <2>1, <2>2
<1>7. P \in SUBSET Elements /\ O \in SUBSET Elements
  BY <1>4, CandType
<1>8. /\ L \in Locals /\ L.e = loc[t].e /\ L.top = loc[t].top
      /\ L.level = loc[t].level /\ L.elevel = loc[t].elevel
      /\ L.newEp = loc[t].newEp /\ L.rlevel = loc[t].rlevel
      /\ L.link = loc[t].link
  <2> HIDE DEF P, O
  <2> QED
    BY <1>3, <1>7 DEF Locals
<1> HIDE DEF L, q
<1>9. nodes' \in [Levels -> LevelType] /\ Grows
  BY <1>5, <1>6, WriteLevelGrows
<1>10. LocalsOK("ins_linking", L, height)
  BY <1>3, <1>8 DEF LocalsOK, CreatedPcs, RemovePcs, InsertPcs, ShrinkPcs, KnnPcs
<1>11. HeldOK("ins_linking", L, held'[t], height)
  BY <1>2, <1>3, <1>8 DEF HeldOK, NoLockPcs, AbovePcs, FromPcs, RepairPcs
<1>12. OwnsOK("ins_linking", L, nodes, handle)
  BY <1>3, <1>8 DEF OwnsOK, CreatedPcs, RemovePcs, RepairPcs
<1>13. OwnsOK("ins_linking", L, nodes', handle)
  BY <1>4, <1>8, <1>9, <1>12, OwnsGrows
<1>14. "ins_linking" \in Pcs /\ "ins_linking" \notin RemovePcs
       /\ pc[t] \in InsertPcs \ NoLockPcs
  BY <1>2 DEF Pcs, InsertPcs, RemovePcs, NoLockPcs
<1>15. /\ Holds(t) /\ held'[t] = held[t]
       /\ \A k \in Levels : held'[t][k] \in {held[t][k], "none"}
  BY <1>2, SameLocks, LockSets
<1>16. Goto(t, "ins_linking")
  BY <1>2 DEF Goto, GraphInv, TypeOK
<1> QED
  BY <1>2, <1>5, <1>8, <1>9, <1>10, <1>11, <1>13, <1>14, <1>15, <1>16, OwnStep

\* The end of link_neighbours on a level.
LEMMA AfterLinksInv ==
  ASSUME GraphInv, NEW t \in Threads, NEW new \in Locals, AfterLinks(t, new),
         pc[t] \in {"ins_linking", "ins_replace"},
         new.e = loc[t].e, new.top = loc[t].top, new.level = loc[t].level,
         new.elevel = loc[t].elevel, new.newEp = loc[t].newEp,
         new.rlevel = loc[t].rlevel,
         UNCHANGED <<entry, entryLevel, height, held, handle, strayed>>,
         nodes' \in [Levels -> LevelType], Grows
  PROVE  GraphInv'
<1>1. /\ LocalsOK(pc[t], loc[t], height)
      /\ HeldOK(pc[t], loc[t], held[t], height)
      /\ OwnsOK(pc[t], loc[t], nodes, handle)
  BY CallFacts
<1>2. /\ loc[t].level \in Levels /\ loc[t].top \in Levels /\ loc[t].level <= loc[t].top
      /\ loc[t].level \in Int /\ loc[t].top \in Int /\ height \in Int
      /\ loc[t].e \in Elements
  BY <1>1, LevelFacts, LockSets DEF LocalsOK, CreatedPcs, InsertPcs
<1>3. /\ Holds(t) /\ held'[t] = held[t]
      /\ \A k \in Levels : held'[t][k] \in {held[t][k], "none"}
  BY SameLocks, LockSets
<1>4. pc[t] \in InsertPcs \ NoLockPcs
  BY DEF InsertPcs, NoLockPcs
<1>5. ChainFrom(nodes, loc[t].e, 0, loc[t].top)
  BY <1>1 DEF OwnsOK, CreatedPcs
<1>6. ASSUME NEW p \in {"ins_done", "ins_link"}, NEW L \in Locals,
             Goto(t, p), Set(t, L),
             L.e = loc[t].e, L.top = loc[t].top, L.elevel = loc[t].elevel,
             L.newEp = loc[t].newEp, L.rlevel = loc[t].rlevel,
             L.level <= L.top
      PROVE  GraphInv'
  <2>0. L.level \in Int
    BY LockSets DEF Locals
  <2>1. LocalsOK(p, L, height)
    BY <1>1, <1>2, <1>6, <2>0 DEF LocalsOK, CreatedPcs, RemovePcs, InsertPcs, ShrinkPcs, KnnPcs
  <2>2. HeldOK(p, L, held'[t], height)
    BY <1>1, <1>3, <1>6, <1>4 DEF HeldOK, NoLockPcs, AbovePcs, FromPcs, RepairPcs
  <2>3. OwnsOK(p, L, nodes, handle)
    BY <1>5, <1>6 DEF OwnsOK, CreatedPcs, RemovePcs, RepairPcs
  <2>4. OwnsOK(p, L, nodes', handle)
    BY <1>2, <1>6, <2>3, OwnsGrows
  <2>5. p \in Pcs /\ p \notin RemovePcs
    BY DEF Pcs, InsertPcs, RemovePcs
  <2> QED
    BY <1>3, <1>4, <1>6, <2>1, <2>2, <2>4, <2>5, OwnStep
<1>7. CASE new.level = new.top
  BY <1>2, <1>6, <1>7 DEF AfterLinks
<1>8. CASE new.level # new.top
  <2> DEFINE l == new.level + 1
             L == [new EXCEPT !.level = l]
  <2>1. l \in Levels /\ l <= loc[t].top
    BY <1>2, <1>8, GraphAssumption DEF Levels
  <2>2. /\ L \in Locals /\ L.e = loc[t].e /\ L.top = loc[t].top
        /\ L.elevel = loc[t].elevel /\ L.newEp = loc[t].newEp
        /\ L.rlevel = loc[t].rlevel /\ L.level = l
    <3> HIDE DEF l
    <3> QED
      BY <2>1 DEF Locals
  <2>3. Goto(t, "ins_link") /\ Set(t, L)
    BY <1>8 DEF AfterLinks
  <2> HIDE DEF L
  <2> QED
    BY <1>6, <2>1, <2>2, <2>3
<1> QED
  BY <1>7, <1>8

LEMMA InsertConfirmInv ==
  ASSUME GraphInv, NEW t \in Threads, InsertConfirm(t)
  PROVE  GraphInv'
<1> DEFINE q == [At(t) EXCEPT ![loc[t].e] = ConfirmLinks(@)]
<1>1. /\ pc[t] = "ins_linking" /\ WriteLevel(t, q)
      /\ UNCHANGED <<entry, entryLevel, height, held, handle, strayed>>
  BY DEF InsertConfirm
<1>2. /\ LocalsOK("ins_linking", loc[t], height)
      /\ HeldOK("ins_linking", loc[t], held[t], height)
      /\ OwnsOK("ins_linking", loc[t], nodes, handle)
      /\ loc[t] \in Locals
  BY <1>1, CallFacts
<1>3. /\ loc[t].e \in Elements /\ loc[t].level \in Levels /\ At(t) \in LevelType
      /\ loc[t].level \in 0 .. loc[t].top
  BY <1>2, LevelFacts, LockSets DEF LocalsOK, InsertPcs, CreatedPcs
<1>4. Exists(At(t), loc[t].e)
  BY <1>2, <1>3 DEF OwnsOK, CreatedPcs, ChainFrom, At
<1>5. q \in LevelType /\ \A y \in Elements : Exists(At(t), y) => Exists(q, y)
  <2>1. ConfirmLinks(At(t)[loc[t].e]) \in NodeRec
    BY <1>3, <1>4, NodeOfLevel, ConfirmLinksType
  <2>2. ConfirmLinks(At(t)[loc[t].e]) # FreeNode
    BY <2>1, NodeAssumption
  <2> QED
    BY <1>3, <2>1, <2>2 DEF LevelType, Exists
<1> HIDE DEF q
<1>6. nodes' \in [Levels -> LevelType] /\ Grows
  BY <1>1, <1>5, WriteLevelGrows
<1>7. CASE loc[t].over # {}
  <2>1. Goto(t, "ins_shrink") /\ UNCHANGED loc
    BY <1>7 DEF InsertConfirm
  <2>2. Set(t, loc[t])
    BY <2>1 DEF Set, GraphInv, TypeOK
  <2>3. LocalsOK("ins_shrink", loc[t], height)
    BY <1>2 DEF LocalsOK, CreatedPcs, RemovePcs, InsertPcs, ShrinkPcs, KnnPcs
  <2>4. HeldOK("ins_shrink", loc[t], held'[t], height)
    BY <1>1, <1>2 DEF HeldOK, NoLockPcs, AbovePcs, FromPcs, RepairPcs
  <2>5. OwnsOK("ins_shrink", loc[t], nodes, handle)
    BY <1>2 DEF OwnsOK, CreatedPcs, RemovePcs, RepairPcs
  <2>6. OwnsOK("ins_shrink", loc[t], nodes', handle)
    BY <1>2, <1>3, <1>6, <2>5, OwnsGrows
  <2>7. "ins_shrink" \in Pcs /\ "ins_shrink" \notin RemovePcs
        /\ pc[t] \in InsertPcs \ NoLockPcs
    BY <1>1 DEF Pcs, InsertPcs, RemovePcs, NoLockPcs
  <2>8. /\ Holds(t) /\ held'[t] = held[t]
        /\ \A k \in Levels : held'[t][k] \in {held[t][k], "none"}
    BY <1>1, SameLocks, LockSets
  <2> QED
    BY <1>1, <1>2, <1>6, <2>1, <2>2, <2>3, <2>4, <2>6, <2>7, <2>8, OwnStep
<1>8. CASE loc[t].over = {}
  <2>1. AfterLinks(t, loc[t])
    BY <1>8 DEF InsertConfirm
  <2> QED
    BY <1>1, <1>2, <1>6, <2>1, AfterLinksInv
<1> QED
  BY <1>7, <1>8

\* Reading a neighbour's links, in an insert or a remove.
LEMMA ReselectInv ==
  ASSUME GraphInv, NEW t \in Threads, Reselect(t),
         NEW a \in {"ins_shrink", "rem_shrink"}, pc[t] = a,
         NEW p, p = (IF a = "ins_shrink" THEN "ins_replace" ELSE "rem_replace"),
         Goto(t, p),
         UNCHANGED <<nodes, entry, entryLevel, height, held, handle, strayed>>
  PROVE  GraphInv'
<1>1. PICK v \in loc[t].over :
        /\ Exists(At(t), v)
        /\ \E new \in Selections((At(t)[v].out \cup {loc[t].link}) \ {v},
                                 MaxNeighbours(loc[t].level)) :
             Set(t, [loc[t] EXCEPT !.shrink = v, !.shrunk = new])
  BY DEF Reselect
<1>2. PICK new \in Selections((At(t)[v].out \cup {loc[t].link}) \ {v},
                              MaxNeighbours(loc[t].level)) :
        Set(t, [loc[t] EXCEPT !.shrink = v, !.shrunk = new])
  BY <1>1
<1>3. /\ LocalsOK(a, loc[t], height)
      /\ HeldOK(a, loc[t], held[t], height)
      /\ OwnsOK(a, loc[t], nodes, handle)
      /\ loc[t] \in Locals
  BY CallFacts
<1>4. v \in Elements /\ loc[t].link \in Elements /\ At(t) \in LevelType
  BY <1>1, <1>3, CandType, LevelFacts DEF LocalsOK, ShrinkPcs, KnnPcs
<1>5. At(t)[v].out \in SUBSET Elements
  BY <1>1, <1>4, NodeOfLevel DEF NodeRec
<1>6. new \in SUBSET Elements
  BY <1>2, <1>4, <1>5, SelectionsWithin
<1> DEFINE L == [loc[t] EXCEPT !.shrink = v, !.shrunk = new]
<1>7. /\ L \in Locals /\ L.e = loc[t].e /\ L.top = loc[t].top
      /\ L.level = loc[t].level /\ L.elevel = loc[t].elevel
      /\ L.newEp = loc[t].newEp /\ L.rlevel = loc[t].rlevel
      /\ L.link = loc[t].link /\ L.shrink = v /\ L.orph = loc[t].orph
      /\ Set(t, L)
  BY <1>2, <1>3, <1>4, <1>6 DEF Locals
<1> HIDE DEF L
<1>8. LocalsOK(p, L, height)
  BY <1>3, <1>4, <1>7 DEF LocalsOK, CreatedPcs, RemovePcs, InsertPcs, ShrinkPcs, KnnPcs
<1>9. HeldOK(p, L, held'[t], height)
  BY <1>3, <1>7 DEF HeldOK, NoLockPcs, AbovePcs, FromPcs, RepairPcs
<1>10. OwnsOK(p, L, nodes', handle)
  BY <1>3, <1>7 DEF OwnsOK, CreatedPcs, RemovePcs, RepairPcs
<1>11. /\ p \in Pcs
       /\ p \in InsertPcs => a \in InsertPcs
       /\ p \in RemovePcs => a \in RemovePcs
       /\ a \in InsertPcs \ NoLockPcs \/ a \in RemovePcs \ NoLockPcs
  BY DEF Pcs, InsertPcs, RemovePcs, NoLockPcs
<1>12. nodes' \in [Levels -> LevelType] /\ Grows
  BY SameNodes
<1>13. /\ Holds(t) /\ held'[t] = held[t]
       /\ \A k \in Levels : held'[t][k] \in {held[t][k], "none"}
  BY SameLocks, LockSets
<1> QED
  BY <1>7, <1>8, <1>9, <1>10, <1>11, <1>12, <1>13, OwnStep

LEMMA InsertShrinkInv ==
  ASSUME GraphInv, NEW t \in Threads, InsertShrink(t)
  PROVE  GraphInv'
  BY ReselectInv DEF InsertShrink

\* Replacing a neighbour's links keeps every node.
LEMMA ReplaceSelectedGrows ==
  ASSUME GraphInv, NEW t \in Threads, ReplaceSelected(t),
         loc[t].shrink \in Elements
  PROVE  nodes' \in [Levels -> LevelType] /\ Grows
<1> DEFINE q == ReplaceNeighbours(At(t), loc[t].level, loc[t].shrink, loc[t].shrunk)
<1>1. WriteLevel(t, q) /\ Exists(At(t), loc[t].shrink)
  BY DEF ReplaceSelected
<1>2. At(t) \in LevelType /\ loc[t].shrunk \in SUBSET Elements
  BY LevelFacts, CandType
<1>3. q \in LevelType /\ \A y \in Elements : Exists(q, y) <=> Exists(At(t), y)
  BY <1>1, <1>2, ReplaceType
<1> HIDE DEF q
<1> QED
  BY <1>1, <1>3, WriteLevelGrows

LEMMA AfterReplaceType ==
  ASSUME GraphInv, NEW t \in Threads
  PROVE  LET L == AfterReplace(t)
         IN  /\ L \in Locals /\ L.e = loc[t].e /\ L.top = loc[t].top
             /\ L.level = loc[t].level /\ L.elevel = loc[t].elevel
             /\ L.newEp = loc[t].newEp /\ L.rlevel = loc[t].rlevel
             /\ L.link = loc[t].link /\ L.orph = loc[t].orph
<1>1. loc[t] \in Locals
  BY CallFacts
<1> QED
  BY <1>1 DEF Locals, AfterReplace

LEMMA InsertReplaceInv ==
  ASSUME GraphInv, NEW t \in Threads, InsertReplace(t)
  PROVE  GraphInv'
<1> DEFINE L == AfterReplace(t)
<1>1. /\ pc[t] = "ins_replace" /\ ReplaceSelected(t)
      /\ IF L.over # {} THEN Goto(t, "ins_shrink") /\ Set(t, L) ELSE AfterLinks(t, L)
      /\ UNCHANGED <<entry, entryLevel, height, held, handle, strayed>>
  BY DEF InsertReplace
<1>2. /\ LocalsOK("ins_replace", loc[t], height)
      /\ HeldOK("ins_replace", loc[t], held[t], height)
      /\ OwnsOK("ins_replace", loc[t], nodes, handle)
  BY <1>1, CallFacts
<1>3. loc[t].shrink \in Elements /\ loc[t].e \in Elements
  BY <1>2 DEF LocalsOK, InsertPcs
<1>4. nodes' \in [Levels -> LevelType] /\ Grows
  BY <1>1, <1>3, ReplaceSelectedGrows
<1>5. /\ L \in Locals /\ L.e = loc[t].e /\ L.top = loc[t].top
      /\ L.level = loc[t].level /\ L.elevel = loc[t].elevel
      /\ L.newEp = loc[t].newEp /\ L.rlevel = loc[t].rlevel
      /\ L.link = loc[t].link /\ L.orph = loc[t].orph
  BY AfterReplaceType
<1> HIDE DEF L
<1>6. CASE L.over # {}
  <2>1. LocalsOK("ins_shrink", L, height)
    BY <1>2, <1>5 DEF LocalsOK, CreatedPcs, RemovePcs, InsertPcs, ShrinkPcs, KnnPcs
  <2>2. HeldOK("ins_shrink", L, held'[t], height)
    BY <1>1, <1>2 DEF HeldOK, NoLockPcs, AbovePcs, FromPcs, RepairPcs
  <2>3. OwnsOK("ins_shrink", L, nodes, handle)
    BY <1>2, <1>5 DEF OwnsOK, CreatedPcs, RemovePcs, RepairPcs
  <2>4. OwnsOK("ins_shrink", L, nodes', handle)
    BY <1>3, <1>4, <1>5, <2>3, OwnsGrows
  <2>5. "ins_shrink" \in Pcs /\ "ins_shrink" \notin RemovePcs
        /\ pc[t] \in InsertPcs \ NoLockPcs
    BY <1>1 DEF Pcs, InsertPcs, RemovePcs, NoLockPcs
  <2>6. /\ Holds(t) /\ held'[t] = held[t]
        /\ \A k \in Levels : held'[t][k] \in {held[t][k], "none"}
    BY <1>1, SameLocks, LockSets
  <2> QED
    BY <1>1, <1>4, <1>5, <1>6, <2>1, <2>2, <2>4, <2>5, <2>6, OwnStep
<1>7. CASE L.over = {}
  BY <1>1, <1>4, <1>5, <1>7, AfterLinksInv
<1> QED
  BY <1>6, <1>7

\* The locals a call ends with, and what it leaves.
LEMMA ReturnStep ==
  ASSUME GraphInv, NEW t \in Threads, Return(t), UNCHANGED <<nodes, height>>,
         loc[t].e \in Elements \cup {Nil},
         handle' \in [Elements -> Levels \cup {NoLevel}],
         \A e \in Elements : handle'[e] <= height,
         \A e \in Elements \ {loc[t].e} : handle'[e] = handle[e],
         loc[t].e \in Elements /\ handle'[loc[t].e] # NoLevel =>
           ChainFrom(nodes, loc[t].e, 0, handle'[loc[t].e]),
         entry' \in Elements \cup {Nil}, entryLevel' \in Levels,
         entryLevel' <= height, strayed' \in BOOLEAN,
         UNCHANGED <<entry, entryLevel>> \/ held[t][GraphLock] = "X"
  PROVE  GraphInv'
<1>1. /\ Moves(t) /\ pc'[t] = "idle" /\ loc'[t] = NoLocals /\ held'[t] = NoLocks
  BY ReturnMoves
<1>2. NoLocals.e = Nil /\ ~NoLocals.newEp
  BY DEF NoLocals
<1>3. OwnsOK("idle", NoLocals, nodes', handle') /\ FreshOK("idle", NoLocals, handle')
  BY DEF OwnsOK, FreshOK, InsertPcs, CreatedPcs, RemovePcs, RepairPcs
<1>4. nodes' \in [Levels -> LevelType]
  BY SameNodes
<1>5. Keeps(t)
  BY <1>1, <1>2, <1>3, <1>4 DEF Keeps
<1>6. EntryOK("idle", NoLocals, NoLocks, entry', entryLevel')
  BY <1>2 DEF EntryOK
<1>7. Enters(t)
  BY <1>1, <1>6 DEF Enters
<1> QED
  BY <1>1, <1>5, <1>7, StepTogether

LEMMA InsertReturnInv ==
  ASSUME GraphInv, NEW t \in Threads, InsertReturn(t)
  PROVE  GraphInv'
<1>1. /\ pc[t] = "ins_done" /\ Return(t) /\ UNCHANGED <<nodes, height, strayed>>
      /\ handle' = [handle EXCEPT ![loc[t].e] = loc[t].top]
      /\ IF loc[t].newEp THEN SetEntryPoint(loc[t].e, loc[t].top)
                         ELSE UNCHANGED <<entry, entryLevel>>
  BY DEF InsertReturn
<1>2. /\ LocalsOK("ins_done", loc[t], height)
      /\ OwnsOK("ins_done", loc[t], nodes, handle)
      /\ EntryOK("ins_done", loc[t], held[t], entry, entryLevel)
  BY <1>1, CallFacts
<1>3. loc[t].e \in Elements /\ loc[t].top <= height /\ loc[t].top \in Levels
  BY <1>2, LevelFacts DEF LocalsOK, InsertPcs
<1>4. /\ handle \in [Elements -> Levels \cup {NoLevel}]
      /\ \A e \in Elements : handle[e] <= height
      /\ entry \in Elements \cup {Nil} /\ entryLevel \in Levels /\ entryLevel <= height
      /\ strayed \in BOOLEAN
  BY DEF GraphInv, TypeOK, IndexOK
<1>5. ChainFrom(nodes, loc[t].e, 0, loc[t].top)
  BY <1>2 DEF OwnsOK, CreatedPcs
<1>6. /\ entry' \in Elements \cup {Nil} /\ entryLevel' \in Levels
      /\ entryLevel' <= height
      /\ UNCHANGED <<entry, entryLevel>> \/ held[t][GraphLock] = "X"
  BY <1>1, <1>2, <1>3, <1>4 DEF SetEntryPoint, EntryOK
<1>7. handle' \in [Elements -> Levels \cup {NoLevel}]
      /\ \A e \in Elements : handle'[e] = IF e = loc[t].e THEN loc[t].top ELSE handle[e]
  BY <1>1, <1>3, <1>4
<1> QED
  BY <1>1, <1>3, <1>4, <1>5, <1>6, <1>7, ReturnStep

-------------------------------------------------------------------------------
(* remove.                                                                 *)

LEMMA RemoveCallInv ==
  ASSUME GraphInv, NEW t \in Threads, NEW e \in Elements, RemoveCall(t, e)
  PROVE  GraphInv'
<1> DEFINE h == handle[e]
           L == [NoLocals EXCEPT !.e = e, !.top = h, !.level = h]
           p == IF SoleEntryPoint(e) THEN "rem_upgrade" ELSE "rem_lock"
<1>1. /\ pc[t] = "idle" /\ Unused(e) /\ h # NoLevel /\ CanShare(t, GraphLock)
      /\ Set(t, L) /\ Goto(t, p)
      /\ IF SoleEntryPoint(e) THEN UNCHANGED held ELSE HoldAlso(t, GraphLock, "S")
      /\ UNCHANGED <<nodes, entry, entryLevel, height, handle, strayed>>
  BY DEF RemoveCall
<1>2. h \in Levels /\ h <= height /\ height \in Levels /\ height \in Int /\ height >= 0
      /\ h \in Int
  BY <1>1, LevelFacts, LockSets DEF GraphInv, TypeOK, IndexOK
<1>3. /\ L \in Locals /\ L.e = e /\ L.top = h /\ L.elevel = 0 /\ L.level = h
      /\ L.rlevel = 0 /\ ~L.newEp /\ L.orph = {}
  <2> HIDE DEF h
  <2> QED
    BY <1>2, LockSets DEF NoLocals, Locals
<1>4. loc[t].e = Nil /\ p \in Pcs
  BY <1>1, CallFacts DEF LocalsOK, Pcs, RemovePcs
<1> HIDE DEF L
<1>5. LocalsOK(p, L, height)
  BY <1>2, <1>3 DEF LocalsOK, CreatedPcs, RemovePcs, InsertPcs, ShrinkPcs, KnnPcs
<1>6. \A k \in Levels : held[t][k] = "none"
  BY <1>1, CallFacts DEF HeldOK, NoLockPcs
<1>7. /\ Holds(t) /\ HeldOK(p, L, held'[t], height)
      /\ \A k \in Locks : \/ held'[t][k] \in {held[t][k], "none"}
                          \/ held'[t][k] = "S" /\ CanShare(t, k)
  <2>1. CASE SoleEntryPoint(e)
    <3>1. held[t][GraphLock] = "none"
      BY <1>1, CallFacts DEF HeldOK, NoLockPcs
    <3> QED
      BY <1>1, <1>6, <2>1, <3>1, SameLocks DEF HeldOK, NoLockPcs, RepairPcs
  <2>2. CASE ~SoleEntryPoint(e)
    <3>1. /\ Holds(t) /\ held'[t][GraphLock] = "S"
          /\ \A j \in Locks \ {GraphLock} : held'[t][j] = held[t][j]
      BY <1>1, <2>2, HoldAlsoHolds, LockSets DEF Modes
    <3> QED
      BY <1>1, <1>6, <2>2, <3>1, LockSets DEF HeldOK, NoLockPcs, RepairPcs
  <2> QED
    BY <2>1, <2>2
<1>8. ChainFrom(nodes, e, 0, h)
  BY <1>1 DEF GraphInv, IndexOK
<1>9. OwnsOK(p, L, nodes', handle) /\ FreshOK(p, L, handle)
  BY <1>1, <1>3, <1>8 DEF OwnsOK, FreshOK, InsertPcs, CreatedPcs, RemovePcs, RepairPcs
<1>10. EntryOK(p, L, held'[t], entry, entryLevel)
  BY <1>3 DEF EntryOK
<1>11. height' \in Levels /\ height' >= height /\ height' = height
  BY <1>1, <1>2
<1>12. nodes' \in [Levels -> LevelType] /\ Grows
  BY <1>1, SameNodes
<1> HIDE DEF p
<1> QED
  BY <1>1, <1>3, <1>4, <1>5, <1>7, <1>9, <1>10, <1>11, <1>12, CallStep

LEMMA RemoveUpgradeInv ==
  ASSUME GraphInv, NEW t \in Threads, RemoveUpgrade(t)
  PROVE  GraphInv'
<1> DEFINE nw == SoleEntryPoint(loc[t].e)
           L  == [loc[t] EXCEPT !.newEp = nw]
<1>1. /\ pc[t] = "rem_upgrade" /\ CanLock(t, GraphLock)
      /\ Set(t, L) /\ Goto(t, "rem_lock") /\ HoldAlso(t, GraphLock, "X")
      /\ UNCHANGED <<nodes, entry, entryLevel, height, handle, strayed>>
  BY DEF RemoveUpgrade
<1>2. /\ LocalsOK("rem_upgrade", loc[t], height) /\ loc[t] \in Locals
      /\ OwnsOK("rem_upgrade", loc[t], nodes, handle)
  BY <1>1, CallFacts
<1>3. nw \in BOOLEAN /\ (nw => entry = loc[t].e)
  BY DEF SoleEntryPoint
<1>4. /\ L \in Locals /\ L.e = loc[t].e /\ L.top = loc[t].top
      /\ L.elevel = loc[t].elevel /\ L.level = loc[t].level
      /\ L.rlevel = loc[t].rlevel /\ L.newEp = nw
  <2> HIDE DEF nw
  <2> QED
    BY <1>2, <1>3 DEF Locals
<1> HIDE DEF L, nw
<1>5. LocalsOK("rem_lock", L, height)
  BY <1>2, <1>4 DEF LocalsOK, CreatedPcs, RemovePcs, InsertPcs, ShrinkPcs, KnnPcs
<1>6. /\ Holds(t) /\ held'[t][GraphLock] = "X"
      /\ \A j \in Locks \ {GraphLock} : held'[t][j] = held[t][j]
  BY <1>1, HoldAlsoHolds, LockSets DEF Modes
<1>7. \A k \in Levels : held[t][k] = "none"
  BY <1>1, CallFacts DEF HeldOK, NoLockPcs
<1>8. HeldOK("rem_lock", L, held'[t], height)
  BY <1>6, <1>7, LockSets DEF HeldOK, NoLockPcs, RepairPcs
<1>9. OwnsOK("rem_lock", L, nodes', handle) /\ FreshOK("rem_lock", L, handle)
  BY <1>1, <1>2, <1>4 DEF OwnsOK, FreshOK, InsertPcs, CreatedPcs, RemovePcs, RepairPcs
<1>10. EntryOK("rem_lock", L, held'[t], entry, entryLevel)
  BY <1>3, <1>4, <1>6 DEF EntryOK, InsertPcs
<1>11. nodes' \in [Levels -> LevelType] /\ Grows
  BY <1>1, SameNodes
<1>12. "rem_lock" \in Pcs
  BY DEF Pcs, RemovePcs
<1>13. \A k \in Locks : held'[t][k] \in {held[t][k], "none"} \/ CanLock(t, k)
  BY <1>1, <1>6
<1>14. height' \in Levels /\ height' >= height /\ height' = height
  BY <1>1, LevelFacts, LockSets
<1> QED
  BY <1>1, <1>4, <1>5, <1>6, <1>8, <1>9, <1>10, <1>11, <1>12, <1>13, <1>14, CallStep

LEMMA RemoveUnlinkInv ==
  ASSUME GraphInv, NEW t \in Threads, RemoveUnlink(t)
  PROVE  GraphInv'
<1> DEFINE l  == loc[t].level
           e  == loc[t].e
           nd == UnlinkNeighbours(At(t), e)
           O  == IncomingNeighbours(nd[e])
           R(f) == IF loc[t].repl = Nil THEN f ELSE loc[t].repl
           r  == IF loc[t].repl = Nil THEN l ELSE loc[t].rlevel
<1>1. /\ pc[t] = "rem_lock" /\ CanLock(t, l) /\ HoldOnly(t, l, "X")
      /\ WriteLevel(t, nd) /\ Goto(t, "rem_repair")
      /\ UNCHANGED <<entry, entryLevel, height, handle, strayed>>
  BY DEF RemoveUnlink
<1>2. PICK U \in Unlinked(At(t), l, e) : \E front \in Front(At(t), e, U) :
        Set(t, [loc[t] EXCEPT !.unl = U, !.orph = O,
                  !.repl   = IF @ = Nil THEN front ELSE @,
                  !.rlevel = IF loc[t].repl = Nil THEN l ELSE @])
  BY DEF RemoveUnlink
<1>3. PICK front \in Front(At(t), e, U) :
        Set(t, [loc[t] EXCEPT !.unl = U, !.orph = O, !.repl = R(front), !.rlevel = r])
  BY <1>2
<1>4. /\ LocalsOK("rem_lock", loc[t], height) /\ loc[t] \in Locals
      /\ HeldOK("rem_lock", loc[t], held[t], height)
      /\ OwnsOK("rem_lock", loc[t], nodes, handle)
  BY <1>1, CallFacts
<1>5. /\ l \in Levels /\ e \in Elements /\ At(t) \in LevelType
      /\ l \in 0 .. loc[t].top /\ l <= height
  BY <1>4, LevelFacts, LockSets DEF LocalsOK, RemovePcs
<1>6. Exists(At(t), e)
  BY <1>4, <1>5 DEF OwnsOK, RemovePcs, ChainFrom, At
<1>7. /\ nd \in LevelType
      /\ \A y \in Elements : Exists(nd, y) <=> Exists(At(t), y)
      /\ O \subseteq Orphaned(At(t), e)
  BY <1>5, <1>6, UnlinkType
<1>8. /\ Severed(At(t), e) \subseteq Elements
      /\ Orphaned(At(t), e) \subseteq Severed(At(t), e)
      /\ \A y \in Severed(At(t), e) : Exists(At(t), y)
  BY <1>5, <1>6, SeveredType
<1>9. U \in SUBSET Elements /\ front \in Elements \cup {Nil}
  BY <1>2, <1>3, <1>8, UnlinkedWithin
<1>10. O \in SUBSET Elements /\ \A o \in O : Exists(nd, o)
  BY <1>7, <1>8
<1>11. R(front) \in Elements \cup {Nil} /\ r \in Levels /\ r <= height
  BY <1>4, <1>5, <1>9, CandType, LevelFacts DEF LocalsOK
<1> DEFINE L == [loc[t] EXCEPT !.unl = U, !.orph = O, !.repl = R(front), !.rlevel = r]
<1>12. /\ L \in Locals /\ L.e = e /\ L.top = loc[t].top
       /\ L.elevel = loc[t].elevel /\ L.level = l
       /\ L.rlevel = r /\ L.newEp = loc[t].newEp /\ L.orph = O
       /\ Set(t, L)
  <2> HIDE DEF R, O, r
  <2> QED
    BY <1>3, <1>4, <1>9, <1>10, <1>11 DEF Locals
<1> HIDE DEF L, nd, r, O, R
<1>13. /\ nodes' \in [Levels -> LevelType] /\ Grows /\ nodes'[l] = nd
  <2>1. nodes' \in [Levels -> LevelType] /\ Grows
    BY <1>1, <1>7, WriteLevelGrows
  <2> QED
    BY <1>1, <1>5, <2>1, LevelFacts DEF WriteLevel
<1>14. LocalsOK("rem_repair", L, height)
  BY <1>4, <1>11, <1>12 DEF LocalsOK, CreatedPcs, RemovePcs, InsertPcs, ShrinkPcs, KnnPcs
<1>15. /\ Holds(t) /\ held'[t][GraphLock] = held[t][GraphLock]
       /\ \A j \in Levels : held'[t][j] = IF j = l THEN "X" ELSE "none"
  BY <1>1, <1>5, HoldOnlyHolds DEF Modes
<1>16. HeldOK("rem_repair", L, held'[t], height)
  BY <1>4, <1>5, <1>12, <1>15, LockSets
  DEF HeldOK, NoLockPcs, AbovePcs, FromPcs, RepairPcs
<1>17. OwnsOK("rem_repair", L, nodes', handle)
  <2> DEFINE K == [L EXCEPT !.orph = {}]
  <2>1. K \in Locals /\ K.e = e /\ K.top = loc[t].top /\ K.orph = {} /\ K.level = l
    BY <1>12 DEF Locals
  <2> HIDE DEF K
  <2>2. OwnsOK("rem_repair", K, nodes, handle)
    BY <1>4, <2>1 DEF OwnsOK, CreatedPcs, RemovePcs, RepairPcs
  <2>3. OwnsOK("rem_repair", K, nodes', handle)
    BY <1>5, <1>13, <2>1, <2>2, OwnsGrows
  <2> QED
    BY <1>10, <1>12, <1>13, <2>1, <2>3 DEF OwnsOK, CreatedPcs, RemovePcs, RepairPcs
<1>18. "rem_repair" \in Pcs /\ "rem_repair" \notin InsertPcs
       /\ pc[t] \in RemovePcs \ NoLockPcs
  BY <1>1 DEF Pcs, InsertPcs, RemovePcs, NoLockPcs
<1>19. \A k \in Levels : held'[t][k] \in {held[t][k], "none"} \/ CanLock(t, k)
  BY <1>1, <1>15
<1> QED
  BY <1>1, <1>12, <1>13, <1>14, <1>15, <1>16, <1>17, <1>18, <1>19, OwnStep

\* A step of a remove that repairs the level it is at.
LEMMA RepairStep ==
  ASSUME GraphInv, NEW t \in Threads, NEW p \in RepairPcs, NEW L \in Locals,
         Goto(t, p), Set(t, L), pc[t] \in RepairPcs,
         L.e = loc[t].e, L.top = loc[t].top, L.newEp = loc[t].newEp,
         L.level = loc[t].level, L.elevel = loc[t].elevel,
         L.rlevel <= height, L.orph \subseteq loc[t].orph,
         p \in ShrinkPcs => L.link \in Elements,
         p = "rem_replace" => L.shrink \in Elements,
         UNCHANGED <<entry, entryLevel, height, held, handle, strayed>>,
         nodes' \in [Levels -> LevelType], Grows
  PROVE  GraphInv'
<1>1. /\ LocalsOK(pc[t], loc[t], height)
      /\ HeldOK(pc[t], loc[t], held[t], height)
      /\ OwnsOK(pc[t], loc[t], nodes, handle)
  BY CallFacts
<1>2. LocalsOK(p, L, height)
  BY <1>1 DEF LocalsOK, CreatedPcs, RemovePcs, InsertPcs, RepairPcs, KnnPcs
<1>3. HeldOK(p, L, held'[t], height)
  BY <1>1 DEF HeldOK, NoLockPcs, AbovePcs, FromPcs, RepairPcs
<1>4. OwnsOK(p, L, nodes, handle)
  BY <1>1 DEF OwnsOK, CreatedPcs, RemovePcs, RepairPcs
<1>5. L.e \in Elements
  BY <1>1 DEF LocalsOK, RemovePcs, RepairPcs
<1>6. OwnsOK(p, L, nodes', handle)
  BY <1>4, <1>5, OwnsGrows
<1>7. /\ p \in Pcs /\ p \notin InsertPcs /\ pc[t] \in RemovePcs \ NoLockPcs
  BY DEF Pcs, InsertPcs, RemovePcs, NoLockPcs, RepairPcs
<1>8. /\ Holds(t) /\ held'[t] = held[t]
      /\ \A k \in Levels : held'[t][k] \in {held[t][k], "none"}
  BY SameLocks, LockSets
<1> QED
  BY <1>2, <1>3, <1>6, <1>7, <1>8, OwnStep

LEMMA RemoveSeedInv ==
  ASSUME GraphInv, NEW t \in Threads, RemoveSeed(t)
  PROVE  GraphInv'
<1>1. /\ pc[t] = "rem_repair"
      /\ UNCHANGED <<nodes, entry, entryLevel, height, held, pc, handle, strayed>>
  BY DEF RemoveSeed
<1>2. PICK o \in loc[t].orph :
       Set(t, [loc[t] EXCEPT !.orph = @ \ {o}, !.unl = {o},
                             !.repl   = IF @ = Nil THEN o ELSE @,
                             !.rlevel = IF loc[t].repl = Nil THEN loc[t].level
                                                             ELSE @])
  BY DEF RemoveSeed
<1> DEFINE O == loc[t].orph \ {o}
           R == IF loc[t].repl = Nil THEN o ELSE loc[t].repl
           r == IF loc[t].repl = Nil THEN loc[t].level ELSE loc[t].rlevel
           L == [loc[t] EXCEPT !.orph = O, !.unl = {o}, !.repl = R, !.rlevel = r]
<1>3. /\ loc[t] \in Locals /\ LocalsOK("rem_repair", loc[t], height)
  BY <1>1, CallFacts
<1>4. /\ O \in SUBSET Elements /\ O \subseteq loc[t].orph /\ R \in Elements \cup {Nil}
      /\ r \in Levels /\ {o} \in SUBSET Elements /\ r <= height
  BY <1>2, <1>3, CandType, LevelFacts DEF LocalsOK
<1>5. Set(t, L)
  BY <1>2
<1>6. /\ L \in Locals /\ L.e = loc[t].e /\ L.top = loc[t].top
      /\ L.elevel = loc[t].elevel /\ L.level = loc[t].level
      /\ L.rlevel = r /\ L.newEp = loc[t].newEp /\ L.orph = O
  <2> HIDE DEF R, O, r
  <2> QED
    BY <1>3, <1>4 DEF Locals
<1> HIDE DEF L, O, R, r
<1>7. Goto(t, "rem_repair")
  BY <1>1 DEF Goto, GraphInv, TypeOK
<1>8. "rem_repair" \in RepairPcs /\ "rem_repair" \notin ShrinkPcs
  BY DEF RepairPcs, ShrinkPcs
<1>9. nodes' \in [Levels -> LevelType] /\ Grows
  BY <1>1, SameNodes
<1> QED
  BY <1>1, <1>4, <1>5, <1>6, <1>7, <1>8, <1>9, RepairStep

LEMMA RemoveRepairInv ==
  ASSUME GraphInv, NEW t \in Threads, RemoveRepair(t)
  PROVE  GraphInv'
<1> DEFINE nd == At(t)
           l  == loc[t].level
<1>1. /\ pc[t] = "rem_repair"
      /\ UNCHANGED <<entry, entryLevel, height, held, handle, strayed>>
  BY DEF RemoveRepair
<1>2. PICK o \in loc[t].orph, W \in SUBSET Elements, new \in SUBSET Elements :
        /\ WriteLevel(t, ReplaceNeighbours(nd, l, o, new))
        /\ Set(t, [loc[t] EXCEPT !.orph = @ \ {o}, !.unl = @ \cup {o},
                                 !.link = o, !.over = Withheld(nd, l, o, new)])
        /\ Goto(t, IF Withheld(nd, l, o, new) = {} THEN "rem_repair" ELSE "rem_shrink")
  <2>1. PICK o \in loc[t].orph :
          \E W \in SearchResults(t, loc[t].unl, {o}, EfConstruction) :
          \E new \in Selections(W, M) :
           LET over == Withheld(nd, l, o, new)
           IN  /\ WriteLevel(t, ReplaceNeighbours(nd, l, o, new))
               /\ Set(t, [loc[t] EXCEPT !.orph = @ \ {o}, !.unl = @ \cup {o},
                                        !.link = o, !.over = over])
               /\ Goto(t, IF over = {} THEN "rem_repair" ELSE "rem_shrink")
    BY DEF RemoveRepair
  <2>2. PICK W \in SearchResults(t, loc[t].unl, {o}, EfConstruction) :
          \E new \in Selections(W, M) :
           LET over == Withheld(nd, l, o, new)
           IN  /\ WriteLevel(t, ReplaceNeighbours(nd, l, o, new))
               /\ Set(t, [loc[t] EXCEPT !.orph = @ \ {o}, !.unl = @ \cup {o},
                                        !.link = o, !.over = over])
               /\ Goto(t, IF over = {} THEN "rem_repair" ELSE "rem_shrink")
    BY <2>1
  <2>3. W \in SUBSET Elements
    BY <2>2, CandType, SearchResultsLive
  <2>4. \A new \in Selections(W, M) : new \in SUBSET Elements
    BY <2>3, SelectionsWithin
  <2> QED
    BY <2>1, <2>2, <2>3, <2>4
<1> DEFINE q == ReplaceNeighbours(nd, l, o, new)
           V == Withheld(nd, l, o, new)
           O == loc[t].orph \ {o}
           U == loc[t].unl \cup {o}
           L == [loc[t] EXCEPT !.orph = O, !.unl = U, !.link = o, !.over = V]
           p == IF V = {} THEN "rem_repair" ELSE "rem_shrink"
<1>3. WriteLevel(t, q) /\ Set(t, L) /\ Goto(t, p)
  BY <1>2
<1>4. /\ LocalsOK("rem_repair", loc[t], height) /\ loc[t] \in Locals
      /\ OwnsOK("rem_repair", loc[t], nodes, handle)
  BY <1>1, CallFacts
<1>5. o \in Elements /\ nd \in LevelType /\ Exists(nd, o)
  BY <1>2, <1>4, CandType, LevelFacts DEF OwnsOK, RepairPcs, At
<1>6. q \in LevelType /\ \A y \in Elements : Exists(q, y) <=> Exists(nd, y)
  BY <1>2, <1>5, ReplaceType
<1>7. V \in SUBSET Elements /\ O \in SUBSET Elements /\ U \in SUBSET Elements
      /\ O \subseteq loc[t].orph
  BY <1>2, <1>5, CandType DEF Withheld, ToLink
<1>8. /\ L \in Locals /\ L.e = loc[t].e /\ L.top = loc[t].top
      /\ L.elevel = loc[t].elevel /\ L.level = loc[t].level
      /\ L.rlevel = loc[t].rlevel /\ L.newEp = loc[t].newEp /\ L.orph = O
      /\ L.link = o
  <2> HIDE DEF V, O, U
  <2> QED
    BY <1>4, <1>5, <1>7 DEF Locals
<1> HIDE DEF q, V, O, U, L
<1>9. nodes' \in [Levels -> LevelType] /\ Grows
  BY <1>3, <1>6, WriteLevelGrows
<1>10. p \in RepairPcs /\ p # "rem_replace" /\ "rem_repair" \in RepairPcs
  BY DEF RepairPcs
<1>11. loc[t].rlevel <= height
  BY <1>4 DEF LocalsOK
<1> HIDE DEF p
<1> QED
  BY <1>1, <1>3, <1>5, <1>7, <1>8, <1>9, <1>10, <1>11, RepairStep

LEMMA RemoveShrinkInv ==
  ASSUME GraphInv, NEW t \in Threads, RemoveShrink(t)
  PROVE  GraphInv'
  BY ReselectInv DEF RemoveShrink

LEMMA RemoveReplaceInv ==
  ASSUME GraphInv, NEW t \in Threads, RemoveReplace(t)
  PROVE  GraphInv'
<1> DEFINE L == AfterReplace(t)
           p == IF L.over # {} THEN "rem_shrink" ELSE "rem_repair"
<1>1. /\ pc[t] = "rem_replace" /\ ReplaceSelected(t) /\ Set(t, L) /\ Goto(t, p)
      /\ UNCHANGED <<entry, entryLevel, height, held, handle, strayed>>
  BY DEF RemoveReplace
<1>2. LocalsOK("rem_replace", loc[t], height)
  BY <1>1, CallFacts
<1>3. loc[t].shrink \in Elements /\ loc[t].link \in Elements /\ loc[t].rlevel <= height
  BY <1>2 DEF LocalsOK, ShrinkPcs, KnnPcs
<1>4. nodes' \in [Levels -> LevelType] /\ Grows
  BY <1>1, <1>3, ReplaceSelectedGrows
<1>5. /\ L \in Locals /\ L.e = loc[t].e /\ L.top = loc[t].top
      /\ L.level = loc[t].level /\ L.elevel = loc[t].elevel
      /\ L.newEp = loc[t].newEp /\ L.rlevel = loc[t].rlevel
      /\ L.link = loc[t].link /\ L.orph = loc[t].orph
  BY AfterReplaceType
<1> HIDE DEF L
<1>6. p \in RepairPcs /\ p # "rem_replace" /\ pc[t] \in RepairPcs
  BY <1>1 DEF RepairPcs
<1> HIDE DEF p
<1> QED
  BY <1>1, <1>3, <1>4, <1>5, <1>6, RepairStep

LEMMA RemoveNextLevelInv ==
  ASSUME GraphInv, NEW t \in Threads, RemoveNextLevel(t)
  PROVE  GraphInv'
<1> DEFINE l == IF loc[t].level = 0 THEN loc[t].top ELSE loc[t].level - 1
           p == IF loc[t].level = 0 THEN "rem_relock" ELSE "rem_lock"
           L == [loc[t] EXCEPT !.unl = {}, !.orph = {}, !.link = Nil, !.level = l]
<1>1. /\ pc[t] = "rem_repair" /\ UNCHANGED <<nodes, entry, entryLevel, height, handle, strayed>>
  BY DEF RemoveNextLevel
<1>2. /\ LocalsOK("rem_repair", loc[t], height) /\ loc[t] \in Locals
      /\ HeldOK("rem_repair", loc[t], held[t], height)
      /\ OwnsOK("rem_repair", loc[t], nodes, handle)
  BY <1>1, CallFacts
<1>3. /\ loc[t].level \in Int /\ loc[t].top \in Int /\ loc[t].level >= 0
      /\ loc[t].level <= loc[t].top /\ height \in Int /\ loc[t].top <= height
      /\ loc[t].e \in Elements
  BY <1>2, LevelFacts, LockSets DEF LocalsOK, RemovePcs
<1>4. l \in Levels /\ l <= loc[t].top /\ l \in Int
  BY <1>3, LevelFacts, GraphAssumption DEF Levels
<1>5. Set(t, L) /\ Goto(t, p)
  <2>1. CASE loc[t].level = 0
    <3>1. Set(t, [[loc[t] EXCEPT !.unl = {}, !.orph = {}, !.link = Nil]
                    EXCEPT !.level = loc[t].top]) /\ Goto(t, p)
      BY <2>1 DEF RemoveNextLevel
    <3> QED
      BY <1>2, <2>1, <3>1 DEF Locals
  <2>2. CASE loc[t].level # 0
    <3>1. Set(t, [[loc[t] EXCEPT !.unl = {}, !.orph = {}, !.link = Nil]
                    EXCEPT !.level = @ - 1]) /\ Goto(t, p)
      BY <2>2 DEF RemoveNextLevel
    <3> QED
      BY <1>2, <2>2, <3>1 DEF Locals
  <2> QED
    BY <2>1, <2>2
<1>6. /\ L \in Locals /\ L.e = loc[t].e /\ L.top = loc[t].top
      /\ L.elevel = loc[t].elevel /\ L.level = l
      /\ L.rlevel = loc[t].rlevel /\ L.newEp = loc[t].newEp /\ L.orph = {}
  <2> HIDE DEF l
  <2> QED
    BY <1>2, <1>4 DEF Locals
<1> HIDE DEF L
<1>7. LocalsOK(p, L, height)
  BY <1>2, <1>3, <1>4, <1>6 DEF LocalsOK, CreatedPcs, RemovePcs, InsertPcs, ShrinkPcs, KnnPcs
<1>8. /\ Holds(t) /\ held'[t][GraphLock] = held[t][GraphLock]
      /\ \A k \in Levels : held'[t][k] \in {held[t][k], "none"}
      /\ HeldOK(p, L, held'[t], height)
  <2>1. CASE loc[t].level = 0
    <3>1. /\ Holds(t) /\ held'[t][GraphLock] = held[t][GraphLock]
          /\ \A k \in Levels : held'[t][k] = "none"
      BY <2>1, DropLevelsHolds DEF RemoveNextLevel
    <3>2. \A k \in (l + 1) .. loc[t].top : FALSE
      BY <1>3, <2>1
    <3> QED
      BY <1>2, <1>6, <2>1, <3>1, <3>2 DEF HeldOK, NoLockPcs, AbovePcs, RepairPcs
  <2>2. CASE loc[t].level # 0
    <3>1. /\ Holds(t) /\ held'[t] = held[t]
          /\ \A k \in Levels : held'[t][k] \in {held[t][k], "none"}
      BY <2>2, SameLocks, LockSets DEF RemoveNextLevel
    <3> QED
      BY <1>2, <1>3, <1>6, <2>2, <3>1, LockSets
      DEF HeldOK, NoLockPcs, AbovePcs, FromPcs, RepairPcs
  <2> QED
    BY <2>1, <2>2
<1>9. OwnsOK(p, L, nodes', handle)
  BY <1>1, <1>2, <1>6 DEF OwnsOK, CreatedPcs, RemovePcs, RepairPcs
<1>10. p \in Pcs /\ p \notin InsertPcs /\ pc[t] \in RemovePcs \ NoLockPcs
  BY <1>1 DEF Pcs, InsertPcs, RemovePcs, NoLockPcs
<1>11. nodes' \in [Levels -> LevelType] /\ Grows
  BY <1>1, SameNodes
<1> HIDE DEF p
<1> QED
  BY <1>1, <1>5, <1>6, <1>7, <1>8, <1>9, <1>10, <1>11, OwnStep

LEMMA RemoveRelockInv ==
  ASSUME GraphInv, NEW t \in Threads, RemoveRelock(t)
  PROVE  GraphInv'
<1> DEFINE l == loc[t].level
<1>1. /\ pc[t] = "rem_relock" /\ CanShare(t, l) /\ HoldAlso(t, l, "S")
      /\ IF l = 0 THEN Goto(t, "rem_drop") /\ UNCHANGED loc
         ELSE UNCHANGED pc /\ Set(t, [loc[t] EXCEPT !.level = l - 1])
      /\ UNCHANGED <<nodes, entry, entryLevel, height, handle, strayed>>
  BY DEF RemoveRelock
<1>2. /\ LocalsOK("rem_relock", loc[t], height) /\ loc[t] \in Locals
      /\ HeldOK("rem_relock", loc[t], held[t], height)
      /\ OwnsOK("rem_relock", loc[t], nodes, handle)
  BY <1>1, CallFacts
<1>3. /\ l \in Int /\ loc[t].top \in Int /\ l >= 0 /\ l \in Levels
      /\ l <= loc[t].top /\ height \in Int /\ loc[t].top <= height /\ l <= height
      /\ loc[t].e \in Elements
  BY <1>2, LevelFacts, LockSets DEF LocalsOK, RemovePcs
<1>4. /\ Holds(t) /\ held'[t][l] = "S"
      /\ \A j \in Locks \ {l} : held'[t][j] = held[t][j]
  BY <1>1, <1>3, HoldAlsoHolds, LockSets DEF Modes
<1>5. held'[t][GraphLock] = held[t][GraphLock]
      /\ \A j \in Levels : held'[t][j] = IF j = l THEN "S" ELSE held[t][j]
  BY <1>3, <1>4, LockSets
<1>6. nodes' \in [Levels -> LevelType] /\ Grows
  BY <1>1, SameNodes
<1>7. pc[t] \in RemovePcs \ NoLockPcs
  BY <1>1 DEF RemovePcs, NoLockPcs
<1>8. \A k \in l .. loc[t].top : k \in Levels /\ held'[t][k] # "none"
  <2>1. l .. loc[t].top \subseteq Levels
    BY <1>3, LevelFacts, GraphAssumption DEF Levels
  <2> QED
    BY <1>2, <1>3, <1>5, <2>1 DEF HeldOK
<1>9. CASE l = 0
  <2>1. Goto(t, "rem_drop") /\ Set(t, loc[t])
    BY <1>1, <1>9 DEF Set, GraphInv, TypeOK
  <2>2. LocalsOK("rem_drop", loc[t], height)
    BY <1>2 DEF LocalsOK, CreatedPcs, RemovePcs, InsertPcs, ShrinkPcs, KnnPcs
  <2>3. HeldOK("rem_drop", loc[t], held'[t], height)
    BY <1>2, <1>3, <1>5, <1>8, <1>9 DEF HeldOK, NoLockPcs, AbovePcs, FromPcs, RepairPcs
  <2>4. OwnsOK("rem_drop", loc[t], nodes', handle)
    BY <1>1, <1>2, <1>9 DEF OwnsOK, CreatedPcs, RemovePcs, RepairPcs
  <2>5. "rem_drop" \in Pcs /\ "rem_drop" \notin InsertPcs
    BY DEF Pcs, InsertPcs, RemovePcs
  <2> QED
    BY <1>1, <1>2, <1>4, <1>5, <1>6, <1>7, <2>1, <2>2, <2>3, <2>4, <2>5, OwnStep
<1>10. CASE l # 0
  <2> DEFINE L == [loc[t] EXCEPT !.level = l - 1]
  <2>1. l - 1 \in Levels
    BY <1>3, <1>10, GraphAssumption DEF Levels
  <2>2. /\ L \in Locals /\ L.e = loc[t].e /\ L.top = loc[t].top
        /\ L.level = l - 1 /\ L.elevel = loc[t].elevel
        /\ L.newEp = loc[t].newEp /\ L.rlevel = loc[t].rlevel
        /\ L.orph = loc[t].orph
    BY <2>1, NewLevel
  <2>3. Goto(t, "rem_relock") /\ Set(t, L)
    BY <1>1, <1>10 DEF Goto, GraphInv, TypeOK
  <2> HIDE DEF L
  <2>4. LocalsOK("rem_relock", L, height)
    BY <1>2, <1>3, <2>2 DEF LocalsOK, CreatedPcs, RemovePcs, InsertPcs, ShrinkPcs, KnnPcs
  <2>5. HeldOK("rem_relock", L, held'[t], height)
    BY <1>2, <1>3, <1>5, <1>8, <2>2, LockSets
    DEF HeldOK, NoLockPcs, AbovePcs, FromPcs, RepairPcs
  <2>6. OwnsOK("rem_relock", L, nodes', handle)
    BY <1>1, <1>2, <2>2 DEF OwnsOK, CreatedPcs, RemovePcs, RepairPcs
  <2>7. "rem_relock" \in Pcs /\ "rem_relock" \notin InsertPcs
    BY DEF Pcs, InsertPcs, RemovePcs
  <2> QED
    BY <1>1, <1>4, <1>5, <1>6, <1>7, <2>2, <2>3, <2>4, <2>5, <2>6, <2>7, OwnStep
<1> QED
  BY <1>9, <1>10

LEMMA RemoveDropInv ==
  ASSUME GraphInv, NEW t \in Threads, RemoveDrop(t)
  PROVE  GraphInv'
<1> DEFINE l == loc[t].level
           e == loc[t].e
           p == IF l = loc[t].top THEN "rem_done" ELSE "rem_drop"
<1>1. /\ pc[t] = "rem_drop"
      /\ nodes' = [k \in Levels |->
           IF k = l THEN [nodes[k] EXCEPT ![e] = FreeNode]
           ELSE IF k = l + 1 /\ l < loc[t].top
                THEN [nodes[k] EXCEPT ![e].lower = FALSE]
           ELSE nodes[k]]
      /\ IF l = loc[t].top THEN Goto(t, "rem_done") /\ UNCHANGED loc
         ELSE UNCHANGED pc /\ Set(t, [loc[t] EXCEPT !.level = l + 1])
      /\ UNCHANGED <<entry, entryLevel, height, held, handle, strayed>>
  BY DEF RemoveDrop
<1>2. /\ LocalsOK("rem_drop", loc[t], height) /\ loc[t] \in Locals
      /\ HeldOK("rem_drop", loc[t], held[t], height)
      /\ OwnsOK("rem_drop", loc[t], nodes, handle)
      /\ EntryOK("rem_drop", loc[t], held[t], entry, entryLevel)
  BY <1>1, CallFacts
<1>3. /\ l \in Int /\ loc[t].top \in Int /\ l >= 0 /\ l \in Levels
      /\ l <= loc[t].top /\ height \in Int /\ loc[t].top <= height /\ l <= height
      /\ e \in Elements
  BY <1>2, LevelFacts, LockSets DEF LocalsOK, RemovePcs
<1>4. PICK L \in Locals : /\ Set(t, L) /\ Goto(t, p)
                          /\ L.e = e /\ L.top = loc[t].top
                          /\ L.elevel = loc[t].elevel /\ L.newEp = loc[t].newEp
                          /\ L.rlevel = loc[t].rlevel
                          /\ l < loc[t].top => L.level = l + 1
                          /\ l = loc[t].top => L.level = l
  <2>1. CASE l = loc[t].top
    <3>1. Set(t, loc[t])
      BY <1>1, <2>1 DEF Set, GraphInv, TypeOK
    <3> QED
      BY <1>1, <1>2, <1>3, <2>1, <3>1
  <2>2. CASE l # loc[t].top
    <3> DEFINE L == [loc[t] EXCEPT !.level = l + 1]
    <3>1. l + 1 \in Levels
      BY <1>3, <2>2, LevelFacts, GraphAssumption DEF Levels
    <3>2. /\ L \in Locals /\ L.e = loc[t].e /\ L.top = loc[t].top
          /\ L.level = l + 1 /\ L.elevel = loc[t].elevel
          /\ L.newEp = loc[t].newEp /\ L.rlevel = loc[t].rlevel
      BY <3>1, NewLevel
    <3>3. Goto(t, "rem_drop") /\ Set(t, L)
      BY <1>1, <2>2 DEF Goto, GraphInv, TypeOK
    <3> HIDE DEF L
    <3> QED
      BY <2>2, <3>2, <3>3
  <2> QED
    BY <2>1, <2>2
<1>5. L.level \in Int /\ L.level <= L.top
  BY <1>3, <1>4
<1>6. LocalsOK(p, L, height)
  BY <1>2, <1>3, <1>4, <1>5 DEF LocalsOK, CreatedPcs, RemovePcs, InsertPcs, ShrinkPcs, KnnPcs
<1>7. /\ Holds(t) /\ held'[t] = held[t]
      /\ \A k \in Locks : held'[t][k] \in {held[t][k], "none"}
  BY <1>1, SameLocks
<1>8. HeldOK(p, L, held'[t], height)
  BY <1>2, <1>4, <1>7 DEF HeldOK, NoLockPcs, AbovePcs, FromPcs, RepairPcs
<1>9. p \in Pcs
  BY DEF Pcs, RemovePcs
<1>10. height' = height /\ height' \in Levels /\ height' >= height
  BY <1>1, LevelFacts, LockSets
<1>11. Moves(t) /\ pc'[t] = p /\ loc'[t] = L
  <2> HIDE DEF p
  <2> QED
    BY <1>4, <1>6, <1>7, <1>8, <1>9, <1>10, MovesTo
<1>12. ASSUME NEW k \in Levels
       PROVE  /\ nodes'[k] \in LevelType
              /\ \A x \in Elements \ {e} : Exists(nodes[k], x) => Exists(nodes'[k], x)
              /\ k # l /\ Exists(nodes[k], e) => Exists(nodes'[k], e)
  <2>1. nodes[k] \in LevelType
    BY LevelFacts
  <2>2. CASE k = l
    <3>1. nodes'[k] = [nodes[k] EXCEPT ![e] = FreeNode]
      BY <1>1, <2>2
    <3> QED
      BY <1>3, <2>1, <2>2, <3>1 DEF LevelType, Exists
  <2>3. CASE k = l + 1 /\ l < loc[t].top
    <3>1. nodes'[k] = [nodes[k] EXCEPT ![e].lower = FALSE] /\ k # l
      BY <1>1, <1>3, <2>3
    <3>2. Exists(nodes[k], e)
      BY <1>2, <1>3, <2>3 DEF OwnsOK, ChainFrom
    <3>3. nodes[k][e] \in NodeRec
      BY <1>3, <2>1, <3>2, NodeOfLevel
    <3> DEFINE rec == [nodes[k][e] EXCEPT !.lower = FALSE]
    <3>4. rec \in NodeRec
      BY <3>3 DEF NodeRec
    <3>5. nodes'[k] = [nodes[k] EXCEPT ![e] = rec]
      BY <3>1
    <3> HIDE DEF rec
    <3>6. rec # FreeNode
      BY <3>4, NodeAssumption
    <3> QED
      BY <1>3, <2>1, <3>1, <3>4, <3>5, <3>6 DEF LevelType, Exists
  <2>4. CASE k # l /\ ~(k = l + 1 /\ l < loc[t].top)
    BY <1>1, <2>1, <2>4
  <2> QED
    BY <2>2, <2>3, <2>4
<1>13. nodes' \in [Levels -> LevelType]
  <2>1. nodes' = [k \in Levels |-> nodes'[k]]
    BY <1>1
  <2> QED
    BY <1>12, <2>1
<1>14. held[t][l] # "none"
  BY <1>2, <1>3 DEF HeldOK
<1>15. OwnsOK(p, L, nodes', handle)
  <2>1. CASE l = loc[t].top
    BY <1>2, <1>4, <2>1 DEF OwnsOK, CreatedPcs, RemovePcs, RepairPcs
  <2>2. CASE l # loc[t].top
    <3>1. ASSUME NEW k \in (l + 1) .. loc[t].top
          PROVE  Exists(nodes'[k], e)
      <4>1. k \in Levels /\ k # l /\ k \in l .. loc[t].top
        BY <1>3, LevelFacts, GraphAssumption DEF Levels
      <4> QED
        BY <1>2, <1>12, <4>1 DEF OwnsOK, ChainFrom
    <3> QED
      BY <1>2, <1>3, <1>4, <2>2, <3>1 DEF OwnsOK, CreatedPcs, RemovePcs, RepairPcs, ChainFrom
  <2> QED
    BY <2>1, <2>2
<1>16. Keeps(t)
  <2>1. /\ handle' = handle /\ handle \in [Elements -> Levels \cup {NoLevel}]
        /\ \A x \in Elements : handle[x] <= height
    BY <1>1 DEF GraphInv, TypeOK, IndexOK
  <2>2. \A k \in Levels, x \in Elements :
          held[t][k] = "none" /\ Exists(nodes[k], x) => Exists(nodes'[k], x)
    BY <1>12, <1>14
  <2>3. FreshOK(p, L, handle)
    BY DEF FreshOK, InsertPcs
  <2> QED
    BY <2>3, <1>3, <1>4, <1>10, <1>11, <1>12, <1>13, <1>15, <2>1, <2>2, GraphAssumption DEF Keeps
<1>17. Enters(t)
  <2>1. EntryOK(p, L, held'[t], entry, entryLevel)
    BY <1>2, <1>4, <1>7 DEF EntryOK, InsertPcs, RemovePcs
  <2>2. /\ entry \in Elements \cup {Nil} /\ entryLevel \in Levels /\ entryLevel <= height
        /\ strayed \in BOOLEAN
    BY DEF GraphInv, TypeOK, IndexOK
  <2> QED
    BY <1>1, <1>10, <1>11, <2>1, <2>2 DEF Enters
<1> QED
  BY <1>11, <1>16, <1>17, StepTogether

LEMMA RemoveReturnInv ==
  ASSUME GraphInv, NEW t \in Threads, RemoveReturn(t)
  PROVE  GraphInv'
<1> DEFINE r == IF loc[t].repl = Nil THEN 0 ELSE loc[t].rlevel
<1>1. /\ pc[t] = "rem_done" /\ Return(t) /\ UNCHANGED <<nodes, height>>
      /\ handle' = [handle EXCEPT ![loc[t].e] = NoLevel]
      /\ IF loc[t].newEp THEN SetEntryPoint(loc[t].repl, r)
                         ELSE UNCHANGED <<entry, entryLevel>>
      /\ strayed' \in BOOLEAN
  BY DEF RemoveReturn
<1>2. /\ LocalsOK("rem_done", loc[t], height)
      /\ EntryOK("rem_done", loc[t], held[t], entry, entryLevel)
  BY <1>1, CallFacts
<1>3. /\ loc[t].e \in Elements /\ loc[t].repl \in Elements \cup {Nil}
      /\ r \in Levels /\ r <= height
  BY <1>2, LevelFacts, CandType, LockSets DEF LocalsOK, RemovePcs
<1>4. /\ handle \in [Elements -> Levels \cup {NoLevel}]
      /\ \A e \in Elements : handle[e] <= height
      /\ entry \in Elements \cup {Nil} /\ entryLevel \in Levels /\ entryLevel <= height
      /\ strayed \in BOOLEAN
  BY DEF GraphInv, TypeOK, IndexOK
<1>5. /\ entry' \in Elements \cup {Nil} /\ entryLevel' \in Levels
      /\ entryLevel' <= height
      /\ UNCHANGED <<entry, entryLevel>> \/ held[t][GraphLock] = "X"
  <2> HIDE DEF r
  <2> QED
    BY <1>1, <1>2, <1>3, <1>4 DEF SetEntryPoint, EntryOK
<1>6. /\ handle' \in [Elements -> Levels \cup {NoLevel}]
      /\ \A e \in Elements : handle'[e] = IF e = loc[t].e THEN NoLevel ELSE handle[e]
  BY <1>1, <1>3, <1>4
<1>7. NoLevel <= height
  BY LevelFacts, LockSets DEF NoLevel
<1> QED
  BY <1>1, <1>3, <1>4, <1>5, <1>6, <1>7, ReturnStep

-------------------------------------------------------------------------------
(* search_knn, mark_delete and failing calls.                              *)

LEMMA KnnCallInv ==
  ASSUME GraphInv, NEW t \in Threads, KnnCall(t)
  PROVE  GraphInv'
<1> DEFINE L == [NoLocals EXCEPT !.cand = {entry}, !.level = entryLevel,
                                 !.elevel = entryLevel]
<1>1. /\ pc[t] = "idle" /\ CanShare(t, GraphLock) /\ entry # Nil
      /\ Set(t, L) /\ Goto(t, "knn_lock") /\ HoldAlso(t, GraphLock, "S")
      /\ UNCHANGED <<nodes, entry, entryLevel, height, handle, strayed>>
  BY DEF KnnCall
<1>2. /\ {entry} \in SUBSET Elements /\ entryLevel \in Levels /\ height \in Levels
      /\ entryLevel <= height /\ height \in Int /\ height >= 0
  BY <1>1, LevelFacts, LockSets DEF GraphInv, TypeOK
<1>3. /\ L \in Locals /\ L.e = Nil /\ L.top = 0 /\ L.elevel = entryLevel
      /\ L.level = entryLevel /\ L.rlevel = 0 /\ ~L.newEp
  BY <1>2, LockSets DEF NoLocals, Locals
<1> HIDE DEF L
<1>4. loc[t].e = Nil /\ "knn_lock" \in Pcs
  BY <1>1, CallFacts DEF LocalsOK, Pcs, KnnPcs
<1>5. LocalsOK("knn_lock", L, height)
  BY <1>2, <1>3 DEF LocalsOK, CreatedPcs, RemovePcs, InsertPcs, ShrinkPcs, KnnPcs
<1>6. \A k \in Levels : held[t][k] = "none"
  BY <1>1, CallFacts DEF HeldOK, NoLockPcs
<1>7. /\ Holds(t) /\ held'[t][GraphLock] = "S"
      /\ \A j \in Locks \ {GraphLock} : held'[t][j] = held[t][j]
  BY <1>1, HoldAlsoHolds, LockSets DEF Modes
<1>8. HeldOK("knn_lock", L, held'[t], height)
  BY <1>6, <1>7, LockSets DEF HeldOK, NoLockPcs, RepairPcs
<1>9. \A k \in Locks : \/ held'[t][k] \in {held[t][k], "none"}
                       \/ held'[t][k] = "S" /\ CanShare(t, k)
  BY <1>1, <1>7
<1>10. OwnsOK("knn_lock", L, nodes', handle) /\ FreshOK("knn_lock", L, handle)
  BY DEF OwnsOK, FreshOK, InsertPcs, CreatedPcs, RemovePcs, RepairPcs
<1>11. EntryOK("knn_lock", L, held'[t], entry, entryLevel)
  BY <1>3 DEF EntryOK
<1>12. height' \in Levels /\ height' >= height /\ height' = height
  BY <1>1, <1>2
<1>13. nodes' \in [Levels -> LevelType] /\ Grows
  BY <1>1, SameNodes
<1> QED
  BY <1>1, <1>3, <1>4, <1>5, <1>7, <1>8, <1>9, <1>10, <1>11, <1>12, <1>13, CallStep

\* A search owns nothing: a step of it only has to hold the right locks.
LEMMA KnnStepInv ==
  ASSUME GraphInv, NEW t \in Threads, NEW p \in {"knn_search", "knn_descend"},
         NEW L \in Locals, Goto(t, p), Set(t, L), pc[t] \in KnnPcs, Holds(t),
         L.e = loc[t].e, L.top = loc[t].top, L.newEp = loc[t].newEp,
         L.elevel = loc[t].elevel, L.rlevel = loc[t].rlevel,
         L.level <= loc[t].level, p = "knn_descend" => L.level > 0,
         held'[t][GraphLock] = held[t][GraphLock],
         \A k \in Levels :
           \/ held'[t][k] \in {held[t][k], "none"}
           \/ held'[t][k] = "S" /\ CanShare(t, k),
         \A k \in Levels : held'[t][k] # "none" => k >= L.level /\ k <= height,
         UNCHANGED <<nodes, entry, entryLevel, height, handle, strayed>>
  PROVE  GraphInv'
<1>1. /\ LocalsOK(pc[t], loc[t], height)
      /\ HeldOK(pc[t], loc[t], held[t], height)
  BY CallFacts
<1>2. L.level \in Int /\ loc[t].level \in Int /\ height \in Int
  BY LevelFacts, LockSets DEF Locals
<1>3. LocalsOK(p, L, height)
  BY <1>1, <1>2 DEF LocalsOK, CreatedPcs, RemovePcs, InsertPcs, ShrinkPcs, KnnPcs
<1>4. HeldOK(p, L, held'[t], height)
  BY <1>1 DEF HeldOK, NoLockPcs, AbovePcs, FromPcs, RepairPcs, KnnPcs
<1>5. OwnsOK(p, L, nodes', handle)
  BY DEF OwnsOK, CreatedPcs, RemovePcs, RepairPcs
<1>6. p \in Pcs /\ p \notin InsertPcs /\ p \notin RemovePcs
  BY DEF Pcs, InsertPcs, RemovePcs, KnnPcs
<1>7. nodes' \in [Levels -> LevelType] /\ Grows
  BY SameNodes
<1> QED
  BY <1>3, <1>4, <1>5, <1>6, <1>7, OwnStep

LEMMA KnnLockInv ==
  ASSUME GraphInv, NEW t \in Threads, KnnLock(t)
  PROVE  GraphInv'
<1> DEFINE l == loc[t].level
<1>1. /\ pc[t] = "knn_lock" /\ CanShare(t, l) /\ HoldOnly(t, l, "S")
      /\ Goto(t, "knn_search")
      /\ UNCHANGED <<nodes, entry, entryLevel, height, loc, handle, strayed>>
  BY DEF KnnLock
<1>2. LocalsOK("knn_lock", loc[t], height) /\ loc[t] \in Locals
  BY <1>1, CallFacts
<1>3. l \in Levels /\ l \in Int /\ l <= height
  BY <1>2, LevelFacts, LockSets DEF LocalsOK
<1>4. /\ Holds(t) /\ held'[t][GraphLock] = held[t][GraphLock]
      /\ \A j \in Levels : held'[t][j] = IF j = l THEN "S" ELSE "none"
  BY <1>1, <1>3, HoldOnlyHolds DEF Modes
<1>5. Set(t, loc[t]) /\ pc[t] \in KnnPcs
  BY <1>1 DEF Set, GraphInv, TypeOK, KnnPcs
<1> QED
  BY <1>1, <1>2, <1>3, <1>4, <1>5, KnnStepInv

LEMMA KnnSearchInv ==
  ASSUME GraphInv, NEW t \in Threads, KnnSearch(t)
  PROVE  GraphInv'
<1>1. PICK W \in SearchResults(t, loc[t].cand, {}, GREEDY_DESCENT_EF) :
        Set(t, [loc[t] EXCEPT !.cand = W])
  BY DEF KnnSearch, Narrow
<1>2. /\ pc[t] = "knn_search" /\ loc[t].level > 0 /\ Goto(t, "knn_descend")
      /\ UNCHANGED <<nodes, entry, entryLevel, height, held, handle, strayed>>
  BY DEF KnnSearch
<1>3. W \in SUBSET Elements
  BY <1>1, CandType, SearchResultsLive
<1> DEFINE L == [loc[t] EXCEPT !.cand = W]
<1>4. /\ L \in Locals /\ L.e = loc[t].e /\ L.top = loc[t].top
      /\ L.level = loc[t].level /\ L.elevel = loc[t].elevel
      /\ L.newEp = loc[t].newEp /\ L.rlevel = loc[t].rlevel
  BY <1>3, NewCand
<1>5. Set(t, L)
  BY <1>1
<1> HIDE DEF L
<1>6. HeldOK("knn_search", loc[t], held[t], height)
  BY <1>2, CallFacts
<1>7. \A k \in Levels : held[t][k] # "none" => k >= loc[t].level /\ k <= height
  BY <1>6 DEF HeldOK, FromPcs
<1>8. /\ Holds(t) /\ held'[t] = held[t]
      /\ \A k \in Levels : held'[t][k] \in {held[t][k], "none"}
  BY <1>2, SameLocks, LockSets
<1>9. pc[t] \in KnnPcs /\ loc[t].level \in Int
  BY <1>2, LevelFacts, LockSets DEF KnnPcs
<1> QED
  BY <1>2, <1>4, <1>5, <1>7, <1>8, <1>9, KnnStepInv

LEMMA KnnDescendInv ==
  ASSUME GraphInv, NEW t \in Threads, KnnDescend(t)
  PROVE  GraphInv'
<1> DEFINE l == loc[t].level - 1
           L == [loc[t] EXCEPT !.level = l]
<1>1. /\ pc[t] = "knn_descend" /\ CanShare(t, l) /\ HoldOnly(t, l, "S")
      /\ Goto(t, "knn_search") /\ Set(t, L)
      /\ UNCHANGED <<nodes, entry, entryLevel, height, handle, strayed>>
  BY DEF KnnDescend
<1>2. LocalsOK("knn_descend", loc[t], height)
  BY <1>1, CallFacts
<1>3. /\ l \in Levels /\ l \in Int /\ l <= height /\ loc[t].level \in Int
      /\ l <= loc[t].level
  BY <1>2, LevelFacts, GraphAssumption DEF LocalsOK, Levels
<1>4. /\ L \in Locals /\ L.e = loc[t].e /\ L.top = loc[t].top
      /\ L.level = l /\ L.elevel = loc[t].elevel
      /\ L.newEp = loc[t].newEp /\ L.rlevel = loc[t].rlevel
  BY <1>3, NewLevel
<1> HIDE DEF L
<1>5. /\ Holds(t) /\ held'[t][GraphLock] = held[t][GraphLock]
      /\ \A j \in Levels : held'[t][j] = IF j = l THEN "S" ELSE "none"
  BY <1>1, <1>3, HoldOnlyHolds DEF Modes
<1>6. pc[t] \in KnnPcs
  BY <1>1 DEF KnnPcs
<1>7. \A k \in Levels : held'[t][k] # "none" => k >= l /\ k <= height
  BY <1>3, <1>5
<1>8. \A k \in Levels : \/ held'[t][k] \in {held[t][k], "none"}
                        \/ held'[t][k] = "S" /\ CanShare(t, k)
  BY <1>1, <1>5
<1> QED
  BY <1>1, <1>3, <1>4, <1>5, <1>6, <1>7, <1>8, KnnStepInv

\* A call that returns and leaves the nodes, the entry point and the handles.
LEMMA PlainReturn ==
  ASSUME GraphInv, NEW t \in Threads, Return(t), pc[t] \notin RemovePcs,
         UNCHANGED <<nodes, entry, entryLevel, height, handle, strayed>>,
         loc[t].e \in Elements /\ handle[loc[t].e] # NoLevel =>
           ChainFrom(nodes, loc[t].e, 0, handle[loc[t].e])
  PROVE  GraphInv'
<1>1. /\ handle \in [Elements -> Levels \cup {NoLevel}]
      /\ \A e \in Elements : handle[e] <= height
      /\ entry \in Elements \cup {Nil} /\ entryLevel \in Levels /\ entryLevel <= height
      /\ strayed \in BOOLEAN
  BY DEF GraphInv, TypeOK, IndexOK
<1>2. loc[t].e \in Elements \cup {Nil}
  BY CallFacts DEF Locals
<1> QED
  BY <1>1, <1>2, ReturnStep

LEMMA KnnReturnInv ==
  ASSUME GraphInv, NEW t \in Threads, KnnReturn(t)
  PROVE  GraphInv'
<1>1. /\ pc[t] = "knn_search" /\ Return(t)
      /\ UNCHANGED <<nodes, entry, entryLevel, height, handle, strayed>>
  BY DEF KnnReturn
<1>2. loc[t].e = Nil /\ pc[t] \notin RemovePcs
  BY <1>1, CallFacts DEF LocalsOK, KnnPcs, RemovePcs
<1> QED
  BY <1>1, <1>2, PlainReturn, GraphAssumption

LEMMA MarkCallInv ==
  ASSUME GraphInv, NEW t \in Threads, NEW e \in Elements, NEW mark \in BOOLEAN,
         MarkCall(t, e, mark)
  PROVE  GraphInv'
<1> DEFINE h == handle[e]
           L == [NoLocals EXCEPT !.e = e, !.level = h, !.mark = mark]
<1>1. /\ pc[t] = "idle" /\ Unused(e) /\ h # NoLevel /\ CanShare(t, GraphLock)
      /\ Set(t, L) /\ Goto(t, "mark_lock") /\ HoldAlso(t, GraphLock, "S")
      /\ UNCHANGED <<nodes, entry, entryLevel, height, handle, strayed>>
  BY DEF MarkCall
<1>2. h \in Levels /\ h <= height /\ height \in Levels /\ height \in Int /\ height >= 0
      /\ h \in Int
  BY <1>1, LevelFacts, LockSets DEF GraphInv, TypeOK, IndexOK
<1>3. /\ L \in Locals /\ L.e = e /\ L.top = 0 /\ L.elevel = 0 /\ L.level = h
      /\ L.rlevel = 0 /\ ~L.newEp
  <2> HIDE DEF h
  <2> QED
    BY <1>2, LockSets DEF NoLocals, Locals
<1>4. loc[t].e = Nil /\ "mark_lock" \in Pcs
  BY <1>1, CallFacts DEF LocalsOK, Pcs
<1> HIDE DEF L
<1>5. LocalsOK("mark_lock", L, height)
  BY <1>2, <1>3 DEF LocalsOK, CreatedPcs, RemovePcs, InsertPcs, ShrinkPcs, KnnPcs
<1>6. \A k \in Levels : held[t][k] = "none"
  BY <1>1, CallFacts DEF HeldOK, NoLockPcs
<1>7. /\ Holds(t) /\ held'[t][GraphLock] = "S"
      /\ \A j \in Locks \ {GraphLock} : held'[t][j] = held[t][j]
  BY <1>1, HoldAlsoHolds, LockSets DEF Modes
<1>8. HeldOK("mark_lock", L, held'[t], height)
  BY <1>6, <1>7, LockSets DEF HeldOK, NoLockPcs, RepairPcs
<1>9. \A k \in Locks : \/ held'[t][k] \in {held[t][k], "none"}
                       \/ held'[t][k] = "S" /\ CanShare(t, k)
  BY <1>1, <1>7
<1>10. OwnsOK("mark_lock", L, nodes', handle) /\ FreshOK("mark_lock", L, handle)
  <2>1. ChainFrom(nodes, e, 0, h)
    BY <1>1 DEF GraphInv, IndexOK
  <2> QED
    BY <1>1, <1>2, <1>3, <2>1
    DEF OwnsOK, FreshOK, InsertPcs, CreatedPcs, RemovePcs, RepairPcs
<1>11. EntryOK("mark_lock", L, held'[t], entry, entryLevel)
  BY <1>3 DEF EntryOK
<1>12. height' \in Levels /\ height' >= height /\ height' = height
  BY <1>1, <1>2
<1>13. nodes' \in [Levels -> LevelType] /\ Grows
  BY <1>1, SameNodes
<1> QED
  BY <1>1, <1>3, <1>4, <1>5, <1>7, <1>8, <1>9, <1>10, <1>11, <1>12, <1>13, CallStep

LEMMA MarkLevelInv ==
  ASSUME GraphInv, NEW t \in Threads, MarkLevel(t)
  PROVE  GraphInv'
<1> DEFINE l == loc[t].level
           e == loc[t].e
           q == [At(t) EXCEPT ![e].marked = loc[t].mark]
<1>1. /\ pc[t] = "mark_lock" /\ CanShare(t, l) /\ WriteLevel(t, q)
      /\ IF l = 0 THEN Return(t)
         ELSE /\ UNCHANGED pc
              /\ Set(t, [loc[t] EXCEPT !.level = l - 1])
              /\ HoldOnly(t, l, "S")
      /\ UNCHANGED <<entry, entryLevel, height, handle, strayed>>
  BY DEF MarkLevel
<1>2. /\ LocalsOK("mark_lock", loc[t], height) /\ loc[t] \in Locals
      /\ HeldOK("mark_lock", loc[t], held[t], height)
      /\ OwnsOK("mark_lock", loc[t], nodes, handle)
  BY <1>1, CallFacts
<1>3. /\ l \in Levels /\ l \in Int /\ l >= 0 /\ e \in Elements /\ At(t) \in LevelType
      /\ l <= height /\ height \in Int
  BY <1>2, LevelFacts, LockSets DEF LocalsOK
<1>4. /\ l <= handle[e] /\ ChainFrom(nodes, e, 0, handle[e])
      /\ handle[e] \in Levels \cup {NoLevel}
  BY <1>2, <1>3 DEF OwnsOK, GraphInv, TypeOK
<1>5. handle[e] \in Levels /\ handle[e] \in Int /\ l \in 0 .. handle[e]
  BY <1>3, <1>4, LockSets DEF NoLevel
<1>6. Exists(At(t), e)
  BY <1>4, <1>5 DEF ChainFrom, At
<1>7. q \in LevelType /\ \A y \in Elements : Exists(At(t), y) => Exists(q, y)
  <2> DEFINE rec == [At(t)[e] EXCEPT !.marked = loc[t].mark]
  <2>1. loc[t].mark \in BOOLEAN /\ At(t)[e] \in NodeRec
    BY <1>2, <1>3, <1>6, NodeOfLevel DEF Locals
  <2>2. rec \in NodeRec
    BY <2>1 DEF NodeRec
  <2>3. q = [At(t) EXCEPT ![e] = rec]
    OBVIOUS
  <2> HIDE DEF rec, q
  <2>4. rec # FreeNode
    BY <2>2, NodeAssumption
  <2> QED
    BY <1>3, <2>2, <2>3, <2>4 DEF LevelType, Exists
<1> HIDE DEF q
<1>8. nodes' \in [Levels -> LevelType] /\ Grows
  BY <1>1, <1>7, WriteLevelGrows
<1>9. OwnsOK("mark_lock", loc[t], nodes', handle)
  BY <1>2, <1>3, <1>8, OwnsGrows
<1>10. CASE l # 0
  <2> DEFINE L == [loc[t] EXCEPT !.level = l - 1]
  <2>1. l - 1 \in Levels /\ l - 1 \in Int
    BY <1>3, <1>10, GraphAssumption DEF Levels
  <2>2. /\ L \in Locals /\ L.e = loc[t].e /\ L.top = loc[t].top
        /\ L.level = l - 1 /\ L.elevel = loc[t].elevel
        /\ L.newEp = loc[t].newEp /\ L.rlevel = loc[t].rlevel
    BY <2>1, NewLevel
  <2>3. Goto(t, "mark_lock") /\ Set(t, L) /\ HoldOnly(t, l, "S")
    BY <1>1, <1>10 DEF Goto, GraphInv, TypeOK
  <2> HIDE DEF L
  <2>4. /\ Holds(t) /\ held'[t][GraphLock] = held[t][GraphLock]
        /\ \A j \in Levels : held'[t][j] = IF j = l THEN "S" ELSE "none"
    BY <1>3, <2>3, HoldOnlyHolds DEF Modes
  <2>5. LocalsOK("mark_lock", L, height)
    BY <1>2, <1>3, <2>1, <2>2
    DEF LocalsOK, CreatedPcs, RemovePcs, InsertPcs, ShrinkPcs, KnnPcs
  <2>6. HeldOK("mark_lock", L, held'[t], height)
    BY <1>2, <1>3, <2>2, <2>4, LockSets
    DEF HeldOK, NoLockPcs, AbovePcs, FromPcs, RepairPcs
  <2>7. OwnsOK("mark_lock", L, nodes', handle)
    BY <1>3, <1>5, <1>9, <2>2 DEF OwnsOK, CreatedPcs, RemovePcs, RepairPcs
  <2>8. "mark_lock" \in Pcs /\ "mark_lock" \notin InsertPcs
        /\ "mark_lock" \notin RemovePcs
    BY DEF Pcs, InsertPcs, RemovePcs
  <2> QED
    BY <1>1, <1>8, <2>2, <2>3, <2>4, <2>5, <2>6, <2>7, <2>8, OwnStep
<1>11. CASE l = 0
  <2>1. Return(t)
    BY <1>1, <1>11
  <2>2. /\ Moves(t) /\ pc'[t] = "idle" /\ loc'[t] = NoLocals /\ held'[t] = NoLocks
    BY <1>1, <2>1, ReturnMoves
  <2>3. NoLocals.e = Nil /\ ~NoLocals.newEp
    BY DEF NoLocals
  <2>4. OwnsOK("idle", NoLocals, nodes', handle') /\ FreshOK("idle", NoLocals, handle')
    BY DEF OwnsOK, FreshOK, InsertPcs, CreatedPcs, RemovePcs, RepairPcs
  <2>5. /\ handle' = handle /\ handle \in [Elements -> Levels \cup {NoLevel}]
        /\ \A x \in Elements : handle[x] <= height'
        /\ entry \in Elements \cup {Nil} /\ entryLevel \in Levels /\ entryLevel <= height'
        /\ strayed \in BOOLEAN
    BY <1>1 DEF GraphInv, TypeOK, IndexOK
  <2>6. ChainFrom(nodes', e, 0, handle[e])
    BY <1>9 DEF OwnsOK
  <2>7. Keeps(t)
    BY <1>8, <2>2, <2>3, <2>4, <2>5, <2>6 DEF Keeps, Grows
  <2>8. EntryOK("idle", NoLocals, NoLocks, entry, entryLevel)
    BY <2>3 DEF EntryOK
  <2>9. Enters(t)
    BY <1>1, <2>2, <2>5, <2>8 DEF Enters
  <2> QED
    BY <2>2, <2>7, <2>9, StepTogether
<1> QED
  BY <1>10, <1>11

LEMMA FailCallInv ==
  ASSUME GraphInv, NEW t \in Threads, FailCall(t)
  PROVE  GraphInv'
<1>1. /\ handle' = IF pc[t] \in RemovePcs
                   THEN [handle EXCEPT ![loc[t].e] = NoLevel] ELSE handle
      /\ Return(t)
      /\ UNCHANGED <<nodes, entry, entryLevel, height, strayed>>
  BY DEF FailCall
<1>2. /\ LocalsOK(pc[t], loc[t], height) /\ loc[t] \in Locals /\ pc[t] \in Pcs
      /\ OwnsOK(pc[t], loc[t], nodes, handle) /\ FreshOK(pc[t], loc[t], handle)
  BY CallFacts
<1>3. CASE pc[t] \in RemovePcs
  <2>1. /\ handle \in [Elements -> Levels \cup {NoLevel}]
        /\ \A e \in Elements : handle[e] <= height
        /\ entry \in Elements \cup {Nil} /\ entryLevel \in Levels /\ entryLevel <= height
        /\ NoLevel <= height /\ strayed \in BOOLEAN
    BY LevelFacts, LockSets DEF GraphInv, TypeOK, IndexOK, NoLevel
  <2>2. loc[t].e \in Elements
    BY <1>2, <1>3 DEF LocalsOK
  <2>3. /\ handle' \in [Elements -> Levels \cup {NoLevel}]
        /\ \A e \in Elements : handle'[e] = IF e = loc[t].e THEN NoLevel ELSE handle[e]
    BY <1>1, <1>3, <2>1, <2>2
  <2> QED
    BY <1>1, <2>1, <2>2, <2>3, ReturnStep
<1>4. CASE pc[t] \notin RemovePcs
  <2>1. loc[t].e \in Elements /\ handle[loc[t].e] # NoLevel =>
          ChainFrom(nodes, loc[t].e, 0, handle[loc[t].e])
    <3>1. CASE pc[t] \in InsertPcs
      BY <1>2, <3>1 DEF FreshOK
    <3>2. CASE pc[t] = "mark_lock"
      BY <1>2, <3>2 DEF OwnsOK
    <3>3. CASE pc[t] \in KnnPcs \cup {"idle"}
      BY <1>2, <3>3, GraphAssumption DEF LocalsOK
    <3> QED
      BY <1>2, <1>4, <3>1, <3>2, <3>3 DEF Pcs
  <2> QED
    BY <1>1, <1>4, <2>1, PlainReturn
<1> QED
  BY <1>3, <1>4

-------------------------------------------------------------------------------
(* The inductive invariant.                                                *)

LEMMA InitGraphInv == Init => GraphInv
<1> SUFFICES ASSUME Init PROVE GraphInv
  OBVIOUS
<1>1. /\ nodes = [l \in Levels |-> [e \in Elements |-> FreeNode]]
      /\ entry = Nil /\ entryLevel = 0 /\ height = 0
      /\ held = [t \in Threads |-> NoLocks] /\ pc = [t \in Threads |-> "idle"]
      /\ loc = [t \in Threads |-> NoLocals]
      /\ handle = [e \in Elements |-> NoLevel] /\ strayed = FALSE
  BY DEF Init
<1>2. NoLocks \in [Locks -> {"none", "S", "X"}] /\ "idle" \in Pcs
  BY DEF NoLocks, Pcs
<1>3. TypeOK
  BY <1>1, <1>2, NoLocalsType, LockSets DEF TypeOK
<1>4. CallsOK
  <2> SUFFICES ASSUME NEW t \in Threads
               PROVE  /\ LocalsOK("idle", NoLocals, 0)
                      /\ HeldOK("idle", NoLocals, NoLocks, 0)
                      /\ OwnsOK("idle", NoLocals, nodes, handle)
                      /\ FreshOK("idle", NoLocals, handle)
                      /\ EntryOK("idle", NoLocals, NoLocks, entry, entryLevel)
    BY <1>1 DEF CallsOK
  <2>1. LocalsOK("idle", NoLocals, 0)
    BY DEF LocalsOK, NoLocals, CreatedPcs, RemovePcs, InsertPcs, ShrinkPcs, KnnPcs
  <2>2. HeldOK("idle", NoLocals, NoLocks, 0)
    BY LockSets DEF HeldOK, NoLocks, NoLockPcs, RepairPcs
  <2>3. OwnsOK("idle", NoLocals, nodes, handle) /\ FreshOK("idle", NoLocals, handle)
    BY DEF OwnsOK, FreshOK, InsertPcs, CreatedPcs, RemovePcs, RepairPcs
  <2>4. EntryOK("idle", NoLocals, NoLocks, entry, entryLevel)
    BY DEF EntryOK, NoLocals
  <2> QED
    BY <2>1, <2>2, <2>3, <2>4
<1>5. OneCallEach
  BY <1>1 DEF OneCallEach, NoLocals
<1>6. LocksExclude
  BY <1>1 DEF LocksExclude, NoLocks
<1>7. IndexOK
  BY <1>1 DEF IndexOK, NoLevel
<1> QED
  BY <1>3, <1>4, <1>5, <1>6, <1>7 DEF GraphInv

LEMMA NextGraphInv ==
  ASSUME GraphInv, [Next]_vars
  PROVE  GraphInv'
<1>1. CASE UNCHANGED vars
  <2>1. UNCHANGED <<nodes, entry, entryLevel, height, held, pc, loc, handle, strayed>>
    BY <1>1 DEF vars
  <2> QED
    BY <2>1 DEF GraphInv, TypeOK, CallsOK, OneCallEach, LocksExclude, IndexOK, Unused
<1>2. CASE Next
  <2>1. PICK t \in Threads :
    \/ \E e \in Elements, top \in InsertLevels : InsertCall(t, e, top)
    \/ InsertStep(t)
    \/ \E e \in Elements : RemoveCall(t, e)
    \/ RemoveStep(t)
    \/ KnnCall(t)
    \/ KnnStep(t)
    \/ \E e \in Elements, mark \in BOOLEAN : MarkCall(t, e, mark)
    \/ MarkLevel(t)
    \/ ReadFails(t)
    \/ Fail(t)
    BY <1>2 DEF Next
  <2>2. CASE \E e \in Elements, top \in InsertLevels : InsertCall(t, e, top)
    BY <2>2, InsertCallInv, InsertLevelsType
  <2>3. CASE InsertStep(t)
    BY <2>3, InsertUpgradeInv, InsertLockInv, InsertSearchInv, InsertDescendInv,
       InsertCreateInv, InsertKeepInv, InsertLinkInv, InsertLinkBackInv,
       InsertConfirmInv, InsertShrinkInv, InsertReplaceInv, InsertReturnInv
    DEF InsertStep
  <2>4. CASE \E e \in Elements : RemoveCall(t, e)
    BY <2>4, RemoveCallInv
  <2>5. CASE RemoveStep(t)
    BY <2>5, RemoveUpgradeInv, RemoveUnlinkInv, RemoveSeedInv, RemoveRepairInv,
       RemoveShrinkInv, RemoveReplaceInv, RemoveNextLevelInv, RemoveRelockInv,
       RemoveDropInv, RemoveReturnInv
    DEF RemoveStep
  <2>6. CASE KnnCall(t)
    BY <2>6, KnnCallInv
  <2>7. CASE KnnStep(t)
    BY <2>7, KnnLockInv, KnnSearchInv, KnnDescendInv, KnnReturnInv DEF KnnStep
  <2>8. CASE \E e \in Elements, mark \in BOOLEAN : MarkCall(t, e, mark)
    BY <2>8, MarkCallInv
  <2>9. CASE MarkLevel(t)
    BY <2>9, MarkLevelInv
  <2>10. CASE ReadFails(t) \/ Fail(t)
    BY <2>10, FailCallInv DEF ReadFails, Fail
  <2> QED
    BY <2>1, <2>2, <2>3, <2>4, <2>5, <2>6, <2>7, <2>8, <2>9, <2>10
<1> QED
  BY <1>1, <1>2

LEMMA GraphInvHolds == Spec => []GraphInv
  BY InitGraphInv, NextGraphInv, PTL DEF Spec

-------------------------------------------------------------------------------
(* Theorems.                                                               *)

\* The state keeps its type whatever the threads, their interleaving and the
\* failures of reads and writes: no step of insert, remove, mark_delete or
\* search_knn evaluates the record of a node that has been freed.
THEOREM GraphTypeCorrect == Spec => []TypeOK
<1>1. GraphInv => TypeOK
  BY DEF GraphInv
<1> QED
  BY <1>1, GraphInvHolds, PTL

\* No call locks a level that ensure_levels has not created: insert creates the
\* levels under the exclusive graph lock before it locks the first of them, and
\* the entry level and the handles of other calls never exceed the height.
THEOREM LockedLevelsCreated == Spec => []LockedLevelsExist
<1>1. GraphInv => LockedLevelsExist
  BY DEF GraphInv, CallsOK, HeldOK, LockedLevelsExist
<1> QED
  BY <1>1, GraphInvHolds, PTL

\* How far down the lock hierarchy t waits.  Requests for the same lock wait for
\* each other only if one is shared and the other exclusive, and then the shared
\* one for the exclusive one; the level operation lock comes last.
Depth(t) ==
  IF WantsShared(t) # {} THEN 2 * (CHOOSE k \in WantsShared(t) : TRUE) + 3
  ELSE IF WantsExclusive(t) # {} THEN 2 * (CHOOSE k \in WantsExclusive(t) : TRUE) + 2
  ELSE IF pc[t] \in {"ins_replace", "rem_replace"} THEN 1
  ELSE 0

LEMMA WantsFacts ==
  ASSUME GraphInv, NEW t \in Threads
  PROVE  /\ WantsShared(t) # {} =>
              /\ pc[t] \notin NoLockPcs /\ pc[t] # "rem_lock"
              /\ WantsExclusive(t) = {}
              /\ \E k \in Levels : WantsShared(t) = {k}
         /\ WantsExclusive(t) # {} =>
              \E k \in Locks : WantsExclusive(t) = {k}
         /\ \A k \in WantsShared(t) :
              /\ k \in Levels
              /\ Depth(t) = 2 * k + 3
              /\ \A j \in Levels : held[t][j] # "none" => j > k
         /\ \A k \in WantsExclusive(t) :
              /\ k \in Locks
              /\ Depth(t) = 2 * k + 2
              /\ \A j \in Locks : held[t][j] # "none" => j > k
         /\ Depth(t) \in Nat
<1>1. /\ loc[t].level \in Levels /\ loc[t].level \in Int
      /\ HeldOK(pc[t], loc[t], held[t], height) /\ LocalsOK(pc[t], loc[t], height)
      /\ held[t] \in [Locks -> Modes]
  BY LevelFacts, CallFacts, LockSets
<1>2. GraphLock \in Int /\ \A j \in Levels : j \in Int /\ j < GraphLock
  BY GraphAssumption DEF Levels, GraphLock
<1>3. CASE pc[t] \in {"ins_lock", "rem_relock", "knn_lock", "mark_lock"}
  <2>1. WantsShared(t) = {loc[t].level} /\ WantsExclusive(t) = {}
    BY <1>1, <1>3 DEF WantsShared, WantsExclusive
  <2>2. \A j \in Levels : held[t][j] # "none" => j > loc[t].level
    BY <1>1, <1>3 DEF HeldOK, AbovePcs
  <2>3. Depth(t) = 2 * loc[t].level + 3
    BY <2>1 DEF Depth
  <2> QED
    BY <1>1, <1>3, <2>1, <2>2, <2>3, LockSets DEF NoLockPcs
<1>4. CASE pc[t] \in {"ins_descend", "ins_keep", "knn_descend"}
  <2>0. loc[t].level > 0
    BY <1>1, <1>4, LevelFacts, LockSets DEF LocalsOK
  <2>1. loc[t].level - 1 \in Levels
    BY <1>1, <2>0, GraphAssumption DEF Levels
  <2>2. WantsShared(t) = {loc[t].level - 1} /\ WantsExclusive(t) = {}
    BY <1>4, <2>1 DEF WantsShared, WantsExclusive
  <2>3. \A j \in Levels : held[t][j] # "none" => j > loc[t].level - 1
    BY <1>1, <1>2, <1>4 DEF HeldOK, FromPcs
  <2>4. Depth(t) = 2 * (loc[t].level - 1) + 3
    BY <2>2 DEF Depth
  <2> QED
    BY <1>1, <1>4, <2>0, <2>1, <2>2, <2>3, <2>4, LockSets DEF NoLockPcs
<1>5. CASE pc[t] \in {"ins_upgrade", "rem_upgrade"}
  <2>1. WantsShared(t) = {} /\ WantsExclusive(t) = {GraphLock}
    BY <1>5, LockSets DEF WantsShared, WantsExclusive
  <2>2. \A j \in Locks : held[t][j] = "none"
    BY <1>1, <1>5, LockSets DEF HeldOK, NoLockPcs
  <2>3. Depth(t) = 2 * GraphLock + 2
    BY <2>1 DEF Depth
  <2> QED
    BY <2>1, <2>2, <2>3, GraphAssumption, LockSets DEF GraphLock
<1>6. CASE pc[t] = "rem_lock"
  <2>1. WantsShared(t) = {} /\ WantsExclusive(t) = {loc[t].level}
    BY <1>1, <1>6, LockSets DEF WantsShared, WantsExclusive
  <2>2. \A j \in Locks : held[t][j] # "none" => j > loc[t].level
    BY <1>1, <1>2, <1>6, LockSets DEF HeldOK, AbovePcs
  <2>3. Depth(t) = 2 * loc[t].level + 2
    BY <2>1 DEF Depth
  <2> QED
    BY <1>1, <2>1, <2>2, <2>3, LockSets
<1>7. CASE pc[t] \notin {"ins_lock", "rem_relock", "knn_lock", "mark_lock", "ins_descend",
                         "ins_keep", "knn_descend", "ins_upgrade", "rem_upgrade", "rem_lock"}
  <2>1. WantsShared(t) = {} /\ WantsExclusive(t) = {}
    BY <1>7 DEF WantsShared, WantsExclusive
  <2> QED
    BY <2>1 DEF Depth
<1> QED
  BY <1>3, <1>4, <1>5, <1>6, <1>7

\* Who t waits for waits nearer the end of the lock hierarchy.
LEMMA WaitsForLess ==
  ASSUME GraphInv, NEW t \in Threads, NEW u \in Threads, WaitsFor(t, u)
  PROVE  Depth(u) < Depth(t)
<1>0. /\ Depth(u) \in Nat /\ Depth(t) \in Nat
      /\ \A k \in Levels : k \in Int /\ k >= 0 /\ k \in Locks
      /\ \A k \in Locks : k \in Int /\ k >= 0
  BY WantsFacts, LockSets, GraphAssumption DEF Locks, GraphLock
\* u holds lock k.
<1>1. ASSUME NEW k \in Locks, held[u][k] # "none"
      PROVE  Depth(u) < 2 * k + 2
  <2>1. CASE WantsShared(u) # {}
    <3>1. PICK j \in Levels : WantsShared(u) = {j}
      BY <2>1, WantsFacts
    <3>2. Depth(u) = 2 * j + 3 /\ \A i \in Levels : held[u][i] # "none" => i > j
      BY <3>1, WantsFacts
    <3>3. k > j
      BY <1>1, <3>1, <3>2, LockSets, GraphAssumption DEF Levels, GraphLock
    <3> QED
      BY <1>0, <3>1, <3>2, <3>3
  <2>2. CASE WantsExclusive(u) # {}
    <3>1. PICK j \in Locks : WantsExclusive(u) = {j}
      BY <2>2, WantsFacts
    <3>2. Depth(u) = 2 * j + 2 /\ k > j
      BY <1>1, <3>1, WantsFacts
    <3> QED
      BY <1>0, <3>1, <3>2
  <2>3. CASE WantsShared(u) = {} /\ WantsExclusive(u) = {}
    <3>1. Depth(u) \in {0, 1}
      BY <2>3 DEF Depth
    <3> QED
      BY <1>0, <3>1
  <2> QED
    BY <2>1, <2>2, <2>3
<1>2. CASE \E k \in WantsShared(t) : held[u][k] = "X" \/ k \in WantsExclusive(u)
  <2>1. PICK k \in WantsShared(t) : held[u][k] = "X" \/ k \in WantsExclusive(u)
    BY <1>2
  <2>2. k \in Levels /\ Depth(t) = 2 * k + 3
    BY <2>1, WantsFacts
  <2>3. CASE held[u][k] = "X"
    <3>1. Depth(u) < 2 * k + 2
      BY <1>0, <1>1, <2>2, <2>3
    <3> QED
      BY <1>0, <2>2, <3>1
  <2>4. CASE k \in WantsExclusive(u)
    <3>1. Depth(u) = 2 * k + 2
      BY <2>4, WantsFacts
    <3> QED
      BY <1>0, <2>2, <3>1
  <2> QED
    BY <2>1, <2>3, <2>4
<1>3. CASE \E k \in WantsExclusive(t) : held[u][k] # "none"
  <2>1. PICK k \in WantsExclusive(t) : held[u][k] # "none"
    BY <1>3
  <2>2. k \in Locks /\ Depth(t) = 2 * k + 2
    BY <2>1, WantsFacts
  <2> QED
    BY <1>1, <2>1, <2>2
<1>4. CASE pc[t] \in {"ins_replace", "rem_replace"} /\ Linking(u, loc[t].level)
  <2>1. Depth(t) = 1
    BY <1>4 DEF Depth, WantsShared, WantsExclusive
  <2>2. Depth(u) = 0
    BY <1>4 DEF Depth, WantsShared, WantsExclusive, Linking
  <2> QED
    BY <2>1, <2>2
<1> QED
  BY <1>2, <1>3, <1>4 DEF WaitsFor

\* No threads wait for each other in a circle, however many there are and however
\* many levels the index has: the locks a call holds come before the one it waits
\* for in the lock hierarchy of graph.h, the graph lock is dropped before it is
\* taken exclusively, and phase 2 of remove starts again with no level locked.
THEOREM DeadlockFree == Spec => []NoLockDeadlock
<1>1. ASSUME GraphInv PROVE NoLockDeadlock
  <2> SUFFICES ASSUME NEW S \in SUBSET Threads, S # {}
               PROVE  \E t \in S : \A u \in S \ {t} : ~WaitsFor(t, u)
    BY DEF NoLockDeadlock
  <2> DEFINE T == {Depth(t) : t \in S}
  <2>1. T \in SUBSET Nat /\ T # {}
    BY <1>1, WantsFacts
  <2>2. PICK x \in T : \A y \in T : x <= y
    BY <2>1, LeastNat
  <2>3. PICK t \in S : x = Depth(t)
    BY <2>2
  <2>4. \A u \in S : Depth(u) \in Nat /\ Depth(t) <= Depth(u)
    BY <2>1, <2>2, <2>3
  <2>5. \A u \in S : ~WaitsFor(t, u)
    BY <1>1, <2>3, <2>4, WaitsForLess
  <2> QED
    BY <2>3, <2>5
<1> QED
  BY <1>1, GraphInvHolds, PTL

\* A step that changes the entry point ends an insert of a higher node, or the
\* remove of the entry point itself.
LEMMA EntryChange ==
  ASSUME GraphInv, Next, <<entry, entryLevel>>' # <<entry, entryLevel>>
  PROVE  \E t \in Threads :
           \/ /\ pc[t] = "ins_done" /\ entry' = loc[t].e
              /\ entry = Nil \/ entryLevel' > entryLevel
           \/ pc[t] = "rem_done" /\ entry = loc[t].e
<1>1. ~UNCHANGED <<entry, entryLevel>>
  OBVIOUS
<1>2. PICK t \in Threads : InsertReturn(t) \/ RemoveReturn(t)
  <2>1. PICK t \in Threads :
    \/ \E e \in Elements, top \in InsertLevels : InsertCall(t, e, top)
    \/ InsertStep(t)
    \/ \E e \in Elements : RemoveCall(t, e)
    \/ RemoveStep(t)
    \/ KnnCall(t)
    \/ KnnStep(t)
    \/ \E e \in Elements, mark \in BOOLEAN : MarkCall(t, e, mark)
    \/ MarkLevel(t)
    \/ ReadFails(t)
    \/ Fail(t)
    BY DEF Next
  <2>2. InsertStep(t) => InsertReturn(t)
    BY <1>1 DEF InsertStep, InsertUpgrade, InsertLock, InsertSearch, InsertDescend,
       InsertCreate, InsertKeep, InsertLink, InsertLinkBack, InsertConfirm,
       InsertShrink, InsertReplace
  <2>3. RemoveStep(t) => RemoveReturn(t)
    BY <1>1 DEF RemoveStep, RemoveUpgrade, RemoveUnlink, RemoveSeed, RemoveRepair,
       RemoveShrink, RemoveReplace, RemoveNextLevel, RemoveRelock, RemoveDrop
  <2>4. /\ \A e \in Elements, top \in InsertLevels : ~InsertCall(t, e, top)
        /\ \A e \in Elements : ~RemoveCall(t, e)
        /\ \A e \in Elements, mark \in BOOLEAN : ~MarkCall(t, e, mark)
        /\ ~KnnCall(t)
    BY <1>1 DEF InsertCall, RemoveCall, MarkCall, KnnCall
  <2>5. ~KnnStep(t) /\ ~MarkLevel(t) /\ ~ReadFails(t) /\ ~Fail(t)
    BY <1>1 DEF KnnStep, KnnLock, KnnSearch, KnnDescend, KnnReturn, MarkLevel,
       ReadFails, Fail, FailCall
  <2> QED
    BY <2>1, <2>2, <2>3, <2>4, <2>5
<1>3. EntryOK(pc[t], loc[t], held[t], entry, entryLevel)
  BY CallFacts
<1>4. CASE InsertReturn(t)
  BY <1>1, <1>3, <1>4 DEF InsertReturn, SetEntryPoint, EntryOK, InsertPcs
<1>5. CASE RemoveReturn(t)
  BY <1>1, <1>3, <1>5 DEF RemoveReturn, SetEntryPoint, EntryOK, RemovePcs
<1> QED
  BY <1>2, <1>4, <1>5

\* The entry point gives way to a higher node or, when it is itself removed, to
\* its replacement, whatever changed it while a caller waited for the exclusive
\* graph lock: both callers read it again once they hold the lock, which keeps
\* every other call out until they have set it.
THEOREM EntryPointHandedOver == Spec => EntryPointGivesWay
<1>1. ASSUME GraphInv, [Next]_vars
      PROVE  [<<entry, entryLevel>>' # <<entry, entryLevel>> =>
                \E t \in Threads :
                  \/ /\ pc[t] = "ins_done" /\ entry' = loc[t].e
                     /\ entry = Nil \/ entryLevel' > entryLevel
                  \/ pc[t] = "rem_done" /\ entry = loc[t].e]_vars
  BY <1>1, EntryChange
<1> QED
  BY <1>1, GraphInvHolds, PTL DEF Spec, EntryPointGivesWay

-------------------------------------------------------------------------------
(* The marks of an element.                                                *)

\* The nodes of e on the levels up to n have the same mark.
Together(nds, e, n) == \A k \in 0 .. n : nds[k][e].marked = nds[0][e].marked

\* A new element is not marked; a call that marks has marked the levels above
\* the one it is at, and left those from there on as they were.
MarkOK(p, L, nds, hd) ==
  /\ p \in InsertPcs => \A k \in Levels : Exists(nds[k], L.e) => nds[k][L.e].marked = FALSE
  /\ p = "mark_lock" =>
       /\ Together(nds, L.e, L.level)
       /\ \A k \in 0 .. hd[L.e] : k > L.level => nds[k][L.e].marked = L.mark

MarkInv ==
  /\ \A t \in Threads : MarkOK(pc[t], loc[t], nodes, handle)
  /\ MarkedTogether

\* A step of t leaves the nodes and the mark of x alone.
SameMarks(x) ==
  \A k \in Levels :
    /\ Exists(nodes'[k], x) <=> Exists(nodes[k], x)
    /\ Exists(nodes[k], x) => nodes'[k][x].marked = nodes[k][x].marked

\* t marks nodes of its own element only, and leaves them with one mark.
MarksOwn(t) ==
  /\ \A u \in Threads \ {t} : pc'[u] = pc[u] /\ loc'[u] = loc[u]
  /\ \A x \in Elements \ {loc[t].e} : handle'[x] = handle[x] /\ SameMarks(x)
  /\ MarkOK(pc'[t], loc'[t], nodes', handle')
  /\ loc[t].e \in Elements /\ loc'[t].e # loc[t].e /\ handle'[loc[t].e] # NoLevel =>
       Together(nodes', loc[t].e, handle'[loc[t].e])

LEMMA SameTogether ==
  ASSUME NEW x, NEW n \in Levels, SameMarks(x), ChainFrom(nodes, x, 0, n),
         Together(nodes, x, n)
  PROVE  Together(nodes', x, n)
<1>1. 0 \in 0 .. n /\ 0 .. n \subseteq Levels
  BY LockSets
<1> QED BY <1>1 DEF SameMarks, ChainFrom, Together

LEMMA MarksTogether ==
  ASSUME GraphInv, MarkInv, NEW t \in Threads, MarksOwn(t)
  PROVE  MarkInv'
<1>1. ASSUME NEW u \in Threads \ {t} PROVE MarkOK(pc'[u], loc'[u], nodes', handle')
  <2> DEFINE x == loc[u].e
  <2>1. /\ pc'[u] = pc[u] /\ loc'[u] = loc[u] /\ MarkOK(pc[u], loc[u], nodes, handle)
        /\ LocalsOK(pc[u], loc[u], height) /\ OwnsOK(pc[u], loc[u], nodes, handle)
        /\ loc[u] \in Locals
    BY CallFacts DEF MarksOwn, MarkInv
  <2>2. x \in Elements => x # loc[t].e /\ handle'[x] = handle[x] /\ SameMarks(x)
    BY GraphAssumption DEF MarksOwn, GraphInv, OneCallEach
  <2>3. CASE pc[u] \in InsertPcs
    <3>1. x \in Elements
      BY <2>1, <2>3 DEF LocalsOK
    <3> QED BY <2>1, <2>2, <2>3, <3>1 DEF MarkOK, SameMarks, InsertPcs
  <2>4. CASE pc[u] = "mark_lock"
    <3>1. x \in Elements /\ handle[x] \in Levels \cup {NoLevel} /\ loc[u].level \in Levels
      BY <2>1, <2>4 DEF LocalsOK, GraphInv, TypeOK, Locals
    <3>2. loc[u].level <= handle[x] /\ ChainFrom(nodes, x, 0, handle[x])
      BY <2>1, <2>4 DEF OwnsOK
    <3>3. handle[x] \in Levels
      BY <3>1, <3>2, LockSets DEF NoLevel
    <3>4. /\ 0 .. loc[u].level \subseteq 0 .. handle[x]
          /\ 0 .. handle[x] \subseteq Levels
      BY <3>1, <3>2, <3>3, LockSets
    <3>5. Together(nodes', x, loc[u].level)
      BY <2>1, <2>2, <2>4, <3>1, <3>2, <3>4, SameTogether DEF MarkOK, ChainFrom
    <3>6. \A k \in 0 .. handle[x] : k > loc[u].level => nodes'[k][x].marked = loc[u].mark
      BY <2>1, <2>2, <2>4, <3>1, <3>2, <3>4 DEF MarkOK, SameMarks, ChainFrom
    <3> QED BY <2>1, <2>2, <2>4, <3>1, <3>5, <3>6 DEF MarkOK, InsertPcs
  <2>5. CASE pc[u] \notin InsertPcs \cup {"mark_lock"}
    BY <2>1, <2>5 DEF MarkOK
  <2> QED BY <2>3, <2>4, <2>5
<1>2. ASSUME NEW x \in Elements, \A u \in Threads : loc'[u].e # x, handle'[x] # NoLevel
      PROVE  Together(nodes', x, handle'[x])
  <2>1. CASE x = loc[t].e
    BY <1>2, <2>1 DEF MarksOwn
  <2>2. CASE x # loc[t].e
    <3>1. handle'[x] = handle[x] /\ SameMarks(x) /\ Unused(x)
      BY <1>2, <2>2 DEF MarksOwn, Unused
    <3>2. ChainFrom(nodes, x, 0, handle[x]) /\ Together(nodes, x, handle[x])
      BY <1>2, <3>1 DEF GraphInv, IndexOK, MarkInv, MarkedTogether, Together
    <3>3. handle[x] \in Levels
      BY <1>2, <3>1 DEF GraphInv, TypeOK
    <3> QED BY <3>1, <3>2, <3>3, SameTogether
  <2> QED BY <2>1, <2>2
<1>3. MarkedTogether'
  BY <1>2 DEF MarkedTogether, Unused, Together
<1>4. \A u \in Threads : MarkOK(pc'[u], loc'[u], nodes', handle')
  BY <1>1 DEF MarksOwn
<1> QED BY <1>3, <1>4 DEF MarkInv

\* A step within a call that neither makes, frees nor marks nodes.
LEMMA KeepMarks ==
  ASSUME GraphInv, MarkInv, NEW t \in Threads, NEW p, NEW L, Goto(t, p), Set(t, L),
         L.e = loc[t].e, UNCHANGED handle, \A x \in Elements : SameMarks(x),
         p \in InsertPcs => pc[t] \in InsertPcs, p # "mark_lock"
  PROVE  MarkInv'
<1>1. /\ pc'[t] = p /\ loc'[t] = L
      /\ \A u \in Threads \ {t} : pc'[u] = pc[u] /\ loc'[u] = loc[u]
  BY DEF Goto, Set, GraphInv, TypeOK
<1>2. MarkOK(pc[t], loc[t], nodes, handle) /\ LocalsOK(pc[t], loc[t], height)
  BY CallFacts DEF MarkInv
<1>3. pc[t] \in InsertPcs => loc[t].e \in Elements
  BY <1>2 DEF LocalsOK
<1>4. MarkOK(p, L, nodes', handle')
  BY <1>2, <1>3 DEF MarkOK, SameMarks
<1>5. MarksOwn(t)
  BY <1>1, <1>4 DEF MarksOwn
<1> QED BY <1>5, MarksTogether

LEMMA SameNodesMarks ==
  ASSUME UNCHANGED nodes
  PROVE  \A x \in Elements : SameMarks(x)
  BY DEF SameMarks

\* A level is written, and no node of it made, freed or marked.
LEMMA WriteLevelMarks ==
  ASSUME GraphInv, NEW t \in Threads, NEW q, WriteLevel(t, q),
         \A y \in Elements : /\ Exists(q, y) <=> Exists(At(t), y)
                             /\ Exists(At(t), y) => q[y].marked = At(t)[y].marked
  PROVE  \A x \in Elements : SameMarks(x)
<1>1. nodes \in [Levels -> LevelType] /\ loc[t].level \in Levels
  BY LevelFacts
<1>2. \A k \in Levels : nodes'[k] = IF k = loc[t].level THEN q ELSE nodes[k]
  BY <1>1 DEF WriteLevel
<1> QED BY <1>2 DEF SameMarks, At

LEMMA ReplaceMarks ==
  ASSUME GraphInv, NEW t \in Threads, ReplaceSelected(t),
         loc[t].shrink \in Elements
  PROVE  \A x \in Elements : SameMarks(x)
<1> DEFINE q == ReplaceNeighbours(At(t), loc[t].level, loc[t].shrink, loc[t].shrunk)
<1>1. WriteLevel(t, q) /\ Exists(At(t), loc[t].shrink)
  BY DEF ReplaceSelected
<1>2. At(t) \in LevelType /\ loc[t].shrunk \in SUBSET Elements
  BY LevelFacts, CandType
<1>3. \A y \in Elements : /\ Exists(q, y) <=> Exists(At(t), y)
                          /\ Exists(At(t), y) => q[y].marked = At(t)[y].marked
  BY <1>1, <1>2, ReplaceType
<1> HIDE DEF q
<1> QED BY <1>1, <1>3, WriteLevelMarks

\* The end of a call: no node changes, and what a handle names has one mark.
LEMMA ReturnMarks ==
  ASSUME GraphInv, MarkInv, NEW t \in Threads, Return(t), UNCHANGED nodes,
         \A x \in Elements \ {loc[t].e} : handle'[x] = handle[x],
         loc[t].e \in Elements /\ handle'[loc[t].e] # NoLevel =>
           Together(nodes, loc[t].e, handle'[loc[t].e])
  PROVE  MarkInv'
<1>1. /\ pc'[t] = "idle" /\ loc'[t] = NoLocals
      /\ \A u \in Threads \ {t} : pc'[u] = pc[u] /\ loc'[u] = loc[u]
  BY DEF Return, Goto, Set, GraphInv, TypeOK
<1>2. MarkOK("idle", NoLocals, nodes', handle')
  BY DEF MarkOK, InsertPcs
<1>3. MarksOwn(t)
  BY <1>1, <1>2, SameNodesMarks DEF MarksOwn, Together
<1> QED BY <1>3, MarksTogether

\* A call begins.
LEMMA CallMarks ==
  ASSUME GraphInv, MarkInv, NEW t \in Threads, NEW p, NEW L, Goto(t, p), Set(t, L),
         pc[t] = "idle", UNCHANGED <<nodes, handle, strayed>>,
         MarkOK(p, L, nodes, handle)
  PROVE  MarkInv'
<1>1. /\ pc'[t] = p /\ loc'[t] = L
      /\ \A u \in Threads \ {t} : pc'[u] = pc[u] /\ loc'[u] = loc[u]
  BY DEF Goto, Set, GraphInv, TypeOK
<1>2. loc[t].e = Nil
  BY CallFacts DEF LocalsOK
<1>3. MarksOwn(t)
  BY <1>1, <1>2, SameNodesMarks, GraphAssumption DEF MarksOwn
<1> QED BY <1>3, MarksTogether

\* The steps of an insert that write no node.
LEMMA QuietInsert ==
  ASSUME GraphInv, MarkInv, NEW t \in Threads,
         \/ InsertUpgrade(t) \/ InsertLock(t) \/ InsertSearch(t) \/ InsertDescend(t)
         \/ InsertKeep(t) \/ InsertLink(t) \/ InsertShrink(t)
  PROVE  MarkInv'
<1>0. loc[t] \in Locals /\ loc = [loc EXCEPT ![t] = loc[t]]
  BY CallFacts DEF GraphInv, TypeOK
<1>1. UNCHANGED <<nodes, handle, strayed>> /\ pc[t] \in InsertPcs
  BY DEF InsertUpgrade, InsertLock, InsertSearch, InsertDescend, InsertKeep, InsertLink,
     InsertShrink, InsertPcs
<1>2. \E p \in InsertPcs : Goto(t, p)
  BY DEF InsertUpgrade, InsertLock, InsertSearch, InsertDescend, InsertKeep, InsertLink,
     InsertShrink, InsertPcs
<1>3. \E L : Set(t, L) /\ L.e = loc[t].e
  <2>1. CASE InsertUpgrade(t)
    <3>1. PICK a, b, c, d : Set(t, [loc[t] EXCEPT !.elevel = a, !.level = b, !.cand = c,
                                                  !.newEp = d])
      BY <2>1 DEF InsertUpgrade
    <3>2. [loc[t] EXCEPT !.elevel = a, !.level = b, !.cand = c, !.newEp = d].e = loc[t].e
      BY <1>0 DEF Locals
    <3> QED BY <3>1, <3>2
  <2>2. CASE InsertLock(t)
    BY <1>0, <2>2 DEF InsertLock, Set
  <2>3. CASE InsertSearch(t)
    <3>1. PICK W : Set(t, [loc[t] EXCEPT !.cand = W])
      BY <2>3 DEF InsertSearch, Narrow
    <3>2. [loc[t] EXCEPT !.cand = W].e = loc[t].e
      BY <1>0 DEF Locals
    <3> QED BY <3>1, <3>2
  <2>4. CASE InsertDescend(t) \/ InsertKeep(t)
    <3>1. PICK l : Set(t, [loc[t] EXCEPT !.level = l])
      BY <2>4 DEF InsertDescend, InsertKeep
    <3>2. [loc[t] EXCEPT !.level = l].e = loc[t].e
      BY <1>0 DEF Locals
    <3> QED BY <3>1, <3>2
  <2>5. CASE InsertLink(t)
    <3>1. PICK a, b, c : Set(t, [loc[t] EXCEPT !.link = a, !.cand = b, !.pend = c])
      BY <2>5 DEF InsertLink
    <3>2. [loc[t] EXCEPT !.link = a, !.cand = b, !.pend = c].e = loc[t].e
      BY <1>0 DEF Locals
    <3> QED BY <3>1, <3>2
  <2>6. CASE InsertShrink(t)
    <3>1. PICK a, b : Set(t, [loc[t] EXCEPT !.shrink = a, !.shrunk = b])
      BY <2>6 DEF InsertShrink, Reselect
    <3>2. [loc[t] EXCEPT !.shrink = a, !.shrunk = b].e = loc[t].e
      BY <1>0 DEF Locals
    <3> QED BY <3>1, <3>2
  <2> QED BY <2>1, <2>2, <2>3, <2>4, <2>5, <2>6
<1>4. "mark_lock" \notin InsertPcs
  BY DEF InsertPcs
<1>5. PICK p \in InsertPcs : Goto(t, p)
  BY <1>2
<1>6. PICK L : Set(t, L) /\ L.e = loc[t].e
  BY <1>3
<1>7. p # "mark_lock"
  BY <1>4, <1>5
<1> QED BY <1>1, <1>5, <1>6, <1>7, SameNodesMarks, KeepMarks

\* The steps of a remove that write no node.
LEMMA QuietRemove ==
  ASSUME GraphInv, MarkInv, NEW t \in Threads,
         RemoveUpgrade(t) \/ RemoveSeed(t) \/ RemoveShrink(t) \/ RemoveNextLevel(t)
           \/ RemoveRelock(t)
  PROVE  MarkInv'
<1>0. loc[t] \in Locals /\ loc = [loc EXCEPT ![t] = loc[t]] /\ pc = [pc EXCEPT ![t] = pc[t]]
  BY CallFacts DEF GraphInv, TypeOK
<1>1. UNCHANGED <<nodes, handle, strayed>> /\ pc[t] \in RemovePcs
  BY DEF RemoveUpgrade, RemoveSeed, RemoveShrink, RemoveNextLevel, RemoveRelock, RemovePcs
<1>2. PICK p \in RemovePcs : Goto(t, p)
  BY <1>0, <1>1
  DEF RemoveUpgrade, RemoveSeed, RemoveShrink, RemoveNextLevel, RemoveRelock, RemovePcs, Goto
<1>3. \E L : Set(t, L) /\ L.e = loc[t].e
  <2>1. CASE RemoveUpgrade(t)
    <3>1. PICK a : Set(t, [loc[t] EXCEPT !.newEp = a])
      BY <2>1 DEF RemoveUpgrade
    <3>2. [loc[t] EXCEPT !.newEp = a].e = loc[t].e
      BY <1>0 DEF Locals
    <3> QED BY <3>1, <3>2
  <2>2. CASE RemoveSeed(t)
    <3>1. PICK a, b, c, d : Set(t, [loc[t] EXCEPT !.orph = a, !.unl = b, !.repl = c,
                                                  !.rlevel = d])
      BY <2>2 DEF RemoveSeed
    <3>2. [loc[t] EXCEPT !.orph = a, !.unl = b, !.repl = c, !.rlevel = d].e = loc[t].e
      BY <1>0 DEF Locals
    <3> QED BY <3>1, <3>2
  <2>3. CASE RemoveShrink(t)
    <3>1. PICK a, b : Set(t, [loc[t] EXCEPT !.shrink = a, !.shrunk = b])
      BY <2>3 DEF RemoveShrink, Reselect
    <3>2. [loc[t] EXCEPT !.shrink = a, !.shrunk = b].e = loc[t].e
      BY <1>0 DEF Locals
    <3> QED BY <3>1, <3>2
  <2>4. CASE RemoveNextLevel(t)
    <3>1. PICK K : K = [loc[t] EXCEPT !.unl = {}, !.orph = {}, !.link = Nil]
      OBVIOUS
    <3>2. PICK l : Set(t, [K EXCEPT !.level = l])
      BY <2>4, <3>1 DEF RemoveNextLevel
    <3>3. [K EXCEPT !.level = l].e = loc[t].e
      BY <1>0, <3>1 DEF Locals
    <3> QED BY <3>2, <3>3
  <2>5. CASE RemoveRelock(t)
    <3>1. CASE UNCHANGED loc
      BY <1>0, <3>1 DEF Set
    <3>2. CASE ~UNCHANGED loc
      <4>1. PICK l : Set(t, [loc[t] EXCEPT !.level = l])
        BY <2>5, <3>2 DEF RemoveRelock
      <4>2. [loc[t] EXCEPT !.level = l].e = loc[t].e
        BY <1>0 DEF Locals
      <4> QED BY <4>1, <4>2
    <3> QED BY <3>1, <3>2
  <2> QED BY <2>1, <2>2, <2>3, <2>4, <2>5
<1>4. PICK L : Set(t, L) /\ L.e = loc[t].e
  BY <1>3
<1>5. p # "mark_lock" /\ p \notin InsertPcs
  BY <1>2 DEF RemovePcs, InsertPcs
<1> QED BY <1>1, <1>2, <1>4, <1>5, SameNodesMarks, KeepMarks

LEMMA QuietKnn ==
  ASSUME GraphInv, MarkInv, NEW t \in Threads,
         KnnCall(t) \/ KnnLock(t) \/ KnnSearch(t) \/ KnnDescend(t)
  PROVE  MarkInv'
<1>0. loc[t] \in Locals /\ loc = [loc EXCEPT ![t] = loc[t]]
  BY CallFacts DEF GraphInv, TypeOK
<1>1. UNCHANGED <<nodes, handle, strayed>>
  BY DEF KnnCall, KnnLock, KnnSearch, KnnDescend
<1>2. PICK p \in KnnPcs : Goto(t, p)
  BY DEF KnnCall, KnnLock, KnnSearch, KnnDescend, KnnPcs
<1>3. \E L : Set(t, L) /\ L.e = loc[t].e
  <2>1. CASE KnnCall(t)
    <3>1. PICK a, b, c : Set(t, [NoLocals EXCEPT !.cand = a, !.level = b, !.elevel = c])
      BY <2>1 DEF KnnCall
    <3>2. [NoLocals EXCEPT !.cand = a, !.level = b, !.elevel = c].e = Nil
      BY DEF NoLocals
    <3>3. loc[t].e = Nil
      BY <2>1, CallFacts DEF KnnCall, LocalsOK
    <3> QED BY <3>1, <3>2, <3>3
  <2>2. CASE KnnLock(t)
    BY <1>0, <2>2 DEF KnnLock, Set
  <2>3. CASE KnnSearch(t)
    <3>1. PICK W : Set(t, [loc[t] EXCEPT !.cand = W])
      BY <2>3 DEF KnnSearch, Narrow
    <3>2. [loc[t] EXCEPT !.cand = W].e = loc[t].e
      BY <1>0 DEF Locals
    <3> QED BY <3>1, <3>2
  <2>4. CASE KnnDescend(t)
    <3>1. PICK l : Set(t, [loc[t] EXCEPT !.level = l])
      BY <2>4 DEF KnnDescend
    <3>2. [loc[t] EXCEPT !.level = l].e = loc[t].e
      BY <1>0 DEF Locals
    <3> QED BY <3>1, <3>2
  <2> QED BY <2>1, <2>2, <2>3, <2>4
<1>4. PICK L : Set(t, L) /\ L.e = loc[t].e
  BY <1>3
<1>5. p # "mark_lock" /\ p \notin InsertPcs
  BY <1>2 DEF KnnPcs, InsertPcs
<1> QED BY <1>1, <1>2, <1>4, <1>5, SameNodesMarks, KeepMarks

\* The steps that write links.
LEMMA LinkMarks ==
  ASSUME GraphInv, MarkInv, NEW t \in Threads, InsertLinkBack(t) \/ InsertConfirm(t)
  PROVE  MarkInv'
<1>0. loc[t] \in Locals /\ loc = [loc EXCEPT ![t] = loc[t]] /\ pc = [pc EXCEPT ![t] = pc[t]]
  BY CallFacts DEF GraphInv, TypeOK
<1>1. UNCHANGED handle /\ pc[t] = "ins_linking"
  BY DEF InsertLinkBack, InsertConfirm
<1>2. /\ loc[t].e \in Elements /\ At(t) \in LevelType
      /\ loc[t].level \in 0 .. loc[t].top
  BY <1>1, CallFacts, LevelFacts, LockSets DEF LocalsOK, InsertPcs, CreatedPcs
<1>3. Exists(At(t), loc[t].e)
  BY <1>1, <1>2, CallFacts DEF OwnsOK, CreatedPcs, ChainFrom, At
<1>4. PICK p \in InsertPcs : Goto(t, p)
  BY <1>0, <1>1 DEF InsertLinkBack, InsertConfirm, AfterLinks, Goto, InsertPcs
<1>5. PICK L : Set(t, L) /\ L.e = loc[t].e
  <2>1. CASE InsertLinkBack(t)
    <3>1. PICK a, b : Set(t, [loc[t] EXCEPT !.pend = a, !.over = b])
      BY <2>1 DEF InsertLinkBack
    <3>2. [loc[t] EXCEPT !.pend = a, !.over = b].e = loc[t].e
      BY <1>0 DEF Locals
    <3> QED BY <3>1, <3>2
  <2>2. CASE InsertConfirm(t)
    <3>1. CASE UNCHANGED loc \/ Set(t, loc[t])
      BY <1>0, <3>1 DEF Set
    <3>2. CASE ~(UNCHANGED loc \/ Set(t, loc[t]))
      <4>1. PICK l : Set(t, [loc[t] EXCEPT !.level = l])
        BY <2>2, <3>2 DEF InsertConfirm, AfterLinks
      <4>2. [loc[t] EXCEPT !.level = l].e = loc[t].e
        BY <1>0 DEF Locals
      <4> QED BY <4>1, <4>2
    <3> QED BY <3>1, <3>2
  <2> QED BY <2>1, <2>2
<1>6. \A x \in Elements : SameMarks(x)
  <2>1. CASE InsertLinkBack(t)
    <3>1. PICK n, nd, l :
            /\ n \in loc[t].pend /\ nd = At(t) /\ l = loc[t].level
            /\ WriteLevel(t, IF Exists(nd, n)
                             THEN [nd EXCEPT ![n] = LinkBack(nd[n], l, loc[t].e)] ELSE nd)
      BY <2>1 DEF InsertLinkBack
    <3>2. n \in Elements /\ nd \in LevelType
      BY <1>2, <3>1, CandType
    <3>3. CASE Exists(nd, n)
      <4>1. PICK rec, q : /\ rec = LinkBack(nd[n], l, loc[t].e) /\ q = [nd EXCEPT ![n] = rec]
                          /\ WriteLevel(t, q)
        BY <3>1, <3>3
      <4>2. nd[n] \in NodeRec
        BY <3>2, <3>3, NodeOfLevel
      <4>3. rec \in NodeRec /\ rec.marked = nd[n].marked
        BY <1>2, <4>1, <4>2, LinkBackType
      <4>4. rec # FreeNode
        BY <4>3, NodeAssumption
      <4>5. \A y \in Elements : q[y] = IF y = n THEN rec ELSE nd[y]
        BY <3>2, <4>1 DEF LevelType
      <4>6. \A y \in Elements : /\ Exists(q, y) <=> Exists(nd, y)
                                /\ Exists(nd, y) => q[y].marked = nd[y].marked
        BY <3>3, <4>3, <4>4, <4>5 DEF Exists
      <4> QED BY <3>1, <4>1, <4>6, WriteLevelMarks
    <3>4. CASE ~Exists(nd, n)
      BY <3>1, <3>4, WriteLevelMarks
    <3> QED BY <3>3, <3>4
  <2>2. CASE InsertConfirm(t)
    <3>1. PICK rec, q : /\ rec = ConfirmLinks(At(t)[loc[t].e])
                        /\ q = [At(t) EXCEPT ![loc[t].e] = rec]
                        /\ WriteLevel(t, q)
      BY <2>2 DEF InsertConfirm
    <3>2. At(t)[loc[t].e] \in NodeRec
      BY <1>2, <1>3, NodeOfLevel
    <3>3. rec \in NodeRec /\ rec.marked = At(t)[loc[t].e].marked
      BY <3>1, <3>2, ConfirmLinksType
    <3>4. rec # FreeNode
      BY <3>3, NodeAssumption
    <3>5. \A y \in Elements : q[y] = IF y = loc[t].e THEN rec ELSE At(t)[y]
      BY <1>2, <3>1 DEF LevelType
    <3>6. \A y \in Elements : /\ Exists(q, y) <=> Exists(At(t), y)
                              /\ Exists(At(t), y) => q[y].marked = At(t)[y].marked
      BY <1>3, <3>3, <3>4, <3>5 DEF Exists
    <3> QED BY <3>1, <3>6, WriteLevelMarks
  <2> QED BY <2>1, <2>2
<1>7. p # "mark_lock" /\ pc[t] \in InsertPcs
  BY <1>1, <1>4 DEF InsertPcs
<1> QED BY <1>1, <1>4, <1>5, <1>6, <1>7, KeepMarks

\* The links of a neighbour are replaced, in an insert or a remove.
LEMMA ReplacedMarks ==
  ASSUME GraphInv, MarkInv, NEW t \in Threads, InsertReplace(t) \/ RemoveReplace(t)
  PROVE  MarkInv'
<1>0. loc[t] \in Locals
  BY CallFacts
<1>1. UNCHANGED handle /\ ReplaceSelected(t) /\ pc[t] \in {"ins_replace", "rem_replace"}
  BY DEF InsertReplace, RemoveReplace
<1>2. loc[t].shrink \in Elements
  BY <1>1, CallFacts DEF LocalsOK
<1>3. PICK K : K = AfterReplace(t) /\ K \in Locals /\ K.e = loc[t].e
  BY AfterReplaceType
<1>4. PICK L : Set(t, L) /\ L.e = loc[t].e
  <2>1. CASE Set(t, K)
    BY <1>3, <2>1
  <2>2. CASE ~Set(t, K)
    <3>1. PICK l : Set(t, [K EXCEPT !.level = l])
      BY <1>3, <2>2 DEF InsertReplace, RemoveReplace, AfterLinks
    <3>2. [K EXCEPT !.level = l].e = loc[t].e
      BY <1>3 DEF Locals
    <3> QED BY <3>1, <3>2
  <2> QED BY <2>1, <2>2
<1>5. PICK p \in InsertPcs \cup RemovePcs :
        Goto(t, p) /\ (p \in InsertPcs => pc[t] \in InsertPcs) /\ p # "mark_lock"
  BY DEF InsertReplace, RemoveReplace, AfterLinks, InsertPcs, RemovePcs
<1> QED BY <1>1, <1>2, <1>4, <1>5, ReplaceMarks, KeepMarks

LEMMA UnlinkMarks ==
  ASSUME GraphInv, MarkInv, NEW t \in Threads, RemoveUnlink(t)
  PROVE  MarkInv'
<1>0. loc[t] \in Locals
  BY CallFacts
<1>1. UNCHANGED handle /\ pc[t] = "rem_lock" /\ Goto(t, "rem_repair")
  BY DEF RemoveUnlink
<1>2. /\ loc[t].e \in Elements /\ At(t) \in LevelType
      /\ loc[t].level \in 0 .. loc[t].top
  BY <1>1, CallFacts, LevelFacts, LockSets DEF LocalsOK, RemovePcs
<1>3. Exists(At(t), loc[t].e)
  BY <1>1, <1>2, CallFacts DEF OwnsOK, RemovePcs, ChainFrom, At
<1> DEFINE q == UnlinkNeighbours(At(t), loc[t].e)
<1>4. WriteLevel(t, q)
  BY DEF RemoveUnlink
<1>5. \A y \in Elements : /\ Exists(q, y) <=> Exists(At(t), y)
                          /\ Exists(At(t), y) => q[y].marked = At(t)[y].marked
  <2>1. /\ \A y \in Elements : Exists(q, y) <=> Exists(At(t), y)
        /\ \A y \in Elements : Exists(At(t), y) =>
             q[y].lower = At(t)[y].lower /\ q[y].marked = At(t)[y].marked
    BY <1>2, <1>3, UnlinkType
  <2> HIDE DEF q
  <2> QED BY <2>1
<1> HIDE DEF q
<1>6. PICK a, b, c, d : Set(t, [loc[t] EXCEPT !.unl = a, !.orph = b, !.repl = c, !.rlevel = d])
  BY DEF RemoveUnlink
<1>7. [loc[t] EXCEPT !.unl = a, !.orph = b, !.repl = c, !.rlevel = d].e = loc[t].e
  BY <1>0 DEF Locals
<1>8. "rem_repair" \notin InsertPcs
  BY DEF InsertPcs
<1>9. \A x \in Elements : SameMarks(x)
  BY <1>4, <1>5, WriteLevelMarks
<1> QED BY <1>1, <1>6, <1>7, <1>8, <1>9, KeepMarks

LEMMA RepairMarks ==
  ASSUME GraphInv, MarkInv, NEW t \in Threads, RemoveRepair(t)
  PROVE  MarkInv'
<1>0. loc[t] \in Locals
  BY CallFacts
<1>1. UNCHANGED handle /\ pc[t] = "rem_repair"
  BY DEF RemoveRepair
<1>2. PICK o \in loc[t].orph :
        \E W \in SearchResults(t, loc[t].unl, {o}, EfConstruction) :
        \E new \in Selections(W, M) :
          WriteLevel(t, ReplaceNeighbours(At(t), loc[t].level, o, new))
  BY DEF RemoveRepair
<1>3. PICK W \in SearchResults(t, loc[t].unl, {o}, EfConstruction) :
        \E new \in Selections(W, M) :
          WriteLevel(t, ReplaceNeighbours(At(t), loc[t].level, o, new))
  BY <1>2
<1>4. PICK new \in Selections(W, M) :
        WriteLevel(t, ReplaceNeighbours(At(t), loc[t].level, o, new))
  BY <1>3
<1>5. W \in SUBSET Elements
  BY <1>3, CandType, SearchResultsLive
<1>6. new \in SUBSET Elements
  BY <1>4, <1>5, SelectionsWithin
<1>7. o \in Elements /\ At(t) \in LevelType /\ Exists(At(t), o)
  BY <1>1, <1>2, CallFacts, CandType, LevelFacts DEF OwnsOK, RepairPcs, At
<1> DEFINE q == ReplaceNeighbours(At(t), loc[t].level, o, new)
<1>8. WriteLevel(t, q)
  BY <1>4
<1>9. \A y \in Elements : /\ Exists(q, y) <=> Exists(At(t), y)
                          /\ Exists(At(t), y) => q[y].marked = At(t)[y].marked
  BY <1>6, <1>7, ReplaceType
<1> HIDE DEF q
<1>10. \A x \in Elements : SameMarks(x)
  BY <1>8, <1>9, WriteLevelMarks
<1>11. PICK a, b, c, d : Set(t, [loc[t] EXCEPT !.orph = a, !.unl = b, !.link = c, !.over = d])
  BY DEF RemoveRepair
<1>12. [loc[t] EXCEPT !.orph = a, !.unl = b, !.link = c, !.over = d].e = loc[t].e
  BY <1>0 DEF Locals
<1>13. PICK p \in {"rem_repair", "rem_shrink"} : Goto(t, p)
  BY DEF RemoveRepair
<1>14. p \notin InsertPcs /\ p # "mark_lock"
  BY <1>13 DEF InsertPcs
<1> QED BY <1>1, <1>10, <1>11, <1>12, <1>13, <1>14, KeepMarks

\* The node of a new element is not marked.
LEMMA CreateMarks ==
  ASSUME GraphInv, MarkInv, NEW t \in Threads, InsertCreate(t)
  PROVE  MarkInv'
<1>1. /\ pc[t] = "ins_create" /\ UNCHANGED handle
      /\ \E p \in InsertPcs : Goto(t, p)
  BY DEF InsertCreate, InsertPcs
<1> DEFINE l == loc[t].level
           e == loc[t].e
           Created(ns) ==
             nodes' = [k \in Levels |->
               IF k = l THEN [nodes[k] EXCEPT ![e] = NewNode(ns)]
               ELSE IF k = l + 1 /\ l < loc[t].top
                    THEN [nodes[k] EXCEPT ![e].lower = TRUE]
               ELSE nodes[k]]
<1>2. PICK W \in IF l > loc[t].elevel THEN {{}}
                 ELSE SearchResults(t, loc[t].cand, {}, EfConstruction) :
      \E ns \in Selections(W, M) : Created(ns)
  BY DEF InsertCreate
<1>3. PICK ns \in Selections(W, M) : Created(ns)
  BY <1>2
<1>4. PICK a : Set(t, [loc[t] EXCEPT !.cand = a])
  BY DEF InsertCreate
<1>5. /\ loc[t] \in Locals /\ LocalsOK(pc[t], loc[t], height)
      /\ OwnsOK(pc[t], loc[t], nodes, handle) /\ MarkOK(pc[t], loc[t], nodes, handle)
      /\ FreshOK(pc[t], loc[t], handle)
  BY CallFacts DEF MarkInv
<1>6. /\ e \in Elements /\ l \in Int /\ l \in Levels /\ loc[t].top \in Int
      /\ loc[t].top \in Levels
  BY <1>1, <1>5, LevelFacts, LockSets DEF LocalsOK, InsertPcs
<1>7. PICK p, L : p \in InsertPcs /\ pc'[t] = p /\ loc'[t] = L /\ L.e = e
        /\ \A u \in Threads \ {t} : pc'[u] = pc[u] /\ loc'[u] = loc[u]
  <2>1. [loc[t] EXCEPT !.cand = a].e = e
    BY <1>5 DEF Locals
  <2> QED BY <1>1, <1>4, <2>1 DEF Goto, Set, GraphInv, TypeOK
<1>8. ASSUME NEW k \in Levels
      PROVE  /\ \A x \in Elements \ {e} : nodes'[k][x] = nodes[k][x]
             /\ Exists(nodes'[k], e) => nodes'[k][e].marked = FALSE
  <2>1. nodes[k] \in LevelType
    BY LevelFacts
  <2>2. Exists(nodes[k], e) => nodes[k][e].marked = FALSE
    BY <1>1, <1>5 DEF MarkOK, InsertPcs
  <2>3. CASE k = l
    <3>1. nodes'[k] = [nodes[k] EXCEPT ![e] = NewNode(ns)]
      BY <1>3, <2>3
    <3>2. NewNode(ns).marked = FALSE
      BY DEF NewNode
    <3> QED BY <1>6, <2>1, <3>1, <3>2 DEF LevelType
  <2>4. CASE k = l + 1 /\ l < loc[t].top
    <3>1. nodes'[k] = [nodes[k] EXCEPT ![e].lower = TRUE]
      BY <1>3, <1>6, <2>4
    <3>2. Exists(nodes[k], e)
      BY <1>1, <1>5, <1>6, <2>4 DEF OwnsOK, ChainFrom
    <3>3. nodes[k][e] \in NodeRec
      BY <1>6, <2>1, <3>2, NodeOfLevel
    <3>4. [nodes[k][e] EXCEPT !.lower = TRUE].marked = FALSE
      BY <2>2, <3>2, <3>3 DEF NodeRec
    <3> QED BY <1>6, <2>1, <3>1, <3>4 DEF LevelType
  <2>5. CASE k # l /\ ~(k = l + 1 /\ l < loc[t].top)
    BY <1>3, <2>2, <2>5
  <2> QED BY <2>3, <2>4, <2>5
<1>9. \A x \in Elements \ {loc[t].e} : handle'[x] = handle[x] /\ SameMarks(x)
  BY <1>1, <1>8 DEF SameMarks, Exists
<1>10. p # "mark_lock"
  BY <1>7 DEF InsertPcs
<1>11. MarkOK(p, L, nodes', handle')
  BY <1>7, <1>8, <1>10 DEF MarkOK
<1>12. MarksOwn(t)
  BY <1>7, <1>9, <1>11 DEF MarksOwn
<1> QED BY <1>12, MarksTogether

\* Nodes of the element that is removed are freed.
LEMMA DropMarks ==
  ASSUME GraphInv, MarkInv, NEW t \in Threads, RemoveDrop(t)
  PROVE  MarkInv'
<1>1. pc[t] = "rem_drop" /\ UNCHANGED handle
  BY DEF RemoveDrop
<1>2. PICK l, e : l = loc[t].level /\ e = loc[t].e
  OBVIOUS
<1>3. nodes' = [k \in Levels |->
           IF k = l THEN [nodes[k] EXCEPT ![e] = FreeNode]
           ELSE IF k = l + 1 /\ l < loc[t].top
                THEN [nodes[k] EXCEPT ![e].lower = FALSE]
           ELSE nodes[k]]
  BY <1>2 DEF RemoveDrop
<1>4. /\ loc[t] \in Locals /\ LocalsOK(pc[t], loc[t], height)
  BY CallFacts
<1>5. e \in Elements
  BY <1>1, <1>2, <1>4 DEF LocalsOK, RemovePcs
<1>6. PICK p, L : p \in RemovePcs /\ pc'[t] = p /\ loc'[t] = L /\ L.e = e
        /\ \A u \in Threads \ {t} : pc'[u] = pc[u] /\ loc'[u] = loc[u]
  <2>1. [loc[t] EXCEPT !.level = @ + 1].e = e
    BY <1>2, <1>4 DEF Locals
  <2> QED BY <1>1, <1>2, <2>1 DEF RemoveDrop, Goto, Set, GraphInv, TypeOK, RemovePcs
<1>7. ASSUME NEW k \in Levels, NEW x \in Elements \ {e} PROVE nodes'[k][x] = nodes[k][x]
  BY <1>3, <1>5, LevelFacts DEF LevelType
<1>8. \A x \in Elements \ {loc[t].e} : handle'[x] = handle[x] /\ SameMarks(x)
  BY <1>1, <1>2, <1>7 DEF SameMarks, Exists
<1>9. MarkOK(p, L, nodes', handle')
  BY <1>6 DEF MarkOK, RemovePcs, InsertPcs
<1>10. MarksOwn(t)
  BY <1>2, <1>6, <1>8, <1>9 DEF MarksOwn
<1> QED BY <1>10, MarksTogether

\* mark_delete marks one level more, or the last one and returns.
LEMMA LevelMarks ==
  ASSUME GraphInv, MarkInv, NEW t \in Threads, MarkLevel(t)
  PROVE  MarkInv'
<1>1. pc[t] = "mark_lock" /\ UNCHANGED handle
  BY DEF MarkLevel
<1>2. PICK l, e, m, n : l = loc[t].level /\ e = loc[t].e /\ m = loc[t].mark /\ n = handle[e]
  OBVIOUS
<1>3. /\ loc[t] \in Locals /\ LocalsOK(pc[t], loc[t], height)
      /\ OwnsOK(pc[t], loc[t], nodes, handle) /\ MarkOK(pc[t], loc[t], nodes, handle)
  BY CallFacts DEF MarkInv
<1>4. /\ e \in Elements /\ l \in Levels /\ l \in Int /\ l >= 0 /\ m \in BOOLEAN
      /\ n \in Levels \cup {NoLevel} /\ l <= n /\ ChainFrom(nodes, e, 0, n)
  BY <1>1, <1>2, <1>3, LockSets DEF LocalsOK, OwnsOK, Locals, GraphInv, TypeOK
<1>5. n \in Levels /\ n \in Int /\ 0 .. n \subseteq Levels /\ l \in 0 .. n
  BY <1>4, LockSets DEF NoLevel
<1>6. /\ \A k \in 0 .. l : nodes[k][e].marked = nodes[0][e].marked
      /\ \A k \in 0 .. n : k > l => nodes[k][e].marked = m
  BY <1>1, <1>2, <1>3 DEF MarkOK, Together
<1>7. nodes' = [nodes EXCEPT ![l] = [nodes[l] EXCEPT ![e].marked = m]]
  BY <1>2 DEF MarkLevel, WriteLevel, At
<1>8. nodes[l] \in LevelType /\ nodes[l][e] \in NodeRec /\ nodes \in [Levels -> LevelType]
  BY <1>4, <1>5, LevelFacts, NodeOfLevel DEF ChainFrom
<1>9. ASSUME NEW k \in Levels
      PROVE  /\ \A x \in Elements \ {e} : nodes'[k][x] = nodes[k][x]
             /\ k # l => nodes'[k] = nodes[k]
             /\ k = l => nodes'[k][e].marked = m
  <2>1. [nodes[l][e] EXCEPT !.marked = m].marked = m
    BY <1>8 DEF NodeRec
  <2>2. nodes'[l][e] = [nodes[l][e] EXCEPT !.marked = m]
    BY <1>4, <1>7, <1>8 DEF LevelType
  <2>3. \A x \in Elements \ {e} : nodes'[l][x] = nodes[l][x]
    BY <1>4, <1>7, <1>8 DEF LevelType
  <2>4. \A j \in Levels : j # l => nodes'[j] = nodes[j]
    BY <1>7, <1>8
  <2> QED BY <2>1, <2>2, <2>3, <2>4
<1>10. \A k \in 0 .. n : k >= l => nodes'[k][e].marked = m
  BY <1>4, <1>5, <1>6, <1>9
<1>11. \A x \in Elements \ {loc[t].e} : handle'[x] = handle[x] /\ SameMarks(x)
  BY <1>1, <1>2, <1>9 DEF SameMarks, Exists
<1>12. CASE l # 0
  <2>1. PICK L : L = [loc[t] EXCEPT !.level = l - 1] /\ Set(t, L) /\ UNCHANGED pc
    BY <1>2, <1>12 DEF MarkLevel
  <2>2. L.e = e /\ L.level = l - 1 /\ L.mark = m
    BY <1>2, <1>3, <2>1 DEF Locals
  <2>3. loc'[t] = L /\ pc'[t] = "mark_lock"
        /\ \A u \in Threads \ {t} : pc'[u] = pc[u] /\ loc'[u] = loc[u]
    BY <1>1, <2>1 DEF Set, GraphInv, TypeOK
  <2>4. Together(nodes', e, l - 1)
    <3>1. \A k \in 0 .. (l - 1) : k \in 0 .. l /\ k \in Levels /\ k # l
      BY <1>4, <1>5
    <3>2. 0 \in 0 .. (l - 1)
      BY <1>4, <1>12
    <3> QED BY <1>6, <1>9, <3>1, <3>2 DEF Together
  <2>5. \A k \in 0 .. n : k > l - 1 => nodes'[k][e].marked = m
    BY <1>4, <1>5, <1>10
  <2>6. MarkOK("mark_lock", L, nodes', handle')
    BY <1>1, <1>2, <2>2, <2>4, <2>5 DEF MarkOK, InsertPcs
  <2>7. MarksOwn(t)
    BY <1>2, <1>11, <2>2, <2>3, <2>6 DEF MarksOwn
  <2> QED BY <2>7, MarksTogether
<1>13. CASE l = 0
  <2>1. Return(t)
    BY <1>2, <1>13 DEF MarkLevel
  <2>2. loc'[t] = NoLocals /\ pc'[t] = "idle"
        /\ \A u \in Threads \ {t} : pc'[u] = pc[u] /\ loc'[u] = loc[u]
    BY <2>1 DEF Return, Goto, Set, GraphInv, TypeOK
  <2>3. Together(nodes', e, n)
    BY <1>4, <1>5, <1>10, <1>13 DEF Together
  <2>4. MarkOK("idle", NoLocals, nodes', handle')
    BY DEF MarkOK, InsertPcs
  <2>5. MarksOwn(t)
    BY <1>1, <1>2, <1>11, <2>2, <2>3, <2>4 DEF MarksOwn
  <2> QED BY <2>5, MarksTogether
<1> QED BY <1>12, <1>13

\* A call begins: a new element has no nodes yet, and the nodes of one that is
\* to be marked have one mark.
LEMMA BeginMarks ==
  ASSUME GraphInv, MarkInv, NEW t \in Threads, NEW e \in Elements,
         \/ \E top \in Levels : InsertCall(t, e, top)
         \/ RemoveCall(t, e)
         \/ \E mark \in BOOLEAN : MarkCall(t, e, mark)
  PROVE  MarkInv'
<1>1. ASSUME NEW top, InsertCall(t, e, top) PROVE MarkInv'
  <2>1. /\ pc[t] = "idle" /\ UNCHANGED <<nodes, handle, strayed>>
        /\ \A k \in Levels : ~Exists(nodes[k], e)
    BY <1>1 DEF InsertCall
  <2>2. PICK p \in {"ins_upgrade", "ins_lock"} : Goto(t, p)
    BY <1>1 DEF InsertCall
  <2>3. PICK a, b, c : Set(t, [NoLocals EXCEPT !.e = e, !.top = top, !.elevel = a,
                                               !.level = b, !.cand = c])
    BY <1>1 DEF InsertCall
  <2>4. PICK L : L = [NoLocals EXCEPT !.e = e, !.top = top, !.elevel = a,
                                      !.level = b, !.cand = c]
    OBVIOUS
  <2>5. Set(t, L) /\ L.e = e
    BY <2>3, <2>4 DEF NoLocals
  <2>6. MarkOK(p, L, nodes, handle)
    BY <2>1, <2>2, <2>5 DEF MarkOK
  <2> QED BY <2>1, <2>2, <2>5, <2>6, CallMarks
<1>2. CASE RemoveCall(t, e)
  <2>1. pc[t] = "idle" /\ UNCHANGED <<nodes, handle, strayed>>
    BY <1>2 DEF RemoveCall
  <2>2. PICK p \in {"rem_upgrade", "rem_lock"} : Goto(t, p)
    BY <1>2 DEF RemoveCall
  <2>3. PICK L : Set(t, L)
    BY <1>2 DEF RemoveCall
  <2>4. MarkOK(p, L, nodes, handle)
    BY <2>2 DEF MarkOK, InsertPcs
  <2> QED BY <2>1, <2>2, <2>3, <2>4, CallMarks
<1>3. ASSUME NEW mark \in BOOLEAN, MarkCall(t, e, mark) PROVE MarkInv'
  <2>1. /\ pc[t] = "idle" /\ UNCHANGED <<nodes, handle, strayed>> /\ Unused(e) /\ handle[e] # NoLevel
        /\ Goto(t, "mark_lock")
    BY <1>3 DEF MarkCall
  <2>2. PICK L : L = [NoLocals EXCEPT !.e = e, !.level = handle[e], !.mark = mark]
    OBVIOUS
  <2>3. Set(t, L) /\ L.e = e /\ L.level = handle[e]
    BY <1>3, <2>2 DEF MarkCall, NoLocals
  <2>4. handle[e] \in Int
    BY LockSets DEF GraphInv, TypeOK, NoLevel
  <2>5. Together(nodes, e, handle[e])
    BY <2>1 DEF MarkInv, MarkedTogether, Together
  <2>6. MarkOK("mark_lock", L, nodes, handle)
    BY <2>3, <2>4, <2>5 DEF MarkOK, InsertPcs
  <2> QED BY <2>1, <2>3, <2>6, CallMarks
<1> QED BY <1>1, <1>2, <1>3

\* A call ends: the nodes of a new element are all there and none is marked.
LEMMA EndMarks ==
  ASSUME GraphInv, MarkInv, NEW t \in Threads,
         InsertReturn(t) \/ RemoveReturn(t) \/ KnnReturn(t)
           \/ (FailCall(t) /\ pc[t] # "mark_lock")
  PROVE  MarkInv'
<1>0. /\ LocalsOK(pc[t], loc[t], height) /\ OwnsOK(pc[t], loc[t], nodes, handle)
      /\ FreshOK(pc[t], loc[t], handle) /\ MarkOK(pc[t], loc[t], nodes, handle)
      /\ handle \in [Elements -> Levels \cup {NoLevel}] /\ loc[t].top \in Levels
      /\ pc[t] \in Pcs
  BY CallFacts, LevelFacts DEF MarkInv, GraphInv, TypeOK
<1>1. Return(t) /\ UNCHANGED nodes
  BY DEF InsertReturn, RemoveReturn, KnnReturn, FailCall
<1>2. CASE InsertReturn(t)
  <2>1. pc[t] = "ins_done" /\ handle' = [handle EXCEPT ![loc[t].e] = loc[t].top]
    BY <1>2 DEF InsertReturn
  <2>2. loc[t].e \in Elements /\ ChainFrom(nodes, loc[t].e, 0, loc[t].top)
    BY <1>0, <2>1 DEF LocalsOK, OwnsOK, CreatedPcs, InsertPcs
  <2>3. \A k \in Levels : Exists(nodes[k], loc[t].e) => nodes[k][loc[t].e].marked = FALSE
    BY <1>0, <2>1 DEF MarkOK, InsertPcs
  <2>4. 0 \in 0 .. loc[t].top /\ 0 .. loc[t].top \subseteq Levels
    BY <1>0, LockSets
  <2>5. Together(nodes, loc[t].e, loc[t].top)
    BY <2>2, <2>3, <2>4 DEF Together, ChainFrom
  <2>6. handle'[loc[t].e] = loc[t].top
        /\ \A x \in Elements \ {loc[t].e} : handle'[x] = handle[x]
    BY <1>0, <2>1, <2>2
  <2> QED BY <1>1, <2>5, <2>6, ReturnMarks
<1>3. CASE RemoveReturn(t) \/ (FailCall(t) /\ pc[t] \in RemovePcs)
  <2>1. handle' = [handle EXCEPT ![loc[t].e] = NoLevel] /\ pc[t] \in RemovePcs
    BY <1>3 DEF RemoveReturn, FailCall, RemovePcs
  <2>2. loc[t].e \in Elements
    BY <1>0, <2>1 DEF LocalsOK
  <2>3. handle'[loc[t].e] = NoLevel
        /\ \A x \in Elements \ {loc[t].e} : handle'[x] = handle[x]
    BY <1>0, <2>1, <2>2
  <2> QED BY <1>1, <2>3, ReturnMarks
<1>4. CASE KnnReturn(t) \/ (FailCall(t) /\ pc[t] \notin RemovePcs /\ pc[t] # "mark_lock")
  <2>1. handle' = handle /\ pc[t] \in InsertPcs \cup KnnPcs \cup {"idle"}
    BY <1>0, <1>4 DEF KnnReturn, FailCall, KnnPcs, Pcs
  <2>2. loc[t].e \in Elements => handle[loc[t].e] = NoLevel
    BY <1>0, <2>1, GraphAssumption DEF LocalsOK, FreshOK
  <2> QED BY <1>1, <2>1, <2>2, ReturnMarks
<1> QED BY <1>2, <1>3, <1>4

LEMMA NextMarks ==
  ASSUME GraphInv, MarkInv, [Next]_vars, ~Faults
  PROVE  MarkInv'
<1>1. CASE UNCHANGED vars
  BY <1>1 DEF vars, MarkInv, MarkedTogether, Unused
<1>2. CASE Next
  <2>1. PICK t \in Threads :
    \/ \E e \in Elements, top \in InsertLevels : InsertCall(t, e, top)
    \/ InsertStep(t)
    \/ \E e \in Elements : RemoveCall(t, e)
    \/ RemoveStep(t)
    \/ KnnCall(t)
    \/ KnnStep(t)
    \/ \E e \in Elements, mark \in BOOLEAN : MarkCall(t, e, mark)
    \/ MarkLevel(t)
    \/ ReadFails(t)
    \/ Fail(t)
    BY <1>2 DEF Next
  <2>2. CASE \/ \E e \in Elements, top \in InsertLevels : InsertCall(t, e, top)
             \/ \E e \in Elements : RemoveCall(t, e)
             \/ \E e \in Elements, mark \in BOOLEAN : MarkCall(t, e, mark)
    BY <2>2, BeginMarks, InsertLevelsType
  <2>3. CASE InsertStep(t)
    BY <2>3, QuietInsert, LinkMarks, ReplacedMarks, CreateMarks, EndMarks DEF InsertStep
  <2>4. CASE RemoveStep(t)
    BY <2>4, QuietRemove, ReplacedMarks, UnlinkMarks, RepairMarks, DropMarks, EndMarks
    DEF RemoveStep
  <2>5. CASE KnnCall(t) \/ KnnStep(t)
    BY <2>5, QuietKnn, EndMarks DEF KnnStep
  <2>6. CASE MarkLevel(t)
    BY <2>6, LevelMarks
  <2>7. CASE ReadFails(t) \/ Fail(t)
    BY <2>7, EndMarks DEF ReadFails, ReadsFreed, Fail
  <2> QED BY <2>1, <2>2, <2>3, <2>4, <2>5, <2>6, <2>7
<1> QED BY <1>1, <1>2

\* Unless a read or a write fails within mark_delete, the nodes of an element
\* that no call works on have one mark, from its highest level down to level 0,
\* whatever calls link, repair or remove its neighbours while it is marked: the
\* marks a call has set so far and those it has yet to set are told apart by the
\* level it is at, and no other call writes a mark.
THEOREM MarkedAsOne ==
  ASSUME ~Faults
  PROVE  Spec => []MarkedTogether
<1>1. Init => MarkInv
  BY DEF Init, MarkInv, MarkedTogether, MarkOK, InsertPcs
<1>2. GraphInv /\ MarkInv /\ [Next]_vars => MarkInv'
  BY NextMarks
<1>3. MarkInv => MarkedTogether
  BY DEF MarkInv
<1> QED BY <1>1, <1>2, <1>3, GraphInvHolds, PTL DEF Spec
===============================================================================
