----------------------------- MODULE StoreLatches -----------------------------
(***************************************************************************)
(* The page latches of concurrent inserts into one HNSW index:             *)
(* ColumnStore::insert in stores that share the segments of the first      *)
(* store, called while the caller's mini-transaction holds a node record   *)
(* (create_node the node above, link_neighbours the neighbour).            *)
(*                                                                         *)
(* A store is its root page and one data page, which stands for the page   *)
(* of the list that the calls meet on.  What is on the pages is left out:  *)
(* whether a page is listed, has its last free record or an overflow       *)
(* record has room may go either way.                                      *)
(***************************************************************************)
EXTENDS Naturals, FiniteSets

CONSTANTS
  Threads,
  MaxLevel,    \* highest level of the index
  LinkLevels   \* levels on which neighbours are linked

Levels == 0 .. MaxLevel

\* root_index.
NodeStore(l) == 2 * l

OverflowStore(l) == 2 * l + 1

Stores == 0 .. OverflowStore(MaxLevel)

Root(i) == [kind |-> "root", store |-> i]

Data(i) == [kind |-> "data", store |-> i]

VARIABLES
  held,   \* the latches of a thread, each with its mode
  pc,     \* the latch a thread asks for next
  store   \* the store a thread inserts into

vars == <<held, pc, store>>

Pcs == {"idle", "above", "neighbour", "chain", "shared", "page", "exclusive",
        "again", "owner", "head"}

Init ==
  /\ held = [t \in Threads |-> {}]
  /\ pc = [t \in Threads |-> "idle"]
  /\ store = [t \in Threads |-> 0]

\* The latch asked for, if any.
Wanted(t) ==
  LET i == store[t]
  IN  CASE pc[t] = "idle"      -> {}
        [] pc[t] = "above"     -> {<<Data(i + 2), "X">>}
        [] pc[t] = "neighbour" -> {<<Data(i - 1), "X">>}
        [] pc[t] = "shared"    -> {<<Root(i), "S">>}
        [] pc[t] = "exclusive" -> {<<Root(i), "X">>}
        [] pc[t] = "owner"     -> {<<Root(0), "X">>}
        [] pc[t] \in {"chain", "page", "again", "head"} -> {<<Data(i), "X">>}

\* Page::load waits for the latches of other threads.
WaitsFor(t, u) ==
  /\ t # u
  /\ \E w \in Wanted(t), h \in held[u] : w[1] = h[1] /\ "X" \in {w[2], h[2]}

Granted(t) == \A u \in Threads : ~WaitsFor(t, u)

\* t gets the latch it asks for, drops those on the pages in released, and goes
\* on to ask for the next; at "idle" its mini-transactions are committed.
Proceed(t, from, to, released) ==
  /\ pc[t] = from /\ Granted(t)
  /\ pc' = [pc EXCEPT ![t] = to]
  /\ held' = [held EXCEPT ![t] =
                IF to = "idle" THEN {}
                ELSE {h \in @ \cup Wanted(t) : h[1] \notin released}]
  /\ UNCHANGED store

-------------------------------------------------------------------------------
(* The callers.                                                            *)

\* create_node: on the top level of the new element there is no node above.
CreateNode(t, l) ==
  /\ pc[t] = "idle"
  /\ \E first \in {"shared"} \cup (IF l < MaxLevel THEN {"above"} ELSE {}) :
       pc' = [pc EXCEPT ![t] = first]
  /\ store' = [store EXCEPT ![t] = NodeStore(l)]
  /\ UNCHANGED held

FetchAbove(t) == Proceed(t, "above", "shared", {})

\* link_neighbours: one neighbour.
LinkNeighbour(t, l) ==
  /\ pc[t] = "idle"
  /\ pc' = [pc EXCEPT ![t] = "neighbour"]
  /\ store' = [store EXCEPT ![t] = OverflowStore(l)]
  /\ UNCHANGED held

\* The neighbour has room, or add_overflow_incoming walks its overflow records,
\* or it has none yet.
FetchNeighbour(t) ==
  \E next \in {"idle", "chain", "shared"} : Proceed(t, "neighbour", next, {})

\* An overflow record, in a mini-transaction of its own: it has room, or there
\* is another one, or a new one is inserted.
FetchOverflow(t) ==
  \E next \in {"idle", "chain", "shared"} :
    Proceed(t, "chain", next, {Data(store[t])})

-------------------------------------------------------------------------------
(* ColumnStore::insert.                                                    *)

\* A page is selected under the shared root latch, or the call falls back.
LatchShared(t) ==
  \/ Proceed(t, "shared", "page", {})
  \/ Proceed(t, "shared", "exclusive", {Root(store[t])})

\* The page has room, or its last free record.
LatchPage(t) ==
  \/ Proceed(t, "page", "idle", {})
  \/ Proceed(t, "page", "exclusive", {Root(store[t]), Data(store[t])})

\* A page is selected again, or one is allocated: from the first root page,
\* which is the store's own or is latched too.  A new page is put in front of
\* the head of the list, if there is any.
LatchExclusive(t) ==
  \/ Proceed(t, "exclusive", "again", {})
  \/ /\ store[t] # 0
     /\ Proceed(t, "exclusive", "owner", {})
  \/ /\ store[t] = 0
     /\ \E next \in {"head", "idle"} : Proceed(t, "exclusive", next, {})

\* The latch is dropped when the page is allocated.
LatchOwner(t) ==
  \E next \in {"head", "idle"} : Proceed(t, "owner", next, {Root(0)})

LatchAgain(t) == Proceed(t, "again", "idle", {})

LatchHead(t) == Proceed(t, "head", "idle", {})

Next ==
  \E t \in Threads :
    \/ \E l \in Levels : CreateNode(t, l)
    \/ \E l \in LinkLevels : LinkNeighbour(t, l)
    \/ FetchAbove(t) \/ FetchNeighbour(t) \/ FetchOverflow(t)
    \/ LatchShared(t) \/ LatchPage(t) \/ LatchExclusive(t)
    \/ LatchOwner(t) \/ LatchAgain(t) \/ LatchHead(t)

Spec == Init /\ [][Next]_vars

-------------------------------------------------------------------------------
(* Properties.                                                             *)

\* "Any future code that takes both must follow this same order to avoid
\* deadlock": threads that insert into stores of one index do not wait for page
\* latches in a circle.
NoLatchCircle ==
  \A S \in SUBSET Threads :
    S # {} => \E t \in S : \A u \in S : ~WaitsFor(t, u)
===============================================================================
