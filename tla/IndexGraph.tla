------------------------------ MODULE IndexGraph ------------------------------
(***************************************************************************)
(* The link bookkeeping of IndexGraph (index/hnsw/graph.cc) as operators   *)
(* on the nodes of one level: a function nd from elements to node records. *)
(* The node of element e on level l is nd[e] of that level, so a reference *)
(* to a node is the element and the level it is used on.                   *)
(*                                                                         *)
(* The neighbour list of a record has MaxNeighbours(l) slots.  A slot      *)
(* names an outgoing link (out) or, flagged, an incoming one (inc); the    *)
(* overflow chain (ovf) records incoming links that found no slot.  The    *)
(* slot a link sits in and the chain entry it is kept in tell nothing, so  *)
(* each of the three is a set.                                             *)
(***************************************************************************)
EXTENDS Integers, FiniteSets, FiniteSetsExt

CONSTANTS
  Elements,        \* the vectors that can be in the index
  Nil,             \* the invalid NID
  FreeNode,        \* a node record that is free
  MaxLevel,        \* IndexStore::max_level
  M,               \* the target degree
  EfConstruction   \* the width of a search that builds the graph

ASSUME GraphAssumption ==
  /\ IsFiniteSet(Elements)
  /\ Nil \notin Elements
  /\ MaxLevel \in Nat
  /\ M \in Nat \ {0}
  /\ EfConstruction \in Nat /\ EfConstruction >= M

Levels == 0 .. MaxLevel

\* LevelStore::max_neighbours
MaxNeighbours(l) == IF l = 0 THEN 2 * M ELSE M

\* lower: the LowerLevel field names the element's node one level down.
NodeRec ==
  [out : SUBSET Elements, inc : SUBSET Elements, ovf : SUBSET Elements,
   lower : BOOLEAN, marked : BOOLEAN]

ASSUME NodeAssumption == FreeNode \notin NodeRec

Exists(nd, x) == nd[x] # FreeNode

Primary(rec) == rec.out \cup rec.inc

Recorded(rec) == rec.out \cup rec.inc \cup rec.ovf

\* The subsets of S that a heuristic limited to n may select: never empty
\* when S is not, because the nearest candidate is dominated by nothing.
Selections(S, n) ==
  IF S = {} THEN {{}} ELSE {T \in SUBSET S : T # {} /\ Cardinality(T) <= n}

-------------------------------------------------------------------------------
(* Traversal.                                                              *)

\* What LayerOperations::search can visit from the nodes in from: neighbours
\* follows outgoing links only, and avoid holds the query node.
Reachable(nd, from, avoid) ==
  LET next(S) == S \cup UNION {nd[y].out : y \in {z \in S : Exists(nd, z)}}
      r[n \in 0 .. Cardinality(Elements)] ==
        IF n = 0 THEN from \ avoid ELSE next(r[n - 1]) \ avoid
  IN  r[Cardinality(Elements)]

\* The results of a search of width ef from seeds, whatever the distances
\* are: every seed is a result until a nearer node takes its place.
Found(nd, seeds, avoid, ef) ==
  LET S == Reachable(nd, seeds, avoid)
      n == Max({ef, Cardinality(seeds \ avoid)})
  IN  {W \in SUBSET S : Cardinality(W) = Min({Cardinality(S), n})}

-------------------------------------------------------------------------------
(* Linking.                                                                *)

\* create_node: the links to the neighbours start as incoming ones.
NewNode(neighbours) ==
  [out |-> {}, inc |-> neighbours, ovf |-> {}, lower |-> FALSE,
   marked |-> FALSE]

\* One neighbour of link_neighbours_locked: a slot of its list, or its chain.
HasRoom(rec, l) == Cardinality(Primary(rec)) < MaxNeighbours(l)

LinkBack(rec, l, x) ==
  IF HasRoom(rec, l) THEN [rec EXCEPT !.out = @ \cup {x}]
                     ELSE [rec EXCEPT !.ovf = @ \cup {x}]

\* The last update of link_neighbours_locked.
ConfirmLinks(rec) == [rec EXCEPT !.out = @ \cup rec.inc, !.inc = {}]

\* drop_neighbour_link where the neighbour has no outgoing link to x.
ForgetLink(rec, x) ==
  IF x \in rec.inc THEN [rec EXCEPT !.inc = @ \ {x}]
                   ELSE [rec EXCEPT !.ovf = @ \ {x}]

\* replace_neighbours.  A dropped neighbour that links to x itself keeps its
\* link and moves to x's chain; the others forget x.  A new neighbour found
\* in x's chain is promoted; the others are linked back.
Promoted(nd, x, new) == (new \ Primary(nd[x])) \cap nd[x].ovf

ToLink(nd, x, new) == (new \ nd[x].out) \ Promoted(nd, x, new)

LinksTo(nd, y, x) == Exists(nd, y) /\ x \in nd[y].out

\* Mutant: a dropped neighbour that still links to x is not kept in x's chain.
ReplaceLosingLinks(nd, l, x, new) ==
  LET dropped == Primary(nd[x]) \ new
      kept    == {d \in dropped : LinksTo(nd, d, x)}
  IN  [y \in Elements |->
         IF y = x
         THEN [nd[x] EXCEPT !.out = new, !.inc = {},
                            !.ovf = @ \ Promoted(nd, x, new)]
         ELSE IF ~Exists(nd, y) THEN nd[y]
         ELSE IF y \in dropped \ kept THEN ForgetLink(nd[y], x)
         ELSE IF y \in ToLink(nd, x, new) THEN LinkBack(nd[y], l, x)
         ELSE nd[y]]

ReplaceNeighbours(nd, l, x, new) ==
  LET dropped == Primary(nd[x]) \ new
      kept    == {d \in dropped : LinksTo(nd, d, x)}
  IN  [y \in Elements |->
         IF y = x
         THEN [nd[x] EXCEPT !.out = new, !.inc = {},
                            !.ovf = (@ \ Promoted(nd, x, new)) \cup kept]
         ELSE IF ~Exists(nd, y) THEN nd[y]
         ELSE IF y \in dropped \ kept THEN ForgetLink(nd[y], x)
         ELSE IF y \in ToLink(nd, x, new) THEN LinkBack(nd[y], l, x)
         ELSE nd[y]]

\* The neighbours replace_neighbours reports as having had no room.
Withheld(nd, l, x, new) ==
  {y \in ToLink(nd, x, new) : Exists(nd, y) /\ ~HasRoom(nd[y], l)}

-------------------------------------------------------------------------------
(* Unlinking.                                                              *)

\* The neighbours unlink_neighbour finds a record of x at, and those of them
\* left without an outgoing link.
Severed(nd, x) ==
  {y \in Recorded(nd[x]) : Exists(nd, y) /\ x \in Recorded(nd[y])}

Orphaned(nd, x) == {y \in Severed(nd, x) : nd[y].out \subseteq {x}}

SeverLink(rec, x) ==
  IF x \in Primary(rec) THEN [rec EXCEPT !.out = @ \ {x}, !.inc = @ \ {x}]
                        ELSE [rec EXCEPT !.ovf = @ \ {x}]

\* Mutant: the links recorded in x's chain are not severed.
UnlinkOwnList(nd, x) ==
  [y \in Elements |->
     IF y = x
     THEN [nd[x] EXCEPT !.out = {},
                        !.inc = Primary(nd[x]) \cap Orphaned(nd, x),
                        !.ovf = @ \cap Orphaned(nd, x)]
     ELSE IF y \in Severed(nd, x) \cap Primary(nd[x]) THEN SeverLink(nd[y], x)
     ELSE nd[y]]

\* unlink_neighbours: orphans stay behind on x as incoming links.
UnlinkNeighbours(nd, x) ==
  [y \in Elements |->
     IF y = x
     THEN [nd[x] EXCEPT !.out = {},
                        !.inc = Primary(nd[x]) \cap Orphaned(nd, x),
                        !.ovf = @ \cap Orphaned(nd, x)]
     ELSE IF y \in Severed(nd, x) THEN SeverLink(nd[y], x)
     ELSE nd[y]]

\* incoming_neighbours: after unlink_neighbours, the orphans.
IncomingNeighbours(rec) == rec.inc \cup rec.ovf

\* What unlink_neighbours returns: severed neighbours that are no orphans, as
\* many as a list has slots, those of x's own list before those of its chain.
Unlinked(nd, l, x) ==
  LET all   == Severed(nd, x) \ Orphaned(nd, x)
      first == all \cap Primary(nd[x])
  IN  {U \in SUBSET all :
         /\ Cardinality(U) = Min({Cardinality(all), MaxNeighbours(l)})
         /\ U \subseteq first \/ first \subseteq U}

\* unlinked.front(), or Nil.
Front(nd, x, U) ==
  LET first == U \cap Primary(nd[x])
  IN  IF U = {} THEN {Nil} ELSE IF first # {} THEN first ELSE U
===============================================================================
