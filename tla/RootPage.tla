------------------------------- MODULE RootPage -------------------------------
(***************************************************************************)
(* The root page of a column store (storage/root_page.{h,cc}): the array   *)
(* of free slots, each the head of a doubly linked list of pages with free *)
(* records, and the list of all data pages.                                *)
(*                                                                         *)
(* The operators that write data pages besides the root take and return    *)
(* both: a record with the fields root and pages.  Slots at or beyond      *)
(* cur are never initialised in the page, so head has domain 0 .. cur - 1. *)
(***************************************************************************)
EXTENDS DataPage

CONSTANT GrowStep   \* MAX_FREE_SLOT_STEP

ASSUME GrowAssumption == GrowStep \in Nat \ {0}

\* A root page whose slot array has grown to n slots.
RootOfSize(n) ==
  [cur : {n}, head : [0 .. (n - 1) -> Pages \cup {NullRef}],
   dataHead : Pages \cup {NullRef}, dataTail : Pages \cup {NullRef},
   totalData : Int, totalFree : Int]

RootType == UNION {RootOfSize(n) : n \in 1 .. MaxSlots}

\* RootPage::format: one empty slot (NUM_FREE_SLOTS_INITIAL), no data page.
FormattedRoot ==
  [cur       |-> 1,
   head      |-> [k \in 0 .. 0 |-> NullRef],
   dataHead  |-> NullRef,
   dataTail  |-> NullRef,
   totalData |-> 0,
   totalFree |-> 0]

\* RootPage::grow_free_slots, as built without its assertion.
GrowFreeSlots(root) ==
  LET new == Min({root.cur + Min({root.cur, GrowStep}), MaxSlots})
  IN  [root EXCEPT !.cur = new,
                   !.head = [k \in 0 .. (new - 1) |->
                               IF k < root.cur THEN root.head[k] ELSE NullRef]]

\* Mutant: the new head does not point at the rest of the list.
AddFreeLosingList(root, pages, p, k) ==
  [root  |-> [root EXCEPT !.head[k] = p, !.totalFree = @ + 1],
   pages |-> [pages EXCEPT ![p].prevFree = RootRef, ![p].slot = k]]

\* RootPage::add_free_page: p becomes the head of slot k's list.
AddFreePage(root, pages, p, k) ==
  LET old == root.head[k]
  IN  [root  |-> [root EXCEPT !.head[k] = p, !.totalFree = @ + 1],
       pages |-> [q \in Pages |->
                    IF q = p
                    THEN [pages[p] EXCEPT !.prevFree = RootRef,
                                          !.nextFree = old,
                                          !.slot     = k]
                    ELSE IF q = old THEN [pages[q] EXCEPT !.prevFree = p]
                    ELSE pages[q]]]

\* Mutant: the successor keeps pointing back at the page that was removed.
RemoveFreeOneSided(root, pages, p) ==
  [root  |-> [root EXCEPT !.head[pages[p].slot] = pages[p].nextFree,
                          !.totalFree = @ - 1],
   pages |-> [pages EXCEPT ![p].prevFree = NullRef, ![p].nextFree = NullRef]]

\* RootPage::remove_free_page: p leaves its list.  The slot number written
\* in p by add_free_page stays.
RemoveFreePage(root, pages, p) ==
  LET prv == pages[p].prevFree
      nxt == pages[p].nextFree
  IN  [root  |-> [root EXCEPT !.head = IF prv = RootRef
                                       THEN [@ EXCEPT ![pages[p].slot] = nxt]
                                       ELSE @,
                              !.totalFree = @ - 1],
       pages |-> [q \in Pages |->
                    IF q = p
                    THEN [pages[p] EXCEPT !.prevFree = NullRef,
                                          !.nextFree = NullRef]
                    ELSE [pages[q] EXCEPT
                            !.nextFree = IF q = prv THEN nxt ELSE @,
                            !.prevFree = IF q = nxt THEN prv ELSE @]]]

\* Mutant: the new head of the data list does not keep the old head.
AddDataDroppingTail(root, pages, p) ==
  [root  |-> [root EXCEPT !.dataHead = p, !.totalData = @ + 1,
                          !.dataTail = IF @ = NullRef THEN p ELSE @],
   pages |-> pages]

\* RootPage::add_data_page: p becomes the head of the list of all pages.
AddDataPage(root, pages, p) ==
  LET old == root.dataHead
  IN  [root  |-> [root EXCEPT !.dataHead  = p,
                              !.dataTail  = IF old = NullRef THEN p ELSE @,
                              !.totalData = @ + 1],
       pages |-> [q \in Pages |->
                    IF q = p
                    THEN [pages[p] EXCEPT !.prev = NullRef, !.next = old]
                    ELSE IF q = old THEN [pages[q] EXCEPT !.prev = p]
                    ELSE pages[q]]]

\* RootPage::get_free_slot: the first empty slot, else any slot at random.
GetFreeSlot(root) ==
  LET empty == {k \in 0 .. (root.cur - 1) : root.head[k] = NullRef}
  IN  IF empty # {} THEN {Min(empty)} ELSE 0 .. (root.cur - 1)
===============================================================================
