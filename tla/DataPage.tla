------------------------------- MODULE DataPage -------------------------------
(***************************************************************************)
(* A data page of a column store (storage/data_page.{h,cc}) as a record,   *)
(* and the functions of struct DataPage as operators on that record.       *)
(*                                                                         *)
(* A page holds MaxRecs records.  The bitmap keeps RecsPerByte records per *)
(* byte (4 in the code: two bits each), so its last byte may also cover    *)
(* positions past the last record.  Those padding positions are zero, and  *)
(* a zero position reads as free; the field recs is therefore indexed by   *)
(* every position of the bitmap and not only by the records.               *)
(*                                                                         *)
(* What a free record holds is never read, so a free record is FreeRec.    *)
(***************************************************************************)
EXTENDS Integers, FiniteSets, FiniteSetsExt

CONSTANTS
  Pages,           \* the page references the segment can hand out
  RootRef,         \* the reference of the store's root page
  NullRef,         \* Page::INVALID_REF, also RootPage::NULL_FREE_PAGE_REF
  Trx,             \* transaction references
  Data,            \* column values
  FreeRec,         \* a record whose free bit is 0
  MaxRecs,         \* m_max_num_recs
  RecsPerByte,     \* records covered by one bitmap byte
  MinFreePercent,  \* MIN_FREE_PERCENT_FOR_FREE_LIST
  MaxSlots         \* m_max_free_slots of the root page

ASSUME PageAssumption ==
  /\ RootRef \notin Pages
  /\ NullRef \notin Pages
  /\ RootRef # NullRef
  /\ IsFiniteSet(Pages)

ASSUME LayoutAssumption ==
  /\ MaxRecs \in Nat \ {0}
  /\ RecsPerByte \in Nat \ {0}
  /\ MinFreePercent \in Nat
  /\ MaxSlots \in 1 .. 65534

ASSUME RecordAssumption ==
  FreeRec \notin [trx : Trx, data : Data, marked : BOOLEAN]

\* DataPage::INVALID_SLOT
INVALID_SLOT == 65535

SlotNumbers == 0 .. (MaxSlots - 1)

Record == [trx : Trx, data : Data, marked : BOOLEAN]

\* The record indexes, and the positions of the bitmap with its padding.
RecIndexes == 0 .. (MaxRecs - 1)

NumBitmapBytes == (MaxRecs + RecsPerByte - 1) \div RecsPerByte

BitmapPositions == 0 .. (NumBitmapBytes * RecsPerByte - 1)

ByteOf(i) == i \div RecsPerByte

DataPageType ==
  [slot     : SlotNumbers \cup {INVALID_SLOT},
   prevFree : Pages \cup {RootRef, NullRef},
   nextFree : Pages \cup {NullRef},
   prev     : Pages \cup {NullRef},
   next     : Pages \cup {NullRef},
   numFree  : Int,
   recs     : [BitmapPositions -> Record \cup {FreeRec}]]

-------------------------------------------------------------------------------
(* DataPage::format: no free-list membership, every record free.           *)

FormattedPage ==
  [slot     |-> INVALID_SLOT,
   prevFree |-> NullRef,
   nextFree |-> NullRef,
   prev     |-> NullRef,
   next     |-> NullRef,
   numFree  |-> MaxRecs,
   recs     |-> [i \in BitmapPositions |-> FreeRec]]

\* Mutant: the page leaves its list one insert too late.
HasNoFreeSlot(pg) == pg.numFree = 0

\* DataPage::has_last_free_slot
HasLastFreeSlot(pg) == pg.numFree = 1

\* DataPage::needs_add_to_free_list
NeedsAddToFreeList(pg, prePurge) ==
  /\ pg.slot = INVALID_SLOT
  /\ LET n == IF prePurge /\ pg.numFree < MaxRecs THEN pg.numFree + 1
                                                  ELSE pg.numFree
     IN  (n * 100) \div MaxRecs > MinFreePercent

-------------------------------------------------------------------------------
(* DataPage::find_free_slot.  The hint is tried first.  Then the bitmap is *)
(* scanned byte by byte from the hint's byte to the end, padding included, *)
(* and then from the beginning up to the hint's byte.  When nothing is     *)
(* found the caller goes on with slot 0, the value it passed in.           *)

FreePositions(pg) == {i \in BitmapPositions : pg.recs[i] = FreeRec}

FindFreeSlot(pg, hint) ==
  LET tail == {i \in FreePositions(pg) : ByteOf(i) >= ByteOf(hint)}
  IN  IF hint < MaxRecs /\ pg.recs[hint] = FreeRec THEN hint
      ELSE IF tail # {} THEN Min(tail)
      ELSE IF FreePositions(pg) # {} THEN Min(FreePositions(pg))
      ELSE 0

\* Mutant: the free-record counter is not written back.
InsertWithoutCount(pg, i, trx, data) ==
  [pg EXCEPT !.recs[i] = [trx |-> trx, data |-> data, marked |-> FALSE]]

\* DataPage::insert on the slot find_free_slot chose.
InsertRecord(pg, i, trx, data) ==
  [pg EXCEPT !.recs = [@ EXCEPT ![i] = [trx |-> trx, data |-> data,
                                        marked |-> FALSE]],
             !.numFree = @ - 1]

\* Mutant: the hint does not wrap around after the last record.
NextHintWithoutWrap(i) == i + 1

\* Step 7 of DataPage::insert: the thread's hint for its next insert.
NextHint(i) == IF i + 1 >= MaxRecs THEN 0 ELSE i + 1

\* The guards of DataPage::purge: the record exists and trx wrote it last.
Purges(pg, i, trx) ==
  /\ pg.recs[i] # FreeRec
  /\ pg.recs[i].trx = trx

\* DataPage::purge once the guards hold.
PurgeRecord(pg, i) ==
  [pg EXCEPT !.recs = [@ EXCEPT ![i] = FreeRec], !.numFree = @ + 1]

\* Mutant: the mask of the mark covers the records after i too.
MarkRecordsFrom(pg, i, trx, mark) ==
  [pg EXCEPT !.recs = [j \in BitmapPositions |->
                         IF j < i \/ @[j] = FreeRec THEN @[j]
                         ELSE [@[j] EXCEPT !.marked = mark, !.trx = trx]]]

\* set_record_delete and set_record_undelete, and the transaction reference.
MarkRecord(pg, i, trx, mark) ==
  [pg EXCEPT !.recs[i].marked = mark, !.recs[i].trx = trx]
===============================================================================
