--------------------------- MODULE ColumnStoreProofs ---------------------------
(***************************************************************************)
(* Proofs about ColumnStore for every number of threads, pages, records    *)
(* and slots: type correctness, freedom from latch deadlock, the linking   *)
(* of the free lists, and that what is written is latched.                 *)
(***************************************************************************)
EXTENDS ColumnStore, FiniteSetTheorems, FiniteInduction

-------------------------------------------------------------------------------
(* What the operations of a data page and of a root page return.           *)

\* Min of a nonempty set of naturals is its least element.
LEMMA MinNat ==
  ASSUME NEW S \in SUBSET Nat, S # {}
  PROVE  Min(S) \in S /\ \A y \in S : Min(S) <= y
<1>1. \E x \in S : \A y \in S : x <= y
  BY LeastNat
<1> QED BY <1>1 DEF Min

\* What LayoutAssumption says of slots and of records.
LEMMA SlotLimits ==
  /\ MaxSlots \in Nat /\ 1 <= MaxSlots
  /\ INVALID_SLOT \in Nat /\ MaxSlots < INVALID_SLOT
BY LayoutAssumption, SMTT(30) DEF INVALID_SLOT

LEMMA RecLimits == MaxRecs \in Nat /\ 1 <= MaxRecs
BY LayoutAssumption, SMTT(30)

\* Slot numbers, and the slots of an array of n slots among them: a slot number
\* below n is not INVALID_SLOT.
LEMMA SlotIsNat ==
  ASSUME NEW k \in SlotNumbers \cup {INVALID_SLOT} PROVE k \in Nat
BY SlotLimits DEF SlotNumbers

LEMMA SlotOfArray ==
  ASSUME NEW n \in 1 .. MaxSlots, NEW k \in 0 .. (n - 1)
  PROVE  k \in SlotNumbers
BY SlotLimits DEF SlotNumbers

LEMMA SlotBelow ==
  ASSUME NEW n \in 1 .. MaxSlots, NEW k \in SlotNumbers \cup {INVALID_SLOT}, k < n
  PROVE  k \in 0 .. (n - 1)
BY SlotLimits, SlotIsNat

\* The bitmap covers every record, in whole bytes.
LEMMA BitmapCovers ==
  /\ BitmapPositions \subseteq Nat
  /\ RecIndexes \subseteq BitmapPositions
  /\ 0 \in RecIndexes
<1>1. /\ NumBitmapBytes * RecsPerByte \in Nat
      /\ NumBitmapBytes * RecsPerByte >= MaxRecs
  BY LayoutAssumption DEF NumBitmapBytes
<1> QED BY <1>1, RecLimits DEF BitmapPositions, RecIndexes

\* find_free_slot stays inside the bitmap.
LEMMA FindInBitmap ==
  ASSUME NEW pg, NEW hint \in RecIndexes
  PROVE  FindFreeSlot(pg, hint) \in BitmapPositions
<1> DEFINE F == FreePositions(pg)
           T == {i \in F : ByteOf(i) >= ByteOf(hint)}
<1>1. F \subseteq BitmapPositions /\ T \subseteq F
  BY DEF FreePositions
<1>2. (T # {} => Min(T) \in T) /\ (F # {} => Min(F) \in F)
  <2>1. F \in SUBSET Nat /\ T \in SUBSET Nat
    BY <1>1, BitmapCovers
  <2> HIDE DEF F, T
  <2> QED BY <2>1, MinNat
<1>3. \/ FindFreeSlot(pg, hint) = hint
      \/ T # {} /\ FindFreeSlot(pg, hint) = Min(T)
      \/ F # {} /\ FindFreeSlot(pg, hint) = Min(F)
      \/ FindFreeSlot(pg, hint) = 0
  BY DEF FindFreeSlot
<1> HIDE DEF F, T
<1> QED BY <1>1, <1>2, <1>3, BitmapCovers

\* What membership in DataPageType says, field by field, and back.
LEMMA PageFields ==
  ASSUME NEW pg \in DataPageType
  PROVE  /\ pg.slot \in SlotNumbers \cup {INVALID_SLOT}
         /\ pg.prevFree \in Pages \cup {RootRef, NullRef}
         /\ pg.nextFree \in Pages \cup {NullRef}
         /\ pg.prev \in Pages \cup {NullRef}
         /\ pg.next \in Pages \cup {NullRef}
         /\ pg.numFree \in Int
         /\ pg.recs \in [BitmapPositions -> Record \cup {FreeRec}]
         /\ pg = [slot |-> pg.slot, prevFree |-> pg.prevFree,
                  nextFree |-> pg.nextFree, prev |-> pg.prev,
                  next |-> pg.next, numFree |-> pg.numFree, recs |-> pg.recs]
BY DEF DataPageType

\* A record of well-typed fields is a page.
LEMMA PageIntro ==
  ASSUME NEW k \in SlotNumbers \cup {INVALID_SLOT},
         NEW a \in Pages \cup {RootRef, NullRef},
         NEW b \in Pages \cup {NullRef}, NEW c \in Pages \cup {NullRef},
         NEW d \in Pages \cup {NullRef}, NEW n \in Int,
         NEW f \in [BitmapPositions -> Record \cup {FreeRec}]
  PROVE  [slot |-> k, prevFree |-> a, nextFree |-> b, prev |-> c, next |-> d,
          numFree |-> n, recs |-> f] \in DataPageType
BY DEF DataPageType

\* DataPage::insert writes one record and takes one off the counter.
LEMMA InsertRecordFacts ==
  ASSUME NEW pg \in DataPageType, NEW i \in BitmapPositions,
         NEW trx \in Trx, NEW data \in Data
  PROVE  LET ins == InsertRecord(pg, i, trx, data)
         IN  /\ ins \in DataPageType
             /\ ins.numFree = pg.numFree - 1
             /\ ins.slot = pg.slot
             /\ ins.prevFree = pg.prevFree
             /\ ins.nextFree = pg.nextFree
<1> DEFINE rec == [trx |-> trx, data |-> data, marked |-> FALSE]
           new == [pg.recs EXCEPT ![i] = rec]
<1>1. rec \in Record
  BY DEF Record
<1>2. new \in [BitmapPositions -> Record \cup {FreeRec}]
  <2> HIDE DEF rec
  <2> QED BY <1>1 DEF DataPageType
<1>3. InsertRecord(pg, i, trx, data)
        = [pg EXCEPT !.recs = new, !.numFree = pg.numFree - 1]
  BY DEF InsertRecord
<1>4. pg.numFree - 1 \in Int
  BY DEF DataPageType
<1> QED
  <2> HIDE DEF new
  <2>1. InsertRecord(pg, i, trx, data) \in DataPageType
    BY <1>2, <1>3, <1>4 DEF DataPageType
  <2>2. /\ InsertRecord(pg, i, trx, data).numFree = pg.numFree - 1
        /\ InsertRecord(pg, i, trx, data).slot = pg.slot
        /\ InsertRecord(pg, i, trx, data).prevFree = pg.prevFree
        /\ InsertRecord(pg, i, trx, data).nextFree = pg.nextFree
    BY <1>3, <1>4 DEF DataPageType
  <2> QED BY <2>1, <2>2, Zenon DEF new

\* The hint stays among the records.
LEMMA NextHintType ==
  ASSUME NEW i \in BitmapPositions
  PROVE  NextHint(i) \in RecIndexes
BY BitmapCovers, RecLimits DEF NextHint, RecIndexes

\* DataPage::purge frees one record and adds one to the counter.
LEMMA PurgeRecordFacts ==
  ASSUME NEW pg \in DataPageType, NEW i \in RecIndexes
  PROVE  LET pur == PurgeRecord(pg, i)
         IN  /\ pur \in DataPageType
             /\ pur.numFree = pg.numFree + 1
             /\ pur.slot = pg.slot
             /\ pur.prevFree = pg.prevFree
             /\ pur.nextFree = pg.nextFree
             /\ pur.recs = [pg.recs EXCEPT ![i] = FreeRec]
<1> DEFINE new == [pg.recs EXCEPT ![i] = FreeRec]
<1>1. new \in [BitmapPositions -> Record \cup {FreeRec}]
  BY BitmapCovers DEF DataPageType
<1>2. PurgeRecord(pg, i) = [pg EXCEPT !.recs = new, !.numFree = pg.numFree + 1]
  BY DEF PurgeRecord
<1>3. pg.numFree + 1 \in Int
  BY DEF DataPageType
<1> QED
  <2> HIDE DEF new
  <2>1. PurgeRecord(pg, i) \in DataPageType
    BY <1>1, <1>2, <1>3 DEF DataPageType
  <2>2. /\ PurgeRecord(pg, i).numFree = pg.numFree + 1
        /\ PurgeRecord(pg, i).slot = pg.slot
        /\ PurgeRecord(pg, i).prevFree = pg.prevFree
        /\ PurgeRecord(pg, i).nextFree = pg.nextFree
        /\ PurgeRecord(pg, i).recs = new
    BY <1>2, <1>3 DEF DataPageType
  <2> QED BY <2>1, <2>2, Zenon DEF new

\* Marking and unmarking write the record only, and keep it a record.
LEMMA MarkRecordFacts ==
  ASSUME NEW pg \in DataPageType, NEW i \in RecIndexes, NEW trx \in Trx,
         NEW mark \in BOOLEAN, pg.recs[i] # FreeRec
  PROVE  LET mk == MarkRecord(pg, i, trx, mark)
         IN  /\ mk \in DataPageType
             /\ mk.numFree = pg.numFree
             /\ mk.slot = pg.slot
             /\ mk.prevFree = pg.prevFree
             /\ mk.nextFree = pg.nextFree
<1>1. i \in BitmapPositions /\ pg.recs[i] \in Record
  BY BitmapCovers DEF DataPageType
<1> QED BY <1>1 DEF MarkRecord, DataPageType, Record

\* So does ColumnStore::update.
LEMMA UpdateRecordFacts ==
  ASSUME NEW pg \in DataPageType, NEW i \in RecIndexes, NEW data \in Data,
         pg.recs[i] # FreeRec
  PROVE  LET up == [pg EXCEPT !.recs[i].data = data]
         IN  /\ up \in DataPageType
             /\ up.numFree = pg.numFree
             /\ up.slot = pg.slot
             /\ up.prevFree = pg.prevFree
             /\ up.nextFree = pg.nextFree
<1>1. i \in BitmapPositions /\ pg.recs[i] \in Record
  BY BitmapCovers DEF DataPageType
<1> QED BY <1>1, SMTT(30) DEF DataPageType, Record

\* A formatted page is a page.
LEMMA FormattedPageType == FormattedPage \in DataPageType
BY LayoutAssumption DEF FormattedPage, DataPageType

\* What membership in RootType says, field by field.
LEMMA RootFields ==
  ASSUME NEW r \in RootType
  PROVE  /\ r.cur \in 1 .. MaxSlots
         /\ r.head \in [0 .. (r.cur - 1) -> Pages \cup {NullRef}]
         /\ r.dataHead \in Pages \cup {NullRef}
         /\ r.dataTail \in Pages \cup {NullRef}
         /\ r.totalData \in Int
         /\ r.totalFree \in Int
         /\ r = [cur |-> r.cur, head |-> r.head, dataHead |-> r.dataHead,
                 dataTail |-> r.dataTail, totalData |-> r.totalData,
                 totalFree |-> r.totalFree]
BY DEF RootType, RootOfSize

LEMMA RootSize ==
  ASSUME NEW r \in RootType
  PROVE  /\ r.cur \in 1 .. MaxSlots
         /\ r.head \in [0 .. (r.cur - 1) -> Pages \cup {NullRef}]
BY RootFields

\* A record of well-typed fields is a root page.
LEMMA RootIntro ==
  ASSUME NEW n \in 1 .. MaxSlots,
         NEW h \in [0 .. (n - 1) -> Pages \cup {NullRef}],
         NEW a \in Pages \cup {NullRef}, NEW b \in Pages \cup {NullRef},
         NEW c \in Int, NEW d \in Int
  PROVE  [cur |-> n, head |-> h, dataHead |-> a, dataTail |-> b,
          totalData |-> c, totalFree |-> d] \in RootType
BY DEF RootType, RootOfSize

\* grow_free_slots keeps the slots it had, and the new ones are empty.
LEMMA GrowFacts ==
  ASSUME NEW r \in RootType
  PROVE  LET g == GrowFreeSlots(r)
         IN  /\ g \in RootType
             /\ g.cur >= r.cur
             /\ \A k \in 0 .. (g.cur - 1) :
                  g.head[k] = IF k < r.cur THEN r.head[k] ELSE NullRef
             /\ g.dataHead = r.dataHead
<1> DEFINE step == Min({r.cur, GrowStep})
           new  == Min({r.cur + step, MaxSlots})
<1>1. r.cur \in 1 .. MaxSlots
  BY RootFields
<1>2. step \in Nat
  <2>1. {r.cur, GrowStep} \in SUBSET Nat /\ {r.cur, GrowStep} # {}
    BY <1>1, GrowAssumption
  <2> QED BY <2>1, MinNat, Zenon
<1>3. new \in {r.cur + step, MaxSlots} /\ new <= MaxSlots
  <2> HIDE DEF step
  <2>1. {r.cur + step, MaxSlots} \in SUBSET Nat /\ {r.cur + step, MaxSlots} # {}
    BY <1>1, <1>2, SlotLimits
  <2>2. new \in {r.cur + step, MaxSlots} /\ \A y \in {r.cur + step, MaxSlots} : new <= y
    BY <2>1, MinNat, Zenon
  <2> QED BY <2>2, Zenon
<1>4. new \in 1 .. MaxSlots /\ new >= r.cur
  <2> HIDE DEF step, new
  <2> QED BY <1>1, <1>2, <1>3, SlotLimits
<1> DEFINE h == [k \in 0 .. (new - 1) |-> IF k < r.cur THEN r.head[k] ELSE NullRef]
<1>5. GrowFreeSlots(r) = [r EXCEPT !.cur = new, !.head = h]
  BY Zenon DEF GrowFreeSlots
<1> HIDE DEF step, new
<1>6. h \in [0 .. (new - 1) -> Pages \cup {NullRef}]
  BY <1>1, <1>4, RootFields
<1>7. GrowFreeSlots(r) = [cur |-> new, head |-> h, dataHead |-> r.dataHead,
                          dataTail |-> r.dataTail, totalData |-> r.totalData,
                          totalFree |-> r.totalFree]
  <2> HIDE DEF h
  <2> QED BY <1>5, RootFields
<1>8. \A k \in 0 .. (new - 1) :
        h[k] = IF k < r.cur THEN r.head[k] ELSE NullRef
  OBVIOUS
<1> HIDE DEF h
<1>9. GrowFreeSlots(r) \in RootType
  <2>1. /\ r.dataHead \in Pages \cup {NullRef}
        /\ r.dataTail \in Pages \cup {NullRef}
        /\ r.totalData \in Int /\ r.totalFree \in Int
    BY RootFields
  <2>2. [cur |-> new, head |-> h, dataHead |-> r.dataHead,
         dataTail |-> r.dataTail, totalData |-> r.totalData,
         totalFree |-> r.totalFree] \in RootType
    BY <1>4, <1>6, <2>1, RootIntro
  <2> QED BY <1>7, <2>2
<1> QED BY <1>4, <1>7, <1>8, <1>9

\* add_free_page writes at most two pages, and neither their records nor
\* their counters.
LEMMA AddFreePages ==
  ASSUME NEW r \in RootType, NEW ps \in [Pages -> DataPageType],
         NEW p \in Pages, NEW k \in 0 .. (r.cur - 1)
  PROVE  LET st == AddFreePage(r, ps, p, k)
         IN  /\ st.pages \in [Pages -> DataPageType]
             /\ \A q \in Pages :
                  /\ st.pages[q].recs = ps[q].recs
                  /\ st.pages[q].numFree = ps[q].numFree
                  /\ st.pages[q].slot = IF q = p THEN k ELSE ps[q].slot
                  /\ st.pages[q].nextFree =
                       IF q = p THEN r.head[k] ELSE ps[q].nextFree
                  /\ st.pages[q].prevFree =
                       IF q = p THEN RootRef
                       ELSE IF q = r.head[k] THEN p ELSE ps[q].prevFree
<1> DEFINE st == AddFreePage(r, ps, p, k)
           old == r.head[k]
           new == [r.head EXCEPT ![k] = p]
<1>1. /\ r.cur \in 1 .. MaxSlots /\ k \in SlotNumbers
      /\ old \in Pages \cup {NullRef}
      /\ new \in [0 .. (r.cur - 1) -> Pages \cup {NullRef}]
  <2>1. /\ r.cur \in 1 .. MaxSlots
        /\ r.head \in [0 .. (r.cur - 1) -> Pages \cup {NullRef}]
    BY RootSize
  <2>2. k \in SlotNumbers
    BY <2>1, SlotOfArray
  <2> QED BY <2>1, <2>2
<1>2. /\ st.root = [r EXCEPT !.head = new, !.totalFree = r.totalFree + 1]
      /\ st.pages = [q \in Pages |->
                       IF q = p
                       THEN [ps[p] EXCEPT !.prevFree = RootRef,
                                          !.nextFree = old, !.slot = k]
                       ELSE IF q = old THEN [ps[q] EXCEPT !.prevFree = p]
                       ELSE ps[q]]
  BY DEF AddFreePage
<1> HIDE DEF st, old
<1>5. ASSUME NEW q \in Pages
      PROVE  /\ st.pages[q] \in DataPageType
             /\ st.pages[q].recs = ps[q].recs
             /\ st.pages[q].numFree = ps[q].numFree
             /\ st.pages[q].slot = IF q = p THEN k ELSE ps[q].slot
             /\ st.pages[q].nextFree = IF q = p THEN old ELSE ps[q].nextFree
             /\ st.pages[q].prevFree =
                  IF q = p THEN RootRef
                  ELSE IF q = old THEN p ELSE ps[q].prevFree
  <2> HIDE DEF new
  <2>1. CASE q = p
    <3>1. st.pages[q] = [ps[p] EXCEPT !.prevFree = RootRef, !.nextFree = old,
                                      !.slot = k]
      BY <1>2, <2>1
    <3>2. ps[p] \in DataPageType /\ k \in SlotNumbers /\ old \in Pages \cup {NullRef}
      BY <1>1
    <3>3. st.pages[q] \in DataPageType
      BY ONLY <3>1, <3>2 DEF DataPageType
    <3>4. /\ st.pages[q].recs = ps[p].recs
          /\ st.pages[q].numFree = ps[p].numFree
          /\ st.pages[q].slot = k
          /\ st.pages[q].nextFree = old
          /\ st.pages[q].prevFree = RootRef
      BY ONLY <3>1, <3>2 DEF DataPageType
    <3> QED BY <2>1, <3>3, <3>4
  <2>2. CASE q # p /\ q = old
    <3>1. st.pages[q] = [ps[q] EXCEPT !.prevFree = p]
      BY <1>2, <2>2
    <3> QED BY <2>2, <3>1 DEF DataPageType
  <2>3. CASE q # p /\ q # old
    <3>1. st.pages[q] = ps[q]
      BY <1>2, <2>3
    <3> QED BY <2>3, <3>1
  <2> QED BY <2>1, <2>2, <2>3
<1>6. st.pages \in [Pages -> DataPageType]
  BY <1>2, <1>5
<1> QED BY <1>5, <1>6, Zenon DEF st, old

\* add_free_page writes the head of one slot and at most two pages.
LEMMA AddFreeFacts ==
  ASSUME NEW r \in RootType, NEW ps \in [Pages -> DataPageType],
         NEW p \in Pages, NEW k \in 0 .. (r.cur - 1)
  PROVE  LET st == AddFreePage(r, ps, p, k)
         IN  /\ st.root \in RootType
             /\ st.pages \in [Pages -> DataPageType]
             /\ st.root.cur = r.cur
             /\ st.root.head = [r.head EXCEPT ![k] = p]
             /\ st.root.dataHead = r.dataHead
             /\ \A q \in Pages :
                  /\ st.pages[q].recs = ps[q].recs
                  /\ st.pages[q].numFree = ps[q].numFree
                  /\ st.pages[q].slot = IF q = p THEN k ELSE ps[q].slot
                  /\ st.pages[q].nextFree =
                       IF q = p THEN r.head[k] ELSE ps[q].nextFree
                  /\ st.pages[q].prevFree =
                       IF q = p THEN RootRef
                       ELSE IF q = r.head[k] THEN p ELSE ps[q].prevFree
<1> DEFINE st == AddFreePage(r, ps, p, k)
           old == r.head[k]
           new == [r.head EXCEPT ![k] = p]
<1>1. /\ r.cur \in 1 .. MaxSlots /\ k \in SlotNumbers
      /\ old \in Pages \cup {NullRef}
      /\ new \in [0 .. (r.cur - 1) -> Pages \cup {NullRef}]
  <2>1. /\ r.cur \in 1 .. MaxSlots
        /\ r.head \in [0 .. (r.cur - 1) -> Pages \cup {NullRef}]
    BY RootSize
  <2>2. k \in SlotNumbers
    BY <2>1, SlotOfArray
  <2> QED BY <2>1, <2>2
<1>2. /\ st.root = [r EXCEPT !.head = new, !.totalFree = r.totalFree + 1]
      /\ st.pages = [q \in Pages |->
                       IF q = p
                       THEN [ps[p] EXCEPT !.prevFree = RootRef,
                                          !.nextFree = old, !.slot = k]
                       ELSE IF q = old THEN [ps[q] EXCEPT !.prevFree = p]
                       ELSE ps[q]]
  BY DEF AddFreePage
<1> HIDE DEF st, old
<1>3. st.root = [cur |-> r.cur, head |-> new, dataHead |-> r.dataHead,
                 dataTail |-> r.dataTail, totalData |-> r.totalData,
                 totalFree |-> r.totalFree + 1]
  <2> HIDE DEF new
  <2> QED BY <1>2, RootFields
<1>4. st.root \in RootType
  <2> HIDE DEF new
  <2>1. /\ r.cur \in 1 .. MaxSlots
        /\ new \in [0 .. (r.cur - 1) -> Pages \cup {NullRef}]
        /\ r.dataHead \in Pages \cup {NullRef}
        /\ r.dataTail \in Pages \cup {NullRef}
        /\ r.totalData \in Int /\ r.totalFree + 1 \in Int
    BY <1>1, RootFields
  <2>2. [cur |-> r.cur, head |-> new, dataHead |-> r.dataHead,
         dataTail |-> r.dataTail, totalData |-> r.totalData,
         totalFree |-> r.totalFree + 1] \in RootType
    BY <2>1, RootIntro
  <2> QED BY <1>3, <2>2
<1>5. /\ st.pages \in [Pages -> DataPageType]
      /\ \A q \in Pages :
           /\ st.pages[q].recs = ps[q].recs
           /\ st.pages[q].numFree = ps[q].numFree
           /\ st.pages[q].slot = IF q = p THEN k ELSE ps[q].slot
           /\ st.pages[q].nextFree =
                IF q = p THEN r.head[k] ELSE ps[q].nextFree
           /\ st.pages[q].prevFree =
                IF q = p THEN RootRef
                ELSE IF q = r.head[k] THEN p ELSE ps[q].prevFree
  BY AddFreePages DEF st
<1> QED
  <2> HIDE DEF new
  <2>1. st.root.cur = r.cur /\ st.root.head = new /\ st.root.dataHead = r.dataHead
    BY <1>3
  <2> QED BY <2>1, <1>4, <1>5, Zenon DEF st, old, new

\* The same for a step that makes the page p the head of list k.
BecomesHead(st, r, ps, p, k) ==
  /\ st.root \in RootType
  /\ st.pages \in [Pages -> DataPageType]
  /\ st.root.cur = r.cur
  /\ st.root.head = [r.head EXCEPT ![k] = p]
  /\ st.root.dataHead = r.dataHead
  /\ \A q \in Pages :
       /\ st.pages[q].nextFree = IF q = p THEN r.head[k] ELSE ps[q].nextFree
       /\ st.pages[q].prevFree =
            IF q = p THEN RootRef
            ELSE IF q = r.head[k] THEN p ELSE ps[q].prevFree

LEMMA AddFreeHead ==
  ASSUME NEW r \in RootType, NEW ps \in [Pages -> DataPageType],
         NEW p \in Pages, NEW k \in 0 .. (r.cur - 1)
  PROVE  BecomesHead(AddFreePage(r, ps, p, k), r, ps, p, k)
<1> DEFINE st == AddFreePage(r, ps, p, k)
<1>1. /\ st.root \in RootType
      /\ st.pages \in [Pages -> DataPageType]
      /\ st.root.cur = r.cur
      /\ st.root.head = [r.head EXCEPT ![k] = p]
      /\ st.root.dataHead = r.dataHead
  BY AddFreeFacts
<1>2. ASSUME NEW q \in Pages
      PROVE  /\ st.pages[q].nextFree = IF q = p THEN r.head[k] ELSE ps[q].nextFree
             /\ st.pages[q].prevFree =
                  IF q = p THEN RootRef
                  ELSE IF q = r.head[k] THEN p ELSE ps[q].prevFree
  BY AddFreePages
<1> HIDE DEF st
<1>3. BecomesHead(st, r, ps, p, k)
  BY <1>1, <1>2, Zenon DEF BecomesHead
<1> QED BY <1>3 DEF st

\* remove_free_page writes the links of at most three pages.
LEMMA RemoveFreePages ==
  ASSUME NEW r \in RootType, NEW ps \in [Pages -> DataPageType],
         NEW p \in Pages
  PROVE  LET st == RemoveFreePage(r, ps, p)
         IN  /\ st.pages \in [Pages -> DataPageType]
             /\ \A q \in Pages :
                  /\ st.pages[q].recs = ps[q].recs
                  /\ st.pages[q].numFree = ps[q].numFree
                  /\ st.pages[q].slot = ps[q].slot
                  /\ st.pages[q].nextFree =
                       IF q = p THEN NullRef
                       ELSE IF q = ps[p].prevFree THEN ps[p].nextFree
                       ELSE ps[q].nextFree
                  /\ st.pages[q].prevFree =
                       IF q = p THEN NullRef
                       ELSE IF q = ps[p].nextFree THEN ps[p].prevFree
                       ELSE ps[q].prevFree
<1> DEFINE st == RemoveFreePage(r, ps, p)
           prv == ps[p].prevFree
           nxt == ps[p].nextFree
           k == ps[p].slot
           new == IF prv = RootRef THEN [r.head EXCEPT ![k] = nxt] ELSE r.head
<1>1. /\ prv \in Pages \cup {RootRef, NullRef} /\ nxt \in Pages \cup {NullRef}
      /\ new \in [0 .. (r.cur - 1) -> Pages \cup {NullRef}]
  <2>1. prv \in Pages \cup {RootRef, NullRef} /\ nxt \in Pages \cup {NullRef}
    BY PageFields
  <2>2. r.head \in [0 .. (r.cur - 1) -> Pages \cup {NullRef}]
    BY RootFields
  <2> HIDE DEF prv, nxt, k
  <2> QED BY <2>1, <2>2
<1>2. /\ st.root = [r EXCEPT !.head = new, !.totalFree = r.totalFree - 1]
      /\ st.pages = [q \in Pages |->
                       IF q = p
                       THEN [ps[p] EXCEPT !.prevFree = NullRef,
                                          !.nextFree = NullRef]
                       ELSE [ps[q] EXCEPT
                               !.nextFree = IF q = prv THEN nxt ELSE ps[q].nextFree,
                               !.prevFree = IF q = nxt THEN prv ELSE ps[q].prevFree]]
  BY DEF RemoveFreePage
<1> HIDE DEF st, prv, nxt, k, new
<1>5. ASSUME NEW q \in Pages
      PROVE  /\ st.pages[q] \in DataPageType
             /\ st.pages[q].recs = ps[q].recs
             /\ st.pages[q].numFree = ps[q].numFree
             /\ st.pages[q].slot = ps[q].slot
             /\ st.pages[q].nextFree =
                  IF q = p THEN NullRef
                  ELSE IF q = prv THEN nxt ELSE ps[q].nextFree
             /\ st.pages[q].prevFree =
                  IF q = p THEN NullRef
                  ELSE IF q = nxt THEN prv ELSE ps[q].prevFree
  <2>1. CASE q = p
    <3>1. st.pages[q] = [ps[p] EXCEPT !.prevFree = NullRef, !.nextFree = NullRef]
      BY <1>2, <2>1
    <3>a. ps[p] \in DataPageType
      OBVIOUS
    <3>2. st.pages[q] \in DataPageType
      BY <3>1, <3>a DEF DataPageType
    <3>3. /\ st.pages[q].recs = ps[p].recs
          /\ st.pages[q].numFree = ps[p].numFree
          /\ st.pages[q].slot = ps[p].slot
          /\ st.pages[q].nextFree = NullRef
          /\ st.pages[q].prevFree = NullRef
      BY <3>1, Zenon DEF DataPageType
    <3> QED BY <2>1, <3>2, <3>3
  <2>2. CASE q # p
    <3> DEFINE n == IF q = prv THEN nxt ELSE ps[q].nextFree
               v == IF q = nxt THEN prv ELSE ps[q].prevFree
    <3>1. st.pages[q] = [ps[q] EXCEPT !.nextFree = n, !.prevFree = v]
      BY <1>2, <2>2
    <3>2. n \in Pages \cup {NullRef} /\ v \in Pages \cup {RootRef, NullRef}
      BY <1>1, PageFields
    <3>3. /\ st.pages[q] \in DataPageType
          /\ st.pages[q].recs = ps[q].recs
          /\ st.pages[q].numFree = ps[q].numFree
          /\ st.pages[q].slot = ps[q].slot
          /\ st.pages[q].nextFree = n
          /\ st.pages[q].prevFree = v
      <4> HIDE DEF n, v
      <4> QED BY <3>1, <3>2 DEF DataPageType
    <3> QED BY <2>2, <3>3
  <2> QED BY <2>1, <2>2
<1>6. st.pages \in [Pages -> DataPageType]
  BY <1>2, <1>5
<1> QED BY <1>5, <1>6, Zenon DEF st, prv, nxt, k

\* remove_free_page takes one page out of a list and joins its neighbours.
LEMMA RemoveFreeFacts ==
  ASSUME NEW r \in RootType, NEW ps \in [Pages -> DataPageType],
         NEW p \in Pages
  PROVE  LET st == RemoveFreePage(r, ps, p)
         IN  /\ st.root \in RootType
             /\ st.pages \in [Pages -> DataPageType]
             /\ st.root.cur = r.cur
             /\ st.root.head = IF ps[p].prevFree = RootRef
                               THEN [r.head EXCEPT ![ps[p].slot] = ps[p].nextFree]
                               ELSE r.head
             /\ st.root.dataHead = r.dataHead
             /\ \A q \in Pages :
                  /\ st.pages[q].recs = ps[q].recs
                  /\ st.pages[q].numFree = ps[q].numFree
                  /\ st.pages[q].slot = ps[q].slot
                  /\ st.pages[q].nextFree =
                       IF q = p THEN NullRef
                       ELSE IF q = ps[p].prevFree THEN ps[p].nextFree
                       ELSE ps[q].nextFree
                  /\ st.pages[q].prevFree =
                       IF q = p THEN NullRef
                       ELSE IF q = ps[p].nextFree THEN ps[p].prevFree
                       ELSE ps[q].prevFree
<1> DEFINE st == RemoveFreePage(r, ps, p)
           prv == ps[p].prevFree
           nxt == ps[p].nextFree
           k == ps[p].slot
           new == IF prv = RootRef THEN [r.head EXCEPT ![k] = nxt] ELSE r.head
<1>1. /\ prv \in Pages \cup {RootRef, NullRef} /\ nxt \in Pages \cup {NullRef}
      /\ new \in [0 .. (r.cur - 1) -> Pages \cup {NullRef}]
  <2>1. prv \in Pages \cup {RootRef, NullRef} /\ nxt \in Pages \cup {NullRef}
    BY PageFields
  <2>2. r.head \in [0 .. (r.cur - 1) -> Pages \cup {NullRef}]
    BY RootFields
  <2> HIDE DEF prv, nxt, k
  <2> QED BY <2>1, <2>2
<1>2. /\ st.root = [r EXCEPT !.head = new, !.totalFree = r.totalFree - 1]
      /\ st.pages = [q \in Pages |->
                       IF q = p
                       THEN [ps[p] EXCEPT !.prevFree = NullRef,
                                          !.nextFree = NullRef]
                       ELSE [ps[q] EXCEPT
                               !.nextFree = IF q = prv THEN nxt ELSE ps[q].nextFree,
                               !.prevFree = IF q = nxt THEN prv ELSE ps[q].prevFree]]
  BY DEF RemoveFreePage
<1> HIDE DEF st, prv, nxt, k, new
<1>3. st.root = [cur |-> r.cur, head |-> new, dataHead |-> r.dataHead,
                 dataTail |-> r.dataTail, totalData |-> r.totalData,
                 totalFree |-> r.totalFree - 1]
  BY <1>2, RootFields
<1>4. st.root \in RootType
  <2>1. /\ r.cur \in 1 .. MaxSlots
        /\ new \in [0 .. (r.cur - 1) -> Pages \cup {NullRef}]
        /\ r.dataHead \in Pages \cup {NullRef}
        /\ r.dataTail \in Pages \cup {NullRef}
        /\ r.totalData \in Int /\ r.totalFree - 1 \in Int
    BY <1>1, RootFields
  <2>2. [cur |-> r.cur, head |-> new, dataHead |-> r.dataHead,
         dataTail |-> r.dataTail, totalData |-> r.totalData,
         totalFree |-> r.totalFree - 1] \in RootType
    BY <2>1, RootIntro
  <2> QED BY <1>3, <2>2
<1>5. /\ st.pages \in [Pages -> DataPageType]
      /\ \A q \in Pages :
           /\ st.pages[q].recs = ps[q].recs
           /\ st.pages[q].numFree = ps[q].numFree
           /\ st.pages[q].slot = ps[q].slot
           /\ st.pages[q].nextFree =
                IF q = p THEN NullRef
                ELSE IF q = ps[p].prevFree THEN ps[p].nextFree
                ELSE ps[q].nextFree
           /\ st.pages[q].prevFree =
                IF q = p THEN NullRef
                ELSE IF q = ps[p].nextFree THEN ps[p].prevFree
                ELSE ps[q].prevFree
  BY RemoveFreePages DEF st
<1>7. st.root.cur = r.cur /\ st.root.head = new /\ st.root.dataHead = r.dataHead
  BY <1>3
<1> QED BY <1>7, <1>4, <1>5, Zenon DEF st, prv, nxt, k, new

\* add_data_page writes the list of all pages only.
LEMMA AddDataFacts ==
  ASSUME NEW r \in RootType, NEW ps \in [Pages -> DataPageType],
         NEW p \in Pages
  PROVE  LET st == AddDataPage(r, ps, p)
         IN  /\ st.root \in RootType
             /\ st.pages \in [Pages -> DataPageType]
             /\ st.root.cur = r.cur
             /\ st.root.head = r.head
             /\ st.root.dataHead = p
             /\ \A q \in Pages :
                  /\ st.pages[q].recs = ps[q].recs
                  /\ st.pages[q].numFree = ps[q].numFree
                  /\ st.pages[q].slot = ps[q].slot
                  /\ st.pages[q].nextFree = ps[q].nextFree
                  /\ st.pages[q].prevFree = ps[q].prevFree
<1> DEFINE st == AddDataPage(r, ps, p)
           old == r.dataHead
           tail == IF old = NullRef THEN p ELSE r.dataTail
<1>1. old \in Pages \cup {NullRef} /\ tail \in Pages \cup {NullRef}
  BY RootFields
<1>2. /\ st.root = [r EXCEPT !.dataHead = p, !.dataTail = tail,
                             !.totalData = r.totalData + 1]
      /\ st.pages = [q \in Pages |->
                       IF q = p THEN [ps[p] EXCEPT !.prev = NullRef, !.next = old]
                       ELSE IF q = old THEN [ps[q] EXCEPT !.prev = p]
                       ELSE ps[q]]
  BY DEF AddDataPage
<1> HIDE DEF st, old, tail
<1>3. st.root = [cur |-> r.cur, head |-> r.head, dataHead |-> p,
                 dataTail |-> tail, totalData |-> r.totalData + 1,
                 totalFree |-> r.totalFree]
  BY <1>2, RootFields
<1>4. st.root \in RootType
  <2>1. /\ r.cur \in 1 .. MaxSlots
        /\ r.head \in [0 .. (r.cur - 1) -> Pages \cup {NullRef}]
        /\ p \in Pages \cup {NullRef}
        /\ tail \in Pages \cup {NullRef}
        /\ r.totalData + 1 \in Int /\ r.totalFree \in Int
    BY <1>1, RootFields
  <2>2. [cur |-> r.cur, head |-> r.head, dataHead |-> p,
         dataTail |-> tail, totalData |-> r.totalData + 1,
         totalFree |-> r.totalFree] \in RootType
    BY <2>1, RootIntro
  <2> QED BY <1>3, <2>2
<1>5. ASSUME NEW q \in Pages
      PROVE  /\ st.pages[q] \in DataPageType
             /\ st.pages[q].recs = ps[q].recs
             /\ st.pages[q].numFree = ps[q].numFree
             /\ st.pages[q].slot = ps[q].slot
             /\ st.pages[q].nextFree = ps[q].nextFree
             /\ st.pages[q].prevFree = ps[q].prevFree
  <2>1. CASE q = p
    <3>1. st.pages[q] = [ps[p] EXCEPT !.prev = NullRef, !.next = old]
      BY <1>2, <2>1
    <3>a. ps[p] \in DataPageType
      OBVIOUS
    <3>2. st.pages[q] \in DataPageType
      BY <1>1, <3>1, <3>a DEF DataPageType
    <3>3. /\ st.pages[q].recs = ps[p].recs
          /\ st.pages[q].numFree = ps[p].numFree
          /\ st.pages[q].slot = ps[p].slot
          /\ st.pages[q].nextFree = ps[p].nextFree
          /\ st.pages[q].prevFree = ps[p].prevFree
      BY <3>1, Zenon DEF DataPageType
    <3> QED BY <2>1, <3>2, <3>3
  <2>2. CASE q # p /\ q = old
    <3>1. st.pages[q] = [ps[q] EXCEPT !.prev = p]
      BY <1>2, <2>2
    <3> QED BY <3>1 DEF DataPageType
  <2>3. CASE q # p /\ q # old
    <3>1. st.pages[q] = ps[q]
      BY <1>2, <2>3
    <3> QED BY <3>1
  <2> QED BY <2>1, <2>2, <2>3
<1>6. st.pages \in [Pages -> DataPageType]
  BY <1>2, <1>5
<1>7. st.root.cur = r.cur /\ st.root.head = r.head /\ st.root.dataHead = p
  BY <1>3
<1> QED BY <1>7, <1>4, <1>5, <1>6, Zenon DEF st

-------------------------------------------------------------------------------
(* The invariant of types.                                                 *)

CacheType == [slot : SlotNumbers \cup {INVALID_SLOT}, hint : RecIndexes]

LatchTable == [Latchable -> {"none", "S", "X"}]

\* What the locals v and the cache c of a call at label l hold, where n is
\* the number of slots of the root page and u the set of allocated pages.
CallOK(l, v, c, n, u) ==
  /\ l \in InsertPcs => v.trx \in Trx /\ v.data \in Data
  /\ l \in {"ins_page", "ins_head", "ins_load", "ins_unlink"}
       => v.page \in u /\ c.slot < n
  /\ l \in PurgePcs => v.trx \in Trx /\ v.page \in u
  /\ l = "pur_slot" => v.slot < n

CallsOK == \A t \in Threads : CallOK(pc[t], loc[t], cache[t], root.cur, used)

\* References to pages name allocated pages.
RefsUsed ==
  /\ \A k \in 0 .. (root.cur - 1) : root.head[k] \in used \cup {NullRef}
  /\ root.dataHead \in used \cup {NullRef}
  /\ \A p \in Pages : /\ pages[p].nextFree \in used \cup {NullRef}
                      /\ pages[p].prevFree \in used \cup {RootRef, NullRef}

TypeInv == TypeOK /\ CallsOK /\ RefsUsed

-------------------------------------------------------------------------------
(* Steps of one thread.                                                    *)

\* A step of thread t that leaves the rest well typed keeps TypeInv when its
\* new label, locals and cache fit together.
LEMMA StepFrame ==
  ASSUME TypeInv, NEW t \in Threads,
         NEW l \in Pcs, NEW v \in Locals, NEW c \in CacheType,
         root' \in RootType, root'.cur >= root.cur,
         used \subseteq used', used' \subseteq Pages,
         pages' \in [Pages -> DataPageType],
         held' \in [Threads -> LatchTable],
         counter' \in Int,
         pc' = [pc EXCEPT ![t] = l],
         loc' = [loc EXCEPT ![t] = v],
         cache' = [cache EXCEPT ![t] = c],
         CallOK(l, v, c, root'.cur, used'),
         RefsUsed'
  PROVE  TypeInv'
<1>1. TypeOK'
  BY DEF TypeInv, TypeOK, CacheType, LatchTable
<1>2. ASSUME NEW w \in Threads
      PROVE  CallOK(pc'[w], loc'[w], cache'[w], root'.cur, used')
  <2>1. CASE w = t
    BY <2>1 DEF TypeInv, TypeOK
  <2>2. CASE w # t
    <3>1. pc'[w] = pc[w] /\ loc'[w] = loc[w] /\ cache'[w] = cache[w]
      BY <2>2 DEF TypeInv, TypeOK
    <3>2. CallOK(pc[w], loc[w], cache[w], root.cur, used)
      BY Zenon DEF TypeInv, CallsOK
    <3>3. /\ root.cur \in Int /\ root'.cur \in Int
          /\ cache[w].slot \in Int /\ loc[w].slot \in Int
      <4>1. root.cur \in 1 .. MaxSlots /\ root'.cur \in 1 .. MaxSlots
        BY RootFields DEF TypeInv, TypeOK
      <4>2. /\ cache[w].slot \in SlotNumbers \cup {INVALID_SLOT}
            /\ loc[w].slot \in SlotNumbers \cup {INVALID_SLOT}
        BY DEF TypeInv, TypeOK, Locals
      <4>3. cache[w].slot \in Nat /\ loc[w].slot \in Nat
        BY <4>2, SlotIsNat
      <4> QED BY <4>1, <4>3
    <3> QED BY <3>1, <3>2, <3>3 DEF CallOK
  <2> QED BY <2>1, <2>2
<1>3. CallsOK'
  BY <1>2 DEF CallsOK
<1> QED BY <1>1, <1>3 DEF TypeInv

\* Hold sets the latches of t and leaves those of the other threads.
LEMMA HoldFacts ==
  ASSUME TypeInv, NEW t \in Threads, NEW xs, NEW ss, Hold(t, xs, ss)
  PROVE  /\ held' \in [Threads -> LatchTable]
         /\ \A u \in Threads \ {t} : held'[u] = held[u]
         /\ \A q \in Latchable :
              held'[t][q] = IF q \in xs THEN "X" ELSE IF q \in ss THEN "S" ELSE "none"
<1> DEFINE h == [q \in Latchable |->
                   IF q \in xs THEN "X" ELSE IF q \in ss THEN "S" ELSE "none"]
<1>1. h \in LatchTable
  BY DEF LatchTable
<1>2. held' = [held EXCEPT ![t] = h]
  BY DEF Hold
<1>3. held \in [Threads -> LatchTable]
  BY DEF TypeInv, TypeOK, LatchTable
<1>4. \A q \in Latchable :
        h[q] = IF q \in xs THEN "X" ELSE IF q \in ss THEN "S" ELSE "none"
  OBVIOUS
<1> HIDE DEF h
<1> QED BY <1>1, <1>2, <1>3, <1>4

\* References stay good when the links do not change and pages are not freed.
LEMMA RefsKept ==
  ASSUME TypeInv, used \subseteq used',
         root' = root,
         \A q \in Pages : /\ pages'[q].nextFree = pages[q].nextFree
                          /\ pages'[q].prevFree = pages[q].prevFree
  PROVE  RefsUsed'
BY DEF TypeInv, RefsUsed

\* Step 7 of an insert on the pages ps, seen from outside.
LEMMA InsertIntoFacts ==
  ASSUME TypeInv, NEW t \in Threads, NEW ps \in [Pages -> DataPageType],
         NEW p \in Pages, pc[t] \in InsertPcs,
         InsertInto(t, ps, p, cache[t].hint)
  PROVE  /\ pages' \in [Pages -> DataPageType]
         /\ \A q \in Pages :
              /\ pages'[q].slot = ps[q].slot
              /\ pages'[q].prevFree = ps[q].prevFree
              /\ pages'[q].nextFree = ps[q].nextFree
              /\ pages'[q].numFree = IF q = p THEN ps[p].numFree - 1 ELSE ps[q].numFree
         /\ counter' \in Int
         /\ pc' = [pc EXCEPT ![t] = "commit"]
         /\ loc' = [loc EXCEPT ![t] = NoLocals]
         /\ \E c \in CacheType : cache' = [cache EXCEPT ![t] = c]
<1> DEFINE h == cache[t].hint
           i == FindFreeSlot(ps[p], h)
           ins == InsertRecord(ps[p], i, loc[t].trx, loc[t].data)
<1>1. loc[t].trx \in Trx /\ loc[t].data \in Data
  BY DEF TypeInv, CallsOK, CallOK
<1>2. cache[t] \in CacheType /\ h \in RecIndexes
  BY DEF TypeInv, TypeOK, CacheType
<1>3. i \in BitmapPositions
  <2> HIDE DEF h
  <2> QED BY <1>2, FindInBitmap
<1>4. /\ pages' = [ps EXCEPT ![p] = ins]
      /\ cache' = [cache EXCEPT ![t] = [cache[t] EXCEPT !.hint = NextHint(i)]]
      /\ counter' = counter - 1
      /\ pc' = [pc EXCEPT ![t] = "commit"]
      /\ loc' = [loc EXCEPT ![t] = NoLocals]
  BY DEF InsertInto, LeaveInsert, Return, Goto
<1> HIDE DEF i
<1>5. /\ ins \in DataPageType
      /\ ins.numFree = ps[p].numFree - 1
      /\ ins.slot = ps[p].slot
      /\ ins.prevFree = ps[p].prevFree
      /\ ins.nextFree = ps[p].nextFree
  <2> DEFINE pg == ps[p]
             x == loc[t].trx
             d == loc[t].data
  <2>1. pg \in DataPageType /\ x \in Trx /\ d \in Data /\ i \in BitmapPositions
    BY <1>1, <1>3
  <2> SUFFICES LET new == InsertRecord(pg, i, x, d)
               IN  /\ new \in DataPageType
                   /\ new.numFree = pg.numFree - 1
                   /\ new.slot = pg.slot
                   /\ new.prevFree = pg.prevFree
                   /\ new.nextFree = pg.nextFree
    OBVIOUS
  <2> HIDE DEF pg, x, d
  <2> QED BY <2>1, InsertRecordFacts
<1> HIDE DEF ins, h
<1>6. \E c \in CacheType : cache' = [cache EXCEPT ![t] = c]
  <2> DEFINE c == [cache[t] EXCEPT !.hint = NextHint(i)]
  <2>1. c \in CacheType
    BY <1>2, <1>3, NextHintType DEF CacheType
  <2>2. cache' = [cache EXCEPT ![t] = c]
    BY <1>4
  <2> QED BY <2>1, <2>2
<1>7. counter' \in Int
  BY <1>4 DEF TypeInv, TypeOK
<1>8. /\ pages' \in [Pages -> DataPageType]
      /\ \A q \in Pages :
           /\ pages'[q].slot = ps[q].slot
           /\ pages'[q].prevFree = ps[q].prevFree
           /\ pages'[q].nextFree = ps[q].nextFree
           /\ pages'[q].numFree = IF q = p THEN ps[p].numFree - 1 ELSE ps[q].numFree
  BY <1>4, <1>5
<1> QED BY <1>4, <1>6, <1>7, <1>8

\* TypeInv, thread by thread.
LEMMA Typed ==
  ASSUME TypeInv, NEW t \in Threads
  PROVE  /\ root \in RootType /\ root.cur \in 1 .. MaxSlots
         /\ used \subseteq Pages
         /\ pages \in [Pages -> DataPageType]
         /\ held \in [Threads -> LatchTable]
         /\ counter \in Int
         /\ pc[t] \in Pcs /\ pc = [pc EXCEPT ![t] = pc[t]]
         /\ loc[t] \in Locals /\ loc = [loc EXCEPT ![t] = loc[t]]
         /\ cache[t] \in CacheType /\ cache = [cache EXCEPT ![t] = cache[t]]
         /\ CallOK(pc[t], loc[t], cache[t], root.cur, used)
         /\ RefsUsed
<1>1. root \in RootType
  BY DEF TypeInv, TypeOK
<1> QED BY <1>1, RootFields DEF TypeInv, TypeOK, CallsOK, CacheType, LatchTable

\* The local variables between calls.
LEMMA NoLocalsType == NoLocals \in Locals
BY BitmapCovers DEF NoLocals, Locals

\* The cached slot of a thread that has none.
LEMMA NoCacheType == NoCache \in CacheType
BY BitmapCovers DEF NoCache, CacheType

\* A slot the thread may select, and the cache that records it.
LEMMA SelectFacts ==
  ASSUME TypeInv, NEW t \in Threads, NEW r \in RootType,
         NEW k \in SelectableSlots(t, r)
  PROVE  /\ k \in 0 .. (r.cur - 1) /\ k \in SlotNumbers
         /\ CacheOn(t, k) \in CacheType
         /\ CacheOn(t, k).slot = k
<1>1. r.cur \in 1 .. MaxSlots
  BY RootFields
<1>2. cache[t] \in CacheType
  BY Typed
<1>3. k \in 0 .. (r.cur - 1)
  <2>1. CASE cache[t].slot < r.cur
    <3>1. k = cache[t].slot
      BY <2>1 DEF SelectableSlots
    <3>2. k \in SlotNumbers \cup {INVALID_SLOT}
      BY <1>2, <3>1 DEF CacheType
    <3> QED BY <1>1, <2>1, <3>1, <3>2, SlotBelow
  <2>2. CASE ~ (cache[t].slot < r.cur)
    BY <2>2 DEF SelectableSlots
  <2> QED BY <2>1, <2>2
<1>4. k \in SlotNumbers
  BY <1>1, <1>3, SlotOfArray
<1> QED BY <1>2, <1>3, <1>4, BitmapCovers DEF CacheOn, CacheType

\* The slots of the array are slot numbers.
LEMMA SlotInRange ==
  ASSUME NEW r \in RootType, NEW k \in 0 .. (r.cur - 1)
  PROVE  k \in SlotNumbers
<1>1. r.cur \in 1 .. MaxSlots
  BY RootFields
<1> QED BY <1>1, SlotOfArray

\* get_free_slot returns a slot of the array.
LEMMA GetFreeSlotRange ==
  ASSUME NEW r \in RootType
  PROVE  GetFreeSlot(r) \subseteq 0 .. (r.cur - 1)
<1> DEFINE empty == {k \in 0 .. (r.cur - 1) : r.head[k] = NullRef}
<1>1. GetFreeSlot(r) = IF empty # {} THEN {Min(empty)} ELSE 0 .. (r.cur - 1)
  BY DEF GetFreeSlot
<1>2. empty \in SUBSET Nat /\ empty \subseteq 0 .. (r.cur - 1)
  OBVIOUS
<1> HIDE DEF empty
<1>3. empty # {} => Min(empty) \in empty
  BY <1>2, MinNat
<1> QED BY <1>1, <1>2, <1>3

-------------------------------------------------------------------------------
(* Type correctness.                                                       *)

\* The initial state.
LEMMA TypeInit == Init => TypeInv
<1> SUFFICES ASSUME Init PROVE TypeInv
  OBVIOUS
<1>1. root \in RootType
  <2>1. /\ 1 \in 1 .. MaxSlots
        /\ [k \in 0 .. 0 |-> NullRef] \in [0 .. (1 - 1) -> Pages \cup {NullRef}]
    BY SlotLimits
  <2> DEFINE h == [k \in 0 .. 0 |-> NullRef]
  <2>2. root = [cur |-> 1, head |-> h, dataHead |-> NullRef, dataTail |-> NullRef,
                totalData |-> 0, totalFree |-> 0]
    BY DEF Init, FormattedRoot
  <2>3. /\ h \in [0 .. (1 - 1) -> Pages \cup {NullRef}]
        /\ NullRef \in Pages \cup {NullRef} /\ 0 \in Int
    BY <2>1
  <2> HIDE DEF h
  <2> QED BY <2>1, <2>2, <2>3, RootIntro
<1>2. TypeOK
  BY <1>1, FormattedPageType, NoLocalsType, NoCacheType
     DEF Init, TypeOK, CacheType, Pcs
<1>3. CallsOK
  BY DEF Init, CallsOK, CallOK, InsertPcs, PurgePcs
<1>4. RefsUsed
  BY DEF Init, RefsUsed, FormattedRoot, FormattedPage
<1> QED BY <1>2, <1>3, <1>4 DEF TypeInv

\* The steps of an insert.
LEMMA TypeInsert ==
  ASSUME TypeInv, NEW t \in Threads, InsertStep(t)
  PROVE  TypeInv'
<1>0. /\ root \in RootType /\ root.cur \in 1 .. MaxSlots
      /\ used \subseteq Pages
      /\ pages \in [Pages -> DataPageType]
      /\ counter \in Int
      /\ pc[t] \in Pcs
      /\ loc[t] \in Locals /\ loc = [loc EXCEPT ![t] = loc[t]]
      /\ cache[t] \in CacheType /\ cache = [cache EXCEPT ![t] = cache[t]]
      /\ CallOK(pc[t], loc[t], cache[t], root.cur, used)
      /\ RefsUsed
  BY Typed
<1>1. CASE InsertSelect(t)
  <2> DEFINE grow == counter > root.cur /\ root.cur < MaxSlots
             go(k) == ~grow /\ root.head[k] # NullRef
             v(k) == [loc[t] EXCEPT !.page = IF go(k) THEN root.head[k] ELSE NullRef,
                                    !.grow = grow]
             l(k) == IF go(k) THEN "ins_page" ELSE "ins_root_x"
  <2>1. PICK k \in SelectableSlots(t, root) :
          /\ cache' = [cache EXCEPT ![t] = CacheOn(t, k)]
          /\ loc' = [loc EXCEPT ![t] = v(k)]
          /\ pc' = [pc EXCEPT ![t] = l(k)]
          /\ Hold(t, {}, IF go(k) THEN {RootRef} ELSE {})
    BY <1>1 DEF InsertSelect, Goto
  <2>2. /\ pc[t] = "ins_root_s"
        /\ UNCHANGED <<root, used, pages, counter>>
    BY <1>1 DEF InsertSelect, At
  <2>3. /\ k \in 0 .. (root.cur - 1)
        /\ CacheOn(t, k) \in CacheType /\ CacheOn(t, k).slot = k
    BY <1>0, <2>1, SelectFacts
  <2>4. root.head[k] \in used \cup {NullRef}
    BY <1>0, <2>3 DEF RefsUsed
  <2>5. v(k) \in Locals /\ l(k) \in Pcs
    BY <1>0, <2>4 DEF Locals, Pcs, InsertPcs
  <2>6. held' \in [Threads -> LatchTable]
    BY <2>1, HoldFacts
  <2>7. CallOK(l(k), v(k), CacheOn(t, k), root'.cur, used')
    BY <1>0, <2>2, <2>3, <2>4 DEF CallOK, InsertPcs, PurgePcs, Locals
  <2>8. RefsUsed'
    BY <1>0, <2>2, RefsKept
  <2> HIDE DEF v, l
  <2>9. /\ root' \in RootType /\ root'.cur >= root.cur
        /\ used \subseteq used' /\ used' \subseteq Pages
        /\ pages' \in [Pages -> DataPageType] /\ counter' \in Int
    BY <1>0, <2>2
  <2> QED BY <2>1, <2>3, <2>5, <2>6, <2>7, <2>8, <2>9, StepFrame
<1>2. ASSUME pc[t] \in {"ins_page", "ins_load"},
             InsertInto(t, pages, loc[t].page, cache[t].hint),
             NEW xs, NEW ss, Hold(t, xs, ss), UNCHANGED <<root, used>>
      PROVE  TypeInv'
  <2>1. loc[t].page \in Pages /\ pc[t] \in InsertPcs
    BY <1>0, <1>2 DEF CallOK, InsertPcs
  <2>2. /\ pages' \in [Pages -> DataPageType]
        /\ \A q \in Pages : /\ pages'[q].nextFree = pages[q].nextFree
                            /\ pages'[q].prevFree = pages[q].prevFree
        /\ counter' \in Int
        /\ pc' = [pc EXCEPT ![t] = "commit"]
        /\ loc' = [loc EXCEPT ![t] = NoLocals]
        /\ \E c \in CacheType : cache' = [cache EXCEPT ![t] = c]
    BY <1>0, <1>2, <2>1, InsertIntoFacts
  <2>3. PICK c \in CacheType : cache' = [cache EXCEPT ![t] = c]
    BY <2>2
  <2>4. RefsUsed'
    BY <1>2, <2>2, RefsKept
  <2>5. held' \in [Threads -> LatchTable]
    BY <1>2, HoldFacts
  <2>6. CallOK("commit", NoLocals, c, root'.cur, used') /\ "commit" \in Pcs
    BY DEF CallOK, InsertPcs, PurgePcs, Pcs
  <2>7. /\ root' \in RootType /\ root'.cur >= root.cur
        /\ used \subseteq used' /\ used' \subseteq Pages
    BY <1>0, <1>2
  <2> QED BY <2>2, <2>3, <2>4, <2>5, <2>6, <2>7, NoLocalsType, StepFrame
<1>3. CASE InsertOptimistic(t)
  BY <1>2, <1>3 DEF InsertOptimistic, At
<1>4. CASE InsertLoaded(t)
  BY <1>2, <1>4 DEF InsertLoaded, At
<1>5. CASE InsertFallBack(t)
  <2> DEFINE v == [loc[t] EXCEPT !.page = NullRef]
  <2>1. /\ pc[t] = "ins_page"
        /\ loc' = [loc EXCEPT ![t] = v]
        /\ pc' = [pc EXCEPT ![t] = "ins_root_x"]
        /\ Hold(t, {}, {})
        /\ UNCHANGED <<root, used, pages, counter, cache>>
    BY <1>5 DEF InsertFallBack, At, Goto
  <2>2. v \in Locals /\ "ins_root_x" \in Pcs
    BY <1>0 DEF Locals, Pcs, InsertPcs
  <2>3. CallOK("ins_root_x", v, cache[t], root'.cur, used')
    BY <1>0, <2>1 DEF CallOK, InsertPcs, PurgePcs, Locals
  <2>4. RefsUsed'
    BY <2>1, RefsKept
  <2>5. held' \in [Threads -> LatchTable]
    BY <2>1, HoldFacts
  <2>6. /\ root' \in RootType /\ root'.cur >= root.cur
        /\ used \subseteq used' /\ used' \subseteq Pages
        /\ pages' \in [Pages -> DataPageType] /\ counter' \in Int
        /\ cache' = [cache EXCEPT ![t] = cache[t]]
    BY <1>0, <2>1
  <2> HIDE DEF v
  <2> QED BY <1>0, <2>1, <2>2, <2>3, <2>4, <2>5, <2>6, StepFrame
<1>6. ASSUME pc[t] = "ins_root_x", root' = PessimisticRoot(t)
      PROVE  /\ root' \in RootType /\ root'.cur >= root.cur
             /\ \A k \in 0 .. (root'.cur - 1) : root'.head[k] \in used \cup {NullRef}
             /\ root'.dataHead = root.dataHead
  <2>1. CASE loc[t].grow
    <3>1. root' = GrowFreeSlots(root)
      BY <1>6, <2>1 DEF PessimisticRoot
    <3>2. /\ root' \in RootType /\ root'.cur >= root.cur
          /\ \A k \in 0 .. (root'.cur - 1) :
               root'.head[k] = IF k < root.cur THEN root.head[k] ELSE NullRef
          /\ root'.dataHead = root.dataHead
      BY <1>0, <3>1, GrowFacts
    <3>3. ASSUME NEW k \in 0 .. (root'.cur - 1)
          PROVE  root'.head[k] \in used \cup {NullRef}
      BY <1>0, <3>2 DEF RefsUsed
    <3> QED BY <3>2, <3>3
  <2>2. CASE ~ loc[t].grow
    BY <1>0, <1>6, <2>2 DEF PessimisticRoot, RefsUsed
  <2> QED BY <2>1, <2>2
<1>7. CASE InsertSelectAgain(t)
  <2> DEFINE v(k) == [loc[t] EXCEPT !.page = root'.head[k], !.grow = FALSE]
  <2>1. PICK k \in SelectableSlots(t, root') :
          /\ root'.head[k] # NullRef
          /\ cache' = [cache EXCEPT ![t] = CacheOn(t, k)]
          /\ loc' = [loc EXCEPT ![t] = v(k)]
    BY <1>7 DEF InsertSelectAgain
  <2>2. /\ pc[t] = "ins_root_x" /\ root' = PessimisticRoot(t)
        /\ pc' = [pc EXCEPT ![t] = "ins_load"]
        /\ Hold(t, {RootRef}, {})
        /\ UNCHANGED <<used, pages, counter>>
    BY <1>7 DEF InsertSelectAgain, At, Goto
  <2>3. /\ root' \in RootType /\ root'.cur >= root.cur
        /\ \A j \in 0 .. (root'.cur - 1) : root'.head[j] \in used \cup {NullRef}
        /\ root'.dataHead = root.dataHead
    BY <1>6, <2>2
  <2>4. /\ k \in 0 .. (root'.cur - 1)
        /\ CacheOn(t, k) \in CacheType /\ CacheOn(t, k).slot = k
    BY <2>1, <2>3, SelectFacts
  <2>5. root'.head[k] \in used
    BY <2>1, <2>3, <2>4
  <2>6. v(k) \in Locals /\ "ins_load" \in Pcs
    BY <1>0, <2>5 DEF Locals, Pcs, InsertPcs
  <2>7. CallOK("ins_load", v(k), CacheOn(t, k), root'.cur, used')
    <3>1. root'.cur \in 1 .. MaxSlots
      BY <2>3, RootFields
    <3> QED BY <1>0, <2>2, <2>4, <2>5, <3>1 DEF CallOK, InsertPcs, PurgePcs, Locals
  <2>8. RefsUsed'
    BY <1>0, <2>2, <2>3 DEF RefsUsed
  <2>9. held' \in [Threads -> LatchTable]
    BY <2>2, HoldFacts
  <2>10. /\ used \subseteq used' /\ used' \subseteq Pages
         /\ pages' \in [Pages -> DataPageType] /\ counter' \in Int
    BY <1>0, <2>2
  <2> HIDE DEF v
  <2> QED BY <2>1, <2>2, <2>3, <2>4, <2>6, <2>7, <2>8, <2>9, <2>10, StepFrame
<1>8. CASE InsertAllocate(t)
  <2> DEFINE v(p) == [loc[t] EXCEPT !.page = p, !.grow = FALSE]
  <2>1. PICK k \in SelectableSlots(t, root'), p \in Pages \ used :
          /\ cache' = [cache EXCEPT ![t] = CacheOn(t, k)]
          /\ loc' = [loc EXCEPT ![t] = v(p)]
          /\ used' = used \cup {p}
          /\ pages' = [pages EXCEPT ![p] = FormattedPage]
          /\ Hold(t, {RootRef, p}, {})
    BY <1>8 DEF InsertAllocate
  <2>2. /\ pc[t] = "ins_root_x" /\ root' = PessimisticRoot(t)
        /\ pc' = [pc EXCEPT ![t] = "ins_head"]
        /\ UNCHANGED counter
    BY <1>8 DEF InsertAllocate, At, Goto
  <2>3. /\ root' \in RootType /\ root'.cur >= root.cur
        /\ \A j \in 0 .. (root'.cur - 1) : root'.head[j] \in used \cup {NullRef}
        /\ root'.dataHead = root.dataHead
    BY <1>6, <2>2
  <2>4. /\ k \in 0 .. (root'.cur - 1)
        /\ CacheOn(t, k) \in CacheType /\ CacheOn(t, k).slot = k
    BY <2>1, <2>3, SelectFacts
  <2>5. v(p) \in Locals /\ "ins_head" \in Pcs
    BY <1>0, <2>1 DEF Locals, Pcs, InsertPcs
  <2>6. CallOK("ins_head", v(p), CacheOn(t, k), root'.cur, used')
    <3>1. root'.cur \in 1 .. MaxSlots
      BY <2>3, RootFields
    <3> QED BY <1>0, <2>1, <2>2, <2>4, <3>1 DEF CallOK, InsertPcs, PurgePcs, Locals
  <2>7. pages' \in [Pages -> DataPageType]
    BY <1>0, <2>1, FormattedPageType
  <2>8. RefsUsed'
    <3>1. ASSUME NEW q \in Pages
          PROVE  /\ pages'[q].nextFree \in used' \cup {NullRef}
                 /\ pages'[q].prevFree \in used' \cup {RootRef, NullRef}
      BY <1>0, <2>1 DEF RefsUsed, FormattedPage
    <3> QED BY <1>0, <2>1, <2>3, <3>1 DEF RefsUsed
  <2>9. held' \in [Threads -> LatchTable]
    BY <2>1, HoldFacts
  <2>10. used \subseteq used' /\ used' \subseteq Pages /\ counter' \in Int
    BY <1>0, <2>1, <2>2
  <2> HIDE DEF v
  <2> QED BY <2>1, <2>2, <2>3, <2>4, <2>5, <2>6, <2>7, <2>8, <2>9, <2>10, StepFrame
<1>9. CASE InsertNoSpace(t)
  <2>1. PICK k \in SelectableSlots(t, root') :
          cache' = [cache EXCEPT ![t] = CacheOn(t, k)]
    BY <1>9 DEF InsertNoSpace
  <2>2. /\ pc[t] = "ins_root_x" /\ root' = PessimisticRoot(t)
        /\ pc' = [pc EXCEPT ![t] = "commit"]
        /\ loc' = [loc EXCEPT ![t] = NoLocals]
        /\ counter' = counter - 1
        /\ Hold(t, {RootRef}, {})
        /\ UNCHANGED <<used, pages>>
    BY <1>9 DEF InsertNoSpace, At, Goto, Return, LeaveInsert
  <2>3. /\ root' \in RootType /\ root'.cur >= root.cur
        /\ \A j \in 0 .. (root'.cur - 1) : root'.head[j] \in used \cup {NullRef}
        /\ root'.dataHead = root.dataHead
    BY <1>6, <2>2
  <2>4. CacheOn(t, k) \in CacheType
    BY <2>1, <2>3, SelectFacts
  <2>5. /\ CallOK("commit", NoLocals, CacheOn(t, k), root'.cur, used')
        /\ "commit" \in Pcs
    BY DEF CallOK, InsertPcs, PurgePcs, Pcs
  <2>6. RefsUsed'
    BY <1>0, <2>2, <2>3 DEF RefsUsed
  <2>7. held' \in [Threads -> LatchTable]
    BY <2>2, HoldFacts
  <2>8. /\ used \subseteq used' /\ used' \subseteq Pages
        /\ pages' \in [Pages -> DataPageType] /\ counter' \in Int
    BY <1>0, <2>2
  <2> QED BY <2>1, <2>2, <2>3, <2>4, <2>5, <2>6, <2>7, <2>8, NoLocalsType, StepFrame
<1>10. CASE InsertLoadedLast(t)
  <2>1. /\ pc[t] = "ins_load"
        /\ pc' = [pc EXCEPT ![t] = "ins_unlink"]
        /\ Hold(t, {RootRef, loc[t].page}, {})
        /\ UNCHANGED <<root, used, pages, counter, cache, loc>>
    BY <1>10 DEF InsertLoadedLast, At, Goto
  <2>2. "ins_unlink" \in Pcs
    BY DEF Pcs, InsertPcs
  <2>3. CallOK("ins_unlink", loc[t], cache[t], root'.cur, used')
    BY <1>0, <2>1 DEF CallOK, InsertPcs, PurgePcs
  <2>4. RefsUsed'
    BY <2>1, RefsKept
  <2>5. held' \in [Threads -> LatchTable]
    BY <2>1, HoldFacts
  <2>6. /\ root' \in RootType /\ root'.cur >= root.cur
        /\ used \subseteq used' /\ used' \subseteq Pages
        /\ pages' \in [Pages -> DataPageType] /\ counter' \in Int
        /\ cache' = [cache EXCEPT ![t] = cache[t]]
        /\ loc' = [loc EXCEPT ![t] = loc[t]]
    BY <1>0, <2>1
  <2>7. loc[t] \in Locals /\ cache[t] \in CacheType
    BY <1>0
  <2>8. pc' = [pc EXCEPT ![t] = "ins_unlink"]
    BY <2>1
  <2> QED BY <2>2, <2>3, <2>4, <2>5, <2>6, <2>7, <2>8, StepFrame
<1>11. ASSUME NEW r \in RootType, NEW ps \in [Pages -> DataPageType],
              pc[t] \in InsertPcs, loc[t].page \in used,
              r.cur = root.cur, root' = r,
              \A k \in 0 .. (r.cur - 1) : r.head[k] \in used \cup {NullRef},
              r.dataHead \in used \cup {NullRef},
              \A q \in Pages : /\ ps[q].nextFree \in used \cup {NullRef}
                               /\ ps[q].prevFree \in used \cup {RootRef, NullRef},
              InsertInto(t, ps, loc[t].page, cache[t].hint),
              NEW xs, Hold(t, xs, {}), UNCHANGED used
       PROVE  TypeInv'
  <2>1. loc[t].page \in Pages
    BY <1>0, <1>11
  <2>2. /\ pages' \in [Pages -> DataPageType]
        /\ \A q \in Pages : /\ pages'[q].nextFree = ps[q].nextFree
                            /\ pages'[q].prevFree = ps[q].prevFree
        /\ counter' \in Int
        /\ pc' = [pc EXCEPT ![t] = "commit"]
        /\ loc' = [loc EXCEPT ![t] = NoLocals]
        /\ \E c \in CacheType : cache' = [cache EXCEPT ![t] = c]
    BY <1>11, <2>1, InsertIntoFacts
  <2>3. PICK c \in CacheType : cache' = [cache EXCEPT ![t] = c]
    BY <2>2
  <2>4. RefsUsed'
    BY <1>11, <2>2 DEF RefsUsed
  <2>5. held' \in [Threads -> LatchTable]
    BY <1>11, HoldFacts
  <2>6. CallOK("commit", NoLocals, c, root'.cur, used') /\ "commit" \in Pcs
    BY DEF CallOK, InsertPcs, PurgePcs, Pcs
  <2>7. /\ root' \in RootType /\ root'.cur >= root.cur
        /\ used \subseteq used' /\ used' \subseteq Pages
    BY <1>0, <1>11
  <2> QED BY <2>2, <2>3, <2>4, <2>5, <2>6, <2>7, NoLocalsType, StepFrame
<1>12. CASE InsertNewPage(t)
  <2> DEFINE p  == loc[t].page
             k  == cache[t].slot
             st == AddDataPage(root, pages, p)
             fr == IF HasLastFreeSlot(pages[p]) THEN st
                   ELSE AddFreePage(st.root, st.pages, p, k)
  <2>1. /\ pc[t] = "ins_head" /\ root' = fr.root
        /\ InsertInto(t, fr.pages, p, cache[t].hint)
        /\ Hold(t, {RootRef, p} \cup ({root.dataHead} \cap Pages), {})
        /\ UNCHANGED used
    BY <1>12, Zenon DEF InsertNewPage, At
  <2>2. p \in used /\ p \in Pages /\ k \in 0 .. (root.cur - 1)
    <3>1. p \in used /\ k < root.cur
      BY <1>0, <2>1 DEF CallOK
    <3>2. k \in SlotNumbers \cup {INVALID_SLOT}
      BY <1>0 DEF CacheType
    <3> HIDE DEF k
    <3> QED BY <1>0, <3>1, <3>2, SlotBelow
  <2> HIDE DEF p, k
  <2>3. /\ st.root \in RootType
        /\ st.pages \in [Pages -> DataPageType]
        /\ st.root.cur = root.cur
        /\ st.root.head = root.head
        /\ st.root.dataHead = p
        /\ \A q \in Pages : /\ st.pages[q].nextFree = pages[q].nextFree
                            /\ st.pages[q].prevFree = pages[q].prevFree
    BY <1>0, <2>2, AddDataFacts
  <2> HIDE DEF st
  <2>4. /\ fr.root \in RootType
        /\ fr.pages \in [Pages -> DataPageType]
        /\ fr.root.cur = root.cur
        /\ fr.root.dataHead = p
        /\ fr.root.head = root.head \/ fr.root.head = [root.head EXCEPT ![k] = p]
        /\ \A q \in Pages :
             /\ fr.pages[q].nextFree \in {pages[q].nextFree, root.head[k]}
             /\ fr.pages[q].prevFree \in {pages[q].prevFree, RootRef, p}
    <3>1. CASE HasLastFreeSlot(pages[p])
      BY <2>3, <3>1
    <3>2. CASE ~ HasLastFreeSlot(pages[p])
      <4>1. fr = AddFreePage(st.root, st.pages, p, k)
        BY <3>2
      <4>2. k \in 0 .. (st.root.cur - 1)
        BY <2>2, <2>3
      <4>3. /\ fr.root \in RootType
            /\ fr.pages \in [Pages -> DataPageType]
            /\ fr.root.cur = st.root.cur
            /\ fr.root.head = [st.root.head EXCEPT ![k] = p]
            /\ fr.root.dataHead = st.root.dataHead
            /\ \A q \in Pages :
                 /\ fr.pages[q].nextFree =
                      IF q = p THEN st.root.head[k] ELSE st.pages[q].nextFree
                 /\ fr.pages[q].prevFree =
                      IF q = p THEN RootRef
                      ELSE IF q = st.root.head[k] THEN p ELSE st.pages[q].prevFree
        <5> DEFINE r == st.root
                   ps == st.pages
        <5>1. /\ r \in RootType /\ ps \in [Pages -> DataPageType]
              /\ p \in Pages /\ k \in 0 .. (r.cur - 1)
              /\ fr = AddFreePage(r, ps, p, k)
          BY <2>2, <2>3, <4>1, <4>2
        <5> HIDE DEF fr
        <5>2. /\ fr.root \in RootType
              /\ fr.pages \in [Pages -> DataPageType]
              /\ fr.root.cur = r.cur
              /\ fr.root.head = [r.head EXCEPT ![k] = p]
              /\ fr.root.dataHead = r.dataHead
              /\ \A q \in Pages :
                   /\ fr.pages[q].nextFree =
                        IF q = p THEN r.head[k] ELSE ps[q].nextFree
                   /\ fr.pages[q].prevFree =
                        IF q = p THEN RootRef
                        ELSE IF q = r.head[k] THEN p ELSE ps[q].prevFree
          <6> HIDE DEF r, ps
          <6> QED BY <5>1, AddFreeFacts
        <5> QED BY <5>2
      <4> HIDE DEF fr
      <4> QED BY <2>3, <4>3
    <3> QED BY <3>1, <3>2
  <2> HIDE DEF fr
  <2>5. \A j \in 0 .. (root.cur - 1) : root.head[j] \in used \cup {NullRef}
    BY <1>0 DEF RefsUsed
  <2>6. \A j \in 0 .. (root.cur - 1) : fr.root.head[j] \in used \cup {NullRef}
    BY <1>0, <2>2, <2>4, <2>5, RootFields
  <2>7. \A q \in Pages : /\ fr.pages[q].nextFree \in used \cup {NullRef}
                         /\ fr.pages[q].prevFree \in used \cup {RootRef, NullRef}
    BY <1>0, <2>2, <2>4, <2>5 DEF RefsUsed
  <2>8. pc[t] \in InsertPcs
    BY <2>1 DEF InsertPcs
  <2> QED BY <1>11, <2>1, <2>2, <2>4, <2>6, <2>7, <2>8 DEF p
<1>13. CASE InsertUnlink(t)
  <2> DEFINE p  == loc[t].page
             st == RemoveFreePage(root, pages, p)
  <2>1. /\ pc[t] = "ins_unlink" /\ root' = st.root
        /\ InsertInto(t, st.pages, p, cache[t].hint)
        /\ Hold(t, {RootRef, p} \cup WantsExclusive(t), {})
        /\ UNCHANGED used
    BY <1>13 DEF InsertUnlink, At
  <2>2. p \in used /\ p \in Pages
    BY <1>0, <2>1 DEF CallOK
  <2> HIDE DEF p
  <2>3. /\ st.root \in RootType
        /\ st.pages \in [Pages -> DataPageType]
        /\ st.root.cur = root.cur
        /\ st.root.head = IF pages[p].prevFree = RootRef
                          THEN [root.head EXCEPT ![pages[p].slot] = pages[p].nextFree]
                          ELSE root.head
        /\ st.root.dataHead = root.dataHead
        /\ \A q \in Pages :
             /\ st.pages[q].nextFree =
                  IF q = p THEN NullRef
                  ELSE IF q = pages[p].prevFree THEN pages[p].nextFree
                  ELSE pages[q].nextFree
             /\ st.pages[q].prevFree =
                  IF q = p THEN NullRef
                  ELSE IF q = pages[p].nextFree THEN pages[p].prevFree
                  ELSE pages[q].prevFree
    BY <1>0, <2>2, RemoveFreeFacts
  <2> HIDE DEF st
  <2>4. \A j \in 0 .. (root.cur - 1) : root.head[j] \in used \cup {NullRef}
    BY <1>0 DEF RefsUsed
  <2>5. /\ pages[p].nextFree \in used \cup {NullRef}
        /\ root.head \in [0 .. (root.cur - 1) -> Pages \cup {NullRef}]
    BY <1>0, <2>2, RootFields DEF RefsUsed
  <2>6. \A j \in 0 .. (root.cur - 1) : st.root.head[j] \in used \cup {NullRef}
    BY <2>3, <2>4, <2>5
  <2>7. \A q \in Pages : /\ st.pages[q].nextFree \in used \cup {NullRef}
                         /\ st.pages[q].prevFree \in used \cup {RootRef, NullRef}
    BY <1>0, <2>2, <2>3 DEF RefsUsed
  <2>8. st.root.dataHead \in used \cup {NullRef} /\ pc[t] \in InsertPcs
    BY <1>0, <2>1, <2>3 DEF RefsUsed, InsertPcs
  <2> QED BY <1>11, <2>1, <2>2, <2>3, <2>6, <2>7, <2>8 DEF p
<1> QED BY <1>1, <1>3, <1>4, <1>5, <1>7, <1>8, <1>9, <1>10, <1>12, <1>13
     DEF InsertStep

\* A step of t that moves to label l and writes at most one page, whose
\* links it keeps.
LEMMA TypeOnePage ==
  ASSUME TypeInv, NEW t \in Threads, NEW p \in Pages, NEW pg \in DataPageType,
         pg.nextFree = pages[p].nextFree, pg.prevFree = pages[p].prevFree,
         pages' = [pages EXCEPT ![p] = pg],
         NEW l \in Pcs, pc' = [pc EXCEPT ![t] = l],
         NEW v \in Locals, loc' = [loc EXCEPT ![t] = v],
         CallOK(l, v, cache[t], root.cur, used),
         NEW xs, NEW ss, Hold(t, xs, ss),
         UNCHANGED <<root, used, counter, cache>>
  PROVE  TypeInv'
<1>1. /\ root' \in RootType /\ root'.cur >= root.cur
      /\ used \subseteq used' /\ used' \subseteq Pages
      /\ counter' \in Int
      /\ pages \in [Pages -> DataPageType]
      /\ cache[t] \in CacheType
      /\ cache' = [cache EXCEPT ![t] = cache[t]]
  BY Typed
<1>2. pages' \in [Pages -> DataPageType]
  BY <1>1
<1>3. RefsUsed'
  <2>1. \A q \in Pages : /\ pages'[q].nextFree = pages[q].nextFree
                         /\ pages'[q].prevFree = pages[q].prevFree
    BY <1>1
  <2> QED BY <2>1, RefsKept
<1>4. held' \in [Threads -> LatchTable]
  BY HoldFacts
<1>5. CallOK(l, v, cache[t], root'.cur, used')
  OBVIOUS
<1> QED BY <1>1, <1>2, <1>3, <1>4, <1>5, StepFrame

\* Its special case without a write.
LEMMA TypeNoPage ==
  ASSUME TypeInv, NEW t \in Threads, UNCHANGED pages,
         NEW l \in Pcs, pc' = [pc EXCEPT ![t] = l],
         NEW v \in Locals, loc' = [loc EXCEPT ![t] = v],
         NEW c \in CacheType, cache' = [cache EXCEPT ![t] = c],
         CallOK(l, v, c, root.cur, used),
         held' \in [Threads -> LatchTable], counter' \in Int,
         UNCHANGED <<root, used>>
  PROVE  TypeInv'
<1>1. /\ root' \in RootType /\ root'.cur >= root.cur
      /\ used \subseteq used' /\ used' \subseteq Pages
      /\ pages' \in [Pages -> DataPageType]
  BY Typed
<1>3. RefsUsed'
  BY RefsKept
<1>5. CallOK(l, v, c, root'.cur, used')
  OBVIOUS
<1> QED BY <1>1, <1>3, <1>5, StepFrame

\* The steps of a purge after its first.
LEMMA TypePurge ==
  ASSUME TypeInv, NEW t \in Threads, PurgeStep(t)
  PROVE  TypeInv'
<1> DEFINE p == loc[t].page
<1>0. /\ root \in RootType /\ root.cur \in 1 .. MaxSlots
      /\ used \subseteq Pages
      /\ pages \in [Pages -> DataPageType]
      /\ counter \in Int
      /\ loc[t] \in Locals /\ loc = [loc EXCEPT ![t] = loc[t]]
      /\ cache[t] \in CacheType /\ cache = [cache EXCEPT ![t] = cache[t]]
      /\ CallOK(pc[t], loc[t], cache[t], root.cur, used)
      /\ RefsUsed
  BY Typed
<1>1. CASE PurgeLatchRoot(t)
  <2>1. /\ pc[t] = "pur_root"
        /\ pc' = [pc EXCEPT ![t] = "pur_reload"]
        /\ Hold(t, {RootRef}, {})
        /\ UNCHANGED <<root, used, pages, counter, cache, loc>>
    BY <1>1 DEF PurgeLatchRoot, At, Goto
  <2>2. /\ "pur_reload" \in Pcs
        /\ CallOK("pur_reload", loc[t], cache[t], root.cur, used)
    BY <1>0, <2>1 DEF CallOK, InsertPcs, PurgePcs, Pcs
  <2>3. held' \in [Threads -> LatchTable]
    BY <2>1, HoldFacts
  <2>4. /\ loc' = [loc EXCEPT ![t] = loc[t]]
        /\ cache' = [cache EXCEPT ![t] = cache[t]]
        /\ counter' \in Int
    BY <1>0, <2>1
  <2> QED BY <1>0, <2>1, <2>2, <2>3, <2>4, TypeNoPage
<1>2. ASSUME pc[t] \in PurgePcs
      PROVE  /\ p \in used /\ p \in Pages
             /\ pages[p] \in DataPageType
             /\ loc[t].index \in RecIndexes
             /\ loc[t].trx \in Trx
  BY <1>0, <1>2 DEF CallOK, Locals
<1>3. ASSUME pc[t] \in PurgePcs
      PROVE  LET pur == PurgeRecord(pages[p], loc[t].index)
             IN  /\ pur \in DataPageType
                 /\ pur.prevFree = pages[p].prevFree
                 /\ pur.nextFree = pages[p].nextFree
  <2> DEFINE pg == pages[p]
             i == loc[t].index
  <2>1. pg \in DataPageType /\ i \in RecIndexes
    BY <1>2, <1>3
  <2> SUFFICES LET pur == PurgeRecord(pg, i)
               IN  /\ pur \in DataPageType
                   /\ pur.prevFree = pg.prevFree
                   /\ pur.nextFree = pg.nextFree
    OBVIOUS
  <2> HIDE DEF pg, i
  <2> QED BY <2>1, PurgeRecordFacts
<1>4. CASE PurgeReloaded(t)
  <2> DEFINE hit == Purges(pages[p], loc[t].index, loc[t].trx)
             pg  == IF hit THEN PurgeRecord(pages[p], loc[t].index) ELSE pages[p]
  <2>1. /\ pc[t] = "pur_reload"
        /\ pages' = [pages EXCEPT ![p] = pg]
        /\ pc' = [pc EXCEPT ![t] = "commit"]
        /\ loc' = [loc EXCEPT ![t] = NoLocals]
        /\ Hold(t, {RootRef, p}, {})
        /\ UNCHANGED <<root, used, counter, cache>>
    BY <1>4 DEF PurgeReloaded, At, Goto, Return
  <2>2. pc[t] \in PurgePcs
    BY <2>1 DEF PurgePcs
  <2>3. /\ pg \in DataPageType
        /\ pg.nextFree = pages[p].nextFree /\ pg.prevFree = pages[p].prevFree
    BY <1>2, <1>3, <2>2
  <2>4. "commit" \in Pcs /\ CallOK("commit", NoLocals, cache[t], root.cur, used)
    BY DEF CallOK, InsertPcs, PurgePcs, Pcs
  <2> HIDE DEF pg
  <2> QED BY <1>2, <2>1, <2>2, <2>3, <2>4, NoLocalsType, TypeOnePage
<1>5. CASE PurgeReloadedRelist(t)
  <2> DEFINE pg == PurgeRecord(pages[p], loc[t].index)
             v(k) == [loc[t] EXCEPT !.slot = k]
  <2>1. PICK k \in GetFreeSlot(root) : loc' = [loc EXCEPT ![t] = v(k)]
    BY <1>5 DEF PurgeReloadedRelist
  <2>2. /\ pc[t] = "pur_reload"
        /\ pages' = [pages EXCEPT ![p] = pg]
        /\ pc' = [pc EXCEPT ![t] = "pur_slot"]
        /\ Hold(t, {RootRef, p}, {})
        /\ UNCHANGED <<root, used, counter, cache>>
    BY <1>5 DEF PurgeReloadedRelist, At, Goto
  <2>3. pc[t] \in PurgePcs
    BY <2>2 DEF PurgePcs
  <2>4. /\ pg \in DataPageType
        /\ pg.nextFree = pages[p].nextFree /\ pg.prevFree = pages[p].prevFree
    BY <1>3, <2>3
  <2>5. k \in 0 .. (root.cur - 1)
    BY <1>0, GetFreeSlotRange
  <2>6. v(k) \in Locals
    <3>1. k \in SlotNumbers
      BY <1>0, <2>5, SlotInRange
    <3> QED BY <1>0, <3>1 DEF Locals
  <2>7. "pur_slot" \in Pcs /\ CallOK("pur_slot", v(k), cache[t], root.cur, used)
    BY <1>0, <2>2, <2>5 DEF CallOK, InsertPcs, PurgePcs, Pcs, Locals
  <2> HIDE DEF pg, v
  <2> QED BY <1>2, <2>1, <2>2, <2>3, <2>4, <2>6, <2>7, TypeOnePage
<1>6. CASE PurgeRelist(t)
  <2> DEFINE k == loc[t].slot
             st == AddFreePage(root, pages, p, k)
  <2>1. /\ pc[t] = "pur_slot"
        /\ root' = st.root /\ pages' = st.pages
        /\ pc' = [pc EXCEPT ![t] = "commit"]
        /\ loc' = [loc EXCEPT ![t] = NoLocals]
        /\ Hold(t, {RootRef, p} \cup WantsExclusive(t), {})
        /\ UNCHANGED <<used, counter, cache>>
    BY <1>6 DEF PurgeRelist, At, Goto, Return
  <2>2. p \in used /\ p \in Pages
    BY <1>2, <2>1 DEF PurgePcs
  <2>3. k \in 0 .. (root.cur - 1)
    <3>1. k < root.cur /\ k \in SlotNumbers \cup {INVALID_SLOT}
      BY <1>0, <2>1 DEF CallOK, Locals
    <3>2. root.cur \in 1 .. MaxSlots
      BY <1>0, RootSize
    <3> HIDE DEF k
    <3> QED BY <3>1, <3>2, SlotBelow
  <2> HIDE DEF p, k
  <2>4. /\ st.root \in RootType
        /\ st.pages \in [Pages -> DataPageType]
        /\ st.root.cur = root.cur
        /\ st.root.head = [root.head EXCEPT ![k] = p]
        /\ st.root.dataHead = root.dataHead
        /\ \A q \in Pages :
             /\ st.pages[q].nextFree =
                  IF q = p THEN root.head[k] ELSE pages[q].nextFree
             /\ st.pages[q].prevFree =
                  IF q = p THEN RootRef
                  ELSE IF q = root.head[k] THEN p ELSE pages[q].prevFree
    <3>1. /\ root \in RootType /\ pages \in [Pages -> DataPageType]
          /\ st = AddFreePage(root, pages, p, k)
      BY <1>0
    <3>2. BecomesHead(st, root, pages, p, k)
      BY <2>2, <2>3, <3>1, AddFreeHead
    <3> QED BY <3>2, Zenon DEF BecomesHead
  <2> HIDE DEF st
  <2>5. root.head \in [0 .. (root.cur - 1) -> Pages \cup {NullRef}]
    BY <1>0, RootFields
  <2>6. \A j \in 0 .. (root.cur - 1) : st.root.head[j] \in used \cup {NullRef}
    BY <1>0, <2>2, <2>4, <2>5 DEF RefsUsed
  <2>7. \A q \in Pages : /\ st.pages[q].nextFree \in used \cup {NullRef}
                         /\ st.pages[q].prevFree \in used \cup {RootRef, NullRef}
    BY <1>0, <2>2, <2>3, <2>4 DEF RefsUsed
  <2>8. RefsUsed'
    BY <1>0, <2>1, <2>4, <2>6, <2>7 DEF RefsUsed
  <2>9. "commit" \in Pcs /\ CallOK("commit", NoLocals, cache[t], root'.cur, used')
    BY DEF CallOK, InsertPcs, PurgePcs, Pcs
  <2>10. held' \in [Threads -> LatchTable]
    BY <2>1, HoldFacts
  <2>11. /\ root' \in RootType /\ root'.cur >= root.cur
         /\ used \subseteq used' /\ used' \subseteq Pages
         /\ pages' \in [Pages -> DataPageType] /\ counter' \in Int
         /\ cache' = [cache EXCEPT ![t] = cache[t]]
    BY <1>0, <2>1, <2>4
  <2> QED BY <1>0, <2>1, <2>8, <2>9, <2>10, <2>11, NoLocalsType, StepFrame
<1> QED BY <1>1, <1>4, <1>5, <1>6 DEF PurgeStep

\* The first steps of the calls, the commit and the failures.
LEMMA TypeCalls ==
  ASSUME TypeInv, NEW t \in Threads
  PROVE  /\ \A trx \in Trx, data \in Data : InsertCall(t, trx, data) => TypeInv'
         /\ \A p \in Pages, i \in RecIndexes, trx \in Trx :
              /\ PurgeInPlace(t, p, i, trx) => TypeInv'
              /\ PurgeNeedsRoot(t, p, i, trx) => TypeInv'
              /\ \A mark \in BOOLEAN : MarkDelete(t, p, i, trx, mark) => TypeInv'
         /\ \A p \in Pages, i \in RecIndexes, data \in Data :
              Update(t, p, i, data) => TypeInv'
         /\ \A p \in Pages : /\ Fetch(t, p) => TypeInv'
                             /\ FetchForUpdate(t, p) => TypeInv'
         /\ Commit(t) => TypeInv'
         /\ InsertElsewhere(t) => TypeInv'
         /\ LoadFails(t) => TypeInv'
<1>0. /\ pages \in [Pages -> DataPageType]
      /\ held \in [Threads -> LatchTable]
      /\ counter \in Int
      /\ pc[t] \in Pcs /\ pc = [pc EXCEPT ![t] = pc[t]]
      /\ loc[t] \in Locals /\ loc = [loc EXCEPT ![t] = loc[t]]
      /\ cache[t] \in CacheType /\ cache = [cache EXCEPT ![t] = cache[t]]
      /\ CallOK(pc[t], loc[t], cache[t], root.cur, used)
  BY Typed
<1>1. /\ \A v, c, n, u : CallOK("commit", v, c, n, u) /\ CallOK("idle", v, c, n, u)
      /\ "commit" \in Pcs /\ "idle" \in Pcs
  BY DEF CallOK, InsertPcs, PurgePcs, Pcs
<1>2. ASSUME NEW p \in Pages, NEW pg \in DataPageType,
             pg.nextFree = pages[p].nextFree, pg.prevFree = pages[p].prevFree,
             pages' = [pages EXCEPT ![p] = pg], Goto(t, "commit"), Hold(t, {p}, {}),
             UNCHANGED <<root, used, counter, cache, loc>>
      PROVE  TypeInv'
  <2>1. /\ pc' = [pc EXCEPT ![t] = "commit"]
        /\ loc' = [loc EXCEPT ![t] = loc[t]]
        /\ CallOK("commit", loc[t], cache[t], root.cur, used)
        /\ "commit" \in Pcs /\ loc[t] \in Locals
    BY <1>0, <1>1, <1>2 DEF Goto
  <2> QED BY <1>2, <2>1, TypeOnePage
<1>3. ASSUME NEW p \in Pages, UNCHANGED pages
      PROVE  pages' = [pages EXCEPT ![p] = pages[p]] /\ pages[p] \in DataPageType
  BY <1>0, <1>3
<1>4. ASSUME NEW trx \in Trx, NEW data \in Data, InsertCall(t, trx, data)
      PROVE  TypeInv'
  <2> DEFINE v == [NoLocals EXCEPT !.trx = trx, !.data = data]
  <2>1. /\ loc' = [loc EXCEPT ![t] = v]
        /\ pc' = [pc EXCEPT ![t] = "ins_root_s"]
        /\ counter' = counter + 1
        /\ UNCHANGED <<root, used, pages, held, cache>>
    BY <1>4 DEF InsertCall, Goto
  <2>2. v \in Locals
    BY NoLocalsType DEF Locals
  <2>3. "ins_root_s" \in Pcs /\ CallOK("ins_root_s", v, cache[t], root.cur, used)
    BY DEF CallOK, InsertPcs, PurgePcs, Pcs, NoLocals
  <2>4. /\ held' \in [Threads -> LatchTable] /\ counter' \in Int
        /\ cache' = [cache EXCEPT ![t] = cache[t]]
    BY <1>0, <2>1
  <2> HIDE DEF v
  <2> QED BY <1>0, <2>1, <2>2, <2>3, <2>4, TypeNoPage
<1>5. ASSUME NEW p \in Pages, NEW i \in RecIndexes, NEW trx \in Trx,
             PurgeInPlace(t, p, i, trx)
      PROVE  TypeInv'
  <2> DEFINE pg == IF Purges(pages[p], i, trx) THEN PurgeRecord(pages[p], i)
                   ELSE pages[p]
  <2>1. /\ pages' = [pages EXCEPT ![p] = pg]
        /\ Goto(t, "commit") /\ Hold(t, {p}, {})
        /\ UNCHANGED <<root, used, counter, cache, loc>>
    BY <1>0, <1>3, <1>5 DEF PurgeInPlace
  <2>2. /\ pg \in DataPageType /\ pg.nextFree = pages[p].nextFree
        /\ pg.prevFree = pages[p].prevFree
    BY <1>0, PurgeRecordFacts
  <2> HIDE DEF pg
  <2> QED BY <1>2, <2>1, <2>2
<1>6. ASSUME NEW p \in Pages, NEW i \in RecIndexes, NEW trx \in Trx,
             PurgeNeedsRoot(t, p, i, trx)
      PROVE  TypeInv'
  <2> DEFINE v == [NoLocals EXCEPT !.page = p, !.index = i, !.trx = trx]
  <2>1. /\ loc' = [loc EXCEPT ![t] = v] /\ p \in used
        /\ pc' = [pc EXCEPT ![t] = "pur_root"]
        /\ UNCHANGED <<root, used, pages, held, counter, cache>>
    BY <1>6 DEF PurgeNeedsRoot, Goto
  <2>2. v \in Locals
    BY NoLocalsType DEF Locals
  <2>3. "pur_root" \in Pcs /\ CallOK("pur_root", v, cache[t], root.cur, used)
    BY <2>1 DEF CallOK, InsertPcs, PurgePcs, Pcs, NoLocals
  <2>4. /\ held' \in [Threads -> LatchTable] /\ counter' \in Int
        /\ cache' = [cache EXCEPT ![t] = cache[t]]
    BY <1>0, <2>1
  <2> HIDE DEF v
  <2> QED BY <1>0, <2>1, <2>2, <2>3, <2>4, TypeNoPage
<1>7. ASSUME NEW p \in Pages, NEW i \in RecIndexes, NEW trx \in Trx,
             NEW mark \in BOOLEAN, MarkDelete(t, p, i, trx, mark)
      PROVE  TypeInv'
  <2> DEFINE pg == MarkRecord(pages[p], i, trx, mark)
  <2>1. /\ pages' = [pages EXCEPT ![p] = pg] /\ pages[p].recs[i] # FreeRec
        /\ Goto(t, "commit") /\ Hold(t, {p}, {})
        /\ UNCHANGED <<root, used, counter, cache, loc>>
    BY <1>7 DEF MarkDelete
  <2>2. /\ pg \in DataPageType /\ pg.nextFree = pages[p].nextFree
        /\ pg.prevFree = pages[p].prevFree
    BY <1>0, <2>1, MarkRecordFacts
  <2> HIDE DEF pg
  <2> QED BY <1>2, <2>1, <2>2
<1>8. ASSUME NEW p \in Pages, NEW i \in RecIndexes, NEW data \in Data,
             Update(t, p, i, data)
      PROVE  TypeInv'
  <2>1. CASE pages[p].recs[i] = FreeRec
    <3>1. UNCHANGED pages /\ Goto(t, "commit") /\ Hold(t, {p}, {})
          /\ UNCHANGED <<root, used, counter, cache, loc>>
      BY <1>8, <2>1 DEF Update
    <3> QED BY <1>2, <1>3, <3>1
  <2>2. CASE pages[p].recs[i] # FreeRec
    <3> DEFINE pg == [pages[p] EXCEPT !.recs[i].data = data]
    <3>1. /\ pages' = [pages EXCEPT ![p] = pg]
          /\ Goto(t, "commit") /\ Hold(t, {p}, {})
          /\ UNCHANGED <<root, used, counter, cache, loc>>
      BY <1>8, <2>2 DEF Update
    <3>2. /\ pg \in DataPageType /\ pg.nextFree = pages[p].nextFree
          /\ pg.prevFree = pages[p].prevFree
      BY <1>0, <2>2, UpdateRecordFacts
    <3> HIDE DEF pg
    <3> QED BY <1>2, <3>1, <3>2
  <2> QED BY <2>1, <2>2
<1>9. ASSUME NEW l \in {"commit", "idle"}, Goto(t, l), NEW xs, NEW ss, Hold(t, xs, ss),
             UNCHANGED <<root, used, pages, counter, cache, loc>>
      PROVE  TypeInv'
  <2>1. /\ held' \in [Threads -> LatchTable] /\ counter' \in Int
        /\ pc' = [pc EXCEPT ![t] = l] /\ l \in Pcs
        /\ loc' = [loc EXCEPT ![t] = loc[t]]
        /\ cache' = [cache EXCEPT ![t] = cache[t]]
        /\ CallOK(l, loc[t], cache[t], root.cur, used)
    BY <1>0, <1>1, <1>9, HoldFacts DEF Goto
  <2> QED BY <1>0, <1>9, <2>1, TypeNoPage
<1>10. ASSUME NEW p \in Pages, Fetch(t, p) PROVE TypeInv'
  BY <1>9, <1>10 DEF Fetch
<1>14. ASSUME NEW p \in Pages, FetchForUpdate(t, p) PROVE TypeInv'
  BY <1>9, <1>14 DEF FetchForUpdate
<1>11. ASSUME Commit(t) PROVE TypeInv'
  BY <1>9, <1>11 DEF Commit
<1>12. ASSUME InsertElsewhere(t) PROVE TypeInv'
  <2>1. /\ pc[t] = "idle" /\ cache' = [cache EXCEPT ![t] = NoCache]
        /\ UNCHANGED <<root, used, pages, held, counter, pc, loc>>
    BY <1>12 DEF InsertElsewhere
  <2>2. /\ held' \in [Threads -> LatchTable] /\ counter' \in Int
        /\ pc' = [pc EXCEPT ![t] = "idle"]
        /\ loc' = [loc EXCEPT ![t] = loc[t]]
        /\ CallOK("idle", loc[t], NoCache, root.cur, used)
    BY <1>0, <1>1, <2>1
  <2> QED BY <1>0, <1>1, <2>1, <2>2, NoCacheType, TypeNoPage
<1>13. ASSUME LoadFails(t) PROVE TypeInv'
  <2>1. /\ pc' = [pc EXCEPT ![t] = "commit"] /\ loc' = [loc EXCEPT ![t] = NoLocals]
        /\ counter' \in {counter, counter - 1}
        /\ UNCHANGED <<root, used, pages, held, cache>>
    BY <1>13 DEF LoadFails, Return, Goto
  <2>2. /\ held' \in [Threads -> LatchTable] /\ counter' \in Int
        /\ cache' = [cache EXCEPT ![t] = cache[t]]
        /\ CallOK("commit", NoLocals, cache[t], root.cur, used)
    BY <1>0, <1>1, <2>1
  <2> QED BY <1>0, <1>1, <2>1, <2>2, NoLocalsType, TypeNoPage
<1> QED BY <1>4, <1>5, <1>6, <1>7, <1>8, <1>10, <1>11, <1>12, <1>13, <1>14

\* TypeInv is inductive.
LEMMA TypeStep == TypeInv /\ [Next]_vars => TypeInv'
<1> SUFFICES ASSUME TypeInv, [Next]_vars PROVE TypeInv'
  OBVIOUS
<1>1. CASE UNCHANGED vars
  BY <1>1 DEF vars, TypeInv, TypeOK, CallsOK, CallOK, RefsUsed
<1>2. CASE Next
  BY <1>2, TypeInsert, TypePurge, TypeCalls DEF Next
<1> QED BY <1>1, <1>2

\* Type correctness of ColumnStore: in every reachable state the pages, the
\* latches, the thread caches and the locals of the calls have their types,
\* so the cached slot number and hint always index what they are used on.
THEOREM TypeCorrect == Spec => []TypeOK
<1>1. TypeInv => TypeOK
  BY DEF TypeInv
<1> QED BY <1>1, TypeInit, TypeStep, PTL DEF Spec

-------------------------------------------------------------------------------
(* Latches.  What a call holds is determined by where it is: nothing while *)
(* it waits for the root page, the root page while it waits for a data     *)
(* page, and never a data page without the root page.                      *)

NoLatchPcs == {"idle", "ins_root_s", "ins_root_x", "pur_root"}

RootPcs == {"ins_load", "pur_reload"}

RootAndPagePcs == {"ins_head", "ins_unlink", "pur_slot"}

LatchShape(l, h, p) ==
  /\ l \in NoLatchPcs => \A q \in Latchable : h[q] = "none"
  /\ l = "ins_page" => h[RootRef] = "S" /\ \A q \in Pages : h[q] = "none"
  /\ l \in RootPcs => h[RootRef] = "X" /\ \A q \in Pages : h[q] = "none"
  /\ l \in RootAndPagePcs => /\ h[RootRef] = "X" /\ h[p] = "X"
                             /\ \A q \in Pages \ {p} : h[q] = "none"

LatchShapes == \A t \in Threads : LatchShape(pc[t], held[t], loc[t].page)

LatchesUsed ==
  \A t \in Threads, p \in Pages : held[t][p] # "none" => p \in used

LatchInv == LatchesExclude /\ LatchShapes /\ LatchesUsed

\* t ends the step with the exclusive latches xs and the shared ones ss, on
\* allocated pages and in nobody's way.
HoldOK(t, xs, ss) ==
  /\ Hold(t, xs, ss)
  /\ xs \cap ss = {}
  /\ \A q \in xs : q \in used' \cup {RootRef} /\ ExclusiveFree(t, q)
  /\ \A q \in ss : q \in used' \cup {RootRef} /\ SharedFree(t, q)
  /\ used \subseteq used' /\ used' \subseteq Pages

\* The sets of latches LatchShape asks for at label l with page p.
ShapeSets(l, p, xs, ss) ==
  /\ l \in NoLatchPcs => xs = {} /\ ss = {}
  /\ l = "ins_page" => xs = {} /\ ss = {RootRef}
  /\ l \in RootPcs => xs = {RootRef} /\ ss = {}
  /\ l \in RootAndPagePcs => xs = {RootRef, p} /\ ss = {} /\ p \in Pages

\* A step of one thread.
LEMMA LatchFrame ==
  ASSUME TypeInv, LatchInv, NEW t \in Threads, NEW xs, NEW ss, HoldOK(t, xs, ss),
         NEW l, pc' = [pc EXCEPT ![t] = l],
         NEW v, loc' = [loc EXCEPT ![t] = v],
         ShapeSets(l, v.page, xs, ss)
  PROVE  LatchInv'
<1>1. /\ held' \in [Threads -> LatchTable]
      /\ \A u \in Threads \ {t} : held'[u] = held[u]
      /\ \A q \in Latchable :
           held'[t][q] = IF q \in xs THEN "X" ELSE IF q \in ss THEN "S" ELSE "none"
  BY HoldFacts DEF HoldOK
<1>2. LatchesExclude'
  <2> SUFFICES ASSUME NEW a \in Threads, NEW b \in Threads, NEW q \in Latchable,
                      a # b, held'[a][q] = "X"
               PROVE  held'[b][q] = "none"
    BY DEF LatchesExclude
  <2>1. CASE a = t
    BY <1>1, <2>1 DEF ExclusiveFree, HoldOK
  <2>2. CASE b = t
    BY <1>1, <2>2 DEF ExclusiveFree, SharedFree, HoldOK
  <2>3. CASE a # t /\ b # t
    BY <1>1, <2>3 DEF LatchInv, LatchesExclude
  <2> QED BY <2>1, <2>2, <2>3
<1>3. LatchShapes'
  <2> SUFFICES ASSUME NEW u \in Threads
               PROVE  LatchShape(pc'[u], held'[u], loc'[u].page)
    BY DEF LatchShapes
  <2>1. CASE u = t
    <3>1. pc'[u] = l /\ loc'[u] = v
      BY <2>1 DEF TypeInv, TypeOK
    <3>2. LatchShape(l, held'[t], v.page)
      BY <1>1, PageAssumption 
         DEF LatchShape, ShapeSets, Latchable, NoLatchPcs, RootPcs, RootAndPagePcs
    <3> QED BY <2>1, <3>1, <3>2
  <2>2. CASE u # t
    <3>1. pc'[u] = pc[u] /\ loc'[u] = loc[u] /\ held'[u] = held[u]
      BY <1>1, <2>2 DEF TypeInv, TypeOK
    <3> QED BY <3>1 DEF LatchInv, LatchShapes
  <2> QED BY <2>1, <2>2
<1>4. LatchesUsed'
  BY <1>1, PageAssumption DEF LatchInv, LatchesUsed, Latchable, HoldOK
<1> QED BY <1>2, <1>3, <1>4 DEF LatchInv

\* A step of t that keeps its latches.
LEMMA LatchKept ==
  ASSUME TypeInv, LatchInv, NEW t \in Threads, UNCHANGED held,
         used \subseteq used',
         NEW l, pc' = [pc EXCEPT ![t] = l],
         NEW v, loc' = [loc EXCEPT ![t] = v],
         l = "commit" \/ (l \in NoLatchPcs /\ pc[t] \in NoLatchPcs)
  PROVE  LatchInv'
<1>1. LatchesExclude' /\ LatchesUsed'
  BY DEF LatchInv, LatchesExclude, LatchesUsed
<1>2. LatchShapes'
  <2> SUFFICES ASSUME NEW u \in Threads
               PROVE  LatchShape(pc'[u], held'[u], loc'[u].page)
    BY DEF LatchShapes
  <2>0. LatchShape(pc[u], held[u], loc[u].page)
    BY DEF LatchInv, LatchShapes
  <2>1. CASE u = t
    BY <2>0, <2>1 DEF TypeInv, TypeOK, LatchShape, NoLatchPcs, RootPcs, RootAndPagePcs
  <2>2. CASE u # t
    BY <2>0, <2>2 DEF TypeInv, TypeOK
  <2> QED BY <2>1, <2>2
<1> QED BY <1>1, <1>2 DEF LatchInv

\* What the granted latches of t exclude.
LEMMA GrantedFacts ==
  ASSUME NEW t \in Threads, Granted(t)
  PROVE  /\ pc[t] = "ins_root_s" => SharedFree(t, RootRef)
         /\ pc[t] \in {"ins_root_x", "pur_root"} => ExclusiveFree(t, RootRef)
         /\ pc[t] \in {"ins_page", "ins_load", "pur_reload"}
              => ExclusiveFree(t, loc[t].page)
         /\ pc[t] = "ins_head" => \A q \in {root.dataHead} \cap Pages : ExclusiveFree(t, q)
         /\ \A q \in WantsExclusive(t) : ExclusiveFree(t, q)
BY DEF Granted, WantsShared, WantsExclusive

\* A latch t holds exclusively is nobody else's.
LEMMA HeldFree ==
  ASSUME LatchInv, NEW t \in Threads, NEW q \in Latchable, held[t][q] = "X"
  PROVE  ExclusiveFree(t, q)
BY DEF LatchInv, LatchesExclude, ExclusiveFree

\* An unallocated page is latched by nobody.
LEMMA FreshFree ==
  ASSUME LatchInv, NEW t \in Threads, NEW p \in Pages \ used
  PROVE  ExclusiveFree(t, p)
BY DEF LatchInv, LatchesUsed, ExclusiveFree

\* Nothing is latched at first.
LEMMA LatchInit == Init => LatchInv
<1> SUFFICES ASSUME Init PROVE LatchInv
  OBVIOUS
<1>1. \A t \in Threads, q \in Latchable : held[t][q] = "none"
  BY DEF Init
<1>2. \A t \in Threads : pc[t] = "idle"
  BY DEF Init
<1> QED BY <1>1, <1>2 DEF LatchInv, LatchesExclude, LatchShapes, LatchShape,
         LatchesUsed, NoLatchPcs, RootPcs, RootAndPagePcs, Latchable

\* A call that returns may hold anything.
LEMMA LatchReturn ==
  ASSUME TypeInv, LatchInv, NEW t \in Threads, NEW xs, NEW ss, HoldOK(t, xs, ss),
         pc' = [pc EXCEPT ![t] = "commit"],
         NEW v, loc' = [loc EXCEPT ![t] = v]
  PROVE  LatchInv'
<1>1. ShapeSets("commit", v.page, xs, ss)
  BY DEF ShapeSets, NoLatchPcs, RootPcs, RootAndPagePcs
<1> QED BY <1>1, LatchFrame

\* The steps of an insert.
LEMMA LatchInsert ==
  ASSUME TypeInv, LatchInv, NEW t \in Threads, InsertStep(t)
  PROVE  LatchInv'
<1> DEFINE p == loc[t].page
<1>0. /\ used \subseteq Pages /\ RefsUsed
      /\ CallOK(pc[t], loc[t], cache[t], root.cur, used)
      /\ LatchShape(pc[t], held[t], p)
      /\ RootRef \in Latchable /\ Pages \subseteq Latchable /\ RootRef \notin Pages
  BY Typed, PageAssumption DEF LatchInv, LatchShapes, Latchable
<1>1. CASE InsertSelect(t)
  <2>0. PICK k \in SelectableSlots(t, root), grow \in BOOLEAN, go \in BOOLEAN :
          /\ loc' = [loc EXCEPT ![t] =
                       [@ EXCEPT !.page = IF go THEN root.head[k] ELSE NullRef,
                                 !.grow = grow]]
          /\ Goto(t, IF go THEN "ins_page" ELSE "ins_root_x")
          /\ Hold(t, {}, IF go THEN {RootRef} ELSE {})
    BY <1>1, Zenon DEF InsertSelect
  <2> DEFINE l == IF go THEN "ins_page" ELSE "ins_root_x"
             v == [loc[t] EXCEPT !.page = IF go THEN root.head[k] ELSE NullRef,
                                 !.grow = grow]
  <2>1. /\ l \in {"ins_page", "ins_root_x"}
        /\ loc' = [loc EXCEPT ![t] = v]
        /\ pc' = [pc EXCEPT ![t] = l]
        /\ Hold(t, {}, IF l = "ins_page" THEN {RootRef} ELSE {})
    BY <2>0 DEF Goto
  <2> HIDE DEF l, v
  <2> DEFINE ss == IF l = "ins_page" THEN {RootRef} ELSE {}
  <2>2. SharedFree(t, RootRef) /\ UNCHANGED used
    BY <1>1, GrantedFacts DEF InsertSelect, At
  <2>3. HoldOK(t, {}, ss)
    BY <1>0, <2>1, <2>2 DEF HoldOK
  <2>4. ShapeSets(l, v.page, {}, ss)
    BY <2>1 DEF ShapeSets, NoLatchPcs, RootPcs, RootAndPagePcs
  <2> HIDE DEF ss
  <2> QED BY <2>1, <2>3, <2>4, LatchFrame
<1>2. CASE InsertFallBack(t)
  <2>1. PICK v : /\ loc' = [loc EXCEPT ![t] = v]
                 /\ pc' = [pc EXCEPT ![t] = "ins_root_x"]
                 /\ Hold(t, {}, {}) /\ UNCHANGED used
    BY <1>2 DEF InsertFallBack, Goto
  <2>2. HoldOK(t, {}, {}) /\ ShapeSets("ins_root_x", v.page, {}, {})
    BY <1>0, <2>1 DEF HoldOK, ShapeSets, NoLatchPcs, RootPcs, RootAndPagePcs
  <2> QED BY <2>1, <2>2, LatchFrame
<1>3. CASE InsertSelectAgain(t)
  <2>1. PICK v : /\ loc' = [loc EXCEPT ![t] = v]
                 /\ pc' = [pc EXCEPT ![t] = "ins_load"]
                 /\ Hold(t, {RootRef}, {}) /\ UNCHANGED used
    BY <1>3 DEF InsertSelectAgain, Goto
  <2>2. ExclusiveFree(t, RootRef)
    BY <1>3, GrantedFacts DEF InsertSelectAgain, At
  <2>3. HoldOK(t, {RootRef}, {}) /\ ShapeSets("ins_load", v.page, {RootRef}, {})
    BY <1>0, <2>1, <2>2 DEF HoldOK, ShapeSets, NoLatchPcs, RootPcs, RootAndPagePcs
  <2> QED BY <2>1, <2>3, LatchFrame
<1>4. CASE InsertAllocate(t)
  <2>1. PICK n \in Pages \ used :
          /\ loc' = [loc EXCEPT ![t] = [loc[t] EXCEPT !.page = n, !.grow = FALSE]]
          /\ used' = used \cup {n} /\ Hold(t, {RootRef, n}, {})
          /\ pc' = [pc EXCEPT ![t] = "ins_head"]
    BY <1>4 DEF InsertAllocate, Goto
  <2>2. ExclusiveFree(t, RootRef) /\ ExclusiveFree(t, n)
    BY <1>4, GrantedFacts, FreshFree DEF InsertAllocate, At
  <2> DEFINE v == [loc[t] EXCEPT !.page = n, !.grow = FALSE]
  <2>3. v.page = n
    BY Typed DEF Locals
  <2>4. loc' = [loc EXCEPT ![t] = v]
    BY <2>1
  <2> HIDE DEF v
  <2>5. HoldOK(t, {RootRef, n}, {})
    BY <1>0, <2>1, <2>2 DEF HoldOK
  <2>6. ShapeSets("ins_head", v.page, {RootRef, n}, {})
    BY <2>1, <2>3 DEF ShapeSets, NoLatchPcs, RootPcs, RootAndPagePcs
  <2> QED BY <2>1, <2>4, <2>5, <2>6, LatchFrame
<1>5. CASE InsertLoadedLast(t)
  <2>1. /\ pc' = [pc EXCEPT ![t] = "ins_unlink"] /\ pc[t] = "ins_load"
        /\ Hold(t, {RootRef, p}, {}) /\ UNCHANGED <<used, loc>>
        /\ loc' = [loc EXCEPT ![t] = loc[t]]
    BY <1>5, Typed DEF InsertLoadedLast, Goto, At
  <2>2. p \in used /\ held[t][RootRef] = "X"
    BY <1>0, <2>1 DEF CallOK, LatchShape, RootPcs
  <2>3. ExclusiveFree(t, RootRef) /\ ExclusiveFree(t, p)
    BY <1>0, <1>5, <2>1, <2>2, GrantedFacts, HeldFree DEF InsertLoadedLast, At
  <2>4. HoldOK(t, {RootRef, p}, {})
    BY <1>0, <2>1, <2>2, <2>3 DEF HoldOK
  <2>5. ShapeSets("ins_unlink", loc[t].page, {RootRef, p}, {})
    BY <1>0, <2>2 DEF ShapeSets, NoLatchPcs, RootPcs, RootAndPagePcs
  <2> QED BY <2>1, <2>4, <2>5, LatchFrame
<1>6. CASE InsertNoSpace(t)
  <2>1. /\ pc' = [pc EXCEPT ![t] = "commit"] /\ loc' = [loc EXCEPT ![t] = NoLocals]
        /\ Hold(t, {RootRef}, {}) /\ UNCHANGED used
    BY <1>6 DEF InsertNoSpace, Return, Goto
  <2>2. ExclusiveFree(t, RootRef)
    BY <1>6, GrantedFacts DEF InsertNoSpace, At
  <2>3. HoldOK(t, {RootRef}, {})
    BY <1>0, <2>1, <2>2 DEF HoldOK
  <2> QED BY <2>1, <2>3, LatchReturn
<1>7. CASE InsertOptimistic(t)
  <2>1. /\ pc' = [pc EXCEPT ![t] = "commit"] /\ loc' = [loc EXCEPT ![t] = NoLocals]
        /\ pc[t] = "ins_page" /\ Hold(t, {p}, {}) /\ UNCHANGED used
    BY <1>7 DEF InsertOptimistic, InsertInto, Return, Goto, At
  <2>2. p \in used /\ ExclusiveFree(t, p)
    BY <1>0, <1>7, <2>1, GrantedFacts DEF InsertOptimistic, At, CallOK
  <2>3. HoldOK(t, {p}, {})
    BY <1>0, <2>1, <2>2 DEF HoldOK
  <2> QED BY <2>1, <2>3, LatchReturn
<1>8. CASE InsertLoaded(t)
  <2>1. /\ pc' = [pc EXCEPT ![t] = "commit"] /\ loc' = [loc EXCEPT ![t] = NoLocals]
        /\ pc[t] = "ins_load" /\ Hold(t, {RootRef, p}, {}) /\ UNCHANGED used
    BY <1>8 DEF InsertLoaded, InsertInto, Return, Goto, At
  <2>2. p \in used /\ ExclusiveFree(t, p) /\ held[t][RootRef] = "X"
    BY <1>0, <1>8, <2>1, GrantedFacts DEF InsertLoaded, At, CallOK, LatchShape, RootPcs
  <2>3. ExclusiveFree(t, RootRef)
    BY <1>0, <2>2, HeldFree
  <2>4. HoldOK(t, {RootRef, p}, {})
    BY <1>0, <2>1, <2>2, <2>3 DEF HoldOK
  <2> QED BY <2>1, <2>4, LatchReturn
<1>9. ASSUME pc[t] \in {"ins_head", "ins_unlink"}
      PROVE  p \in used /\ ExclusiveFree(t, p) /\ ExclusiveFree(t, RootRef)
  <2>1. p \in used /\ held[t][RootRef] = "X" /\ held[t][p] = "X"
    BY <1>0, <1>9 DEF CallOK, LatchShape, RootAndPagePcs
  <2> QED BY <1>0, <2>1, HeldFree
<1>10. CASE InsertNewPage(t)
  <2> DEFINE h == {root.dataHead} \cap Pages
             xs == {RootRef, p} \cup h
  <2>1. /\ pc' = [pc EXCEPT ![t] = "commit"] /\ loc' = [loc EXCEPT ![t] = NoLocals]
        /\ pc[t] = "ins_head" /\ Hold(t, xs, {}) /\ UNCHANGED used
    BY <1>10 DEF InsertNewPage, InsertInto, Return, Goto, At
  <2>2. \A q \in h : q \in used /\ ExclusiveFree(t, q)
    BY <1>0, <1>10, <2>1, GrantedFacts, PageAssumption DEF InsertNewPage, At, RefsUsed
  <2> HIDE DEF h
  <2>3. HoldOK(t, xs, {})
    BY <1>0, <1>9, <2>1, <2>2 DEF HoldOK
  <2> HIDE DEF xs
  <2> QED BY <2>1, <2>3, LatchReturn
<1>11. CASE InsertUnlink(t)
  <2> DEFINE h == WantsExclusive(t)
             xs == {RootRef, p} \cup h
  <2>1. /\ pc' = [pc EXCEPT ![t] = "commit"] /\ loc' = [loc EXCEPT ![t] = NoLocals]
        /\ pc[t] = "ins_unlink" /\ Hold(t, xs, {}) /\ UNCHANGED used
    BY <1>11 DEF InsertUnlink, InsertInto, Return, Goto, At
  <2>2. h = {pages[p].prevFree, pages[p].nextFree} \cap Pages
    BY <2>1 DEF WantsExclusive
  <2>3. \A q \in h : ExclusiveFree(t, q)
    BY <1>11, GrantedFacts DEF InsertUnlink, At
  <2>4. h \subseteq used
    BY <1>0, <1>9, <2>1, <2>2, PageAssumption DEF RefsUsed
  <2> HIDE DEF h
  <2>5. HoldOK(t, xs, {})
    BY <1>0, <1>9, <2>1, <2>3, <2>4 DEF HoldOK
  <2> HIDE DEF xs
  <2> QED BY <2>1, <2>5, LatchReturn
<1> QED BY <1>1, <1>2, <1>3, <1>4, <1>5, <1>6, <1>7, <1>8, <1>10, <1>11
     DEF InsertStep

\* The steps of a purge after its first.
LEMMA LatchPurge ==
  ASSUME TypeInv, LatchInv, NEW t \in Threads, PurgeStep(t)
  PROVE  LatchInv'
<1> DEFINE p == loc[t].page
<1>0. /\ used \subseteq Pages /\ RefsUsed
      /\ root \in RootType /\ root.cur \in 1 .. MaxSlots
      /\ CallOK(pc[t], loc[t], cache[t], root.cur, used)
      /\ LatchShape(pc[t], held[t], p) /\ loc[t] \in Locals
      /\ RootRef \in Latchable /\ Pages \subseteq Latchable /\ RootRef \notin Pages
  BY Typed, PageAssumption DEF LatchInv, LatchShapes, Latchable
<1>1. CASE PurgeLatchRoot(t)
  <2>1. /\ pc' = [pc EXCEPT ![t] = "pur_reload"] /\ Hold(t, {RootRef}, {})
        /\ loc' = [loc EXCEPT ![t] = loc[t]] /\ UNCHANGED used
    BY <1>1, Typed DEF PurgeLatchRoot, Goto
  <2>2. ExclusiveFree(t, RootRef)
    BY <1>1, GrantedFacts DEF PurgeLatchRoot, At
  <2>3. HoldOK(t, {RootRef}, {}) /\ ShapeSets("pur_reload", loc[t].page, {RootRef}, {})
    BY <1>0, <2>1, <2>2 DEF HoldOK, ShapeSets, NoLatchPcs, RootPcs, RootAndPagePcs
  <2> QED BY <2>1, <2>3, LatchFrame
<1>2. ASSUME pc[t] \in {"pur_reload", "pur_slot"}, Granted(t)
      PROVE  p \in used /\ ExclusiveFree(t, p) /\ ExclusiveFree(t, RootRef)
  <2>1. p \in used /\ held[t][RootRef] = "X"
    BY <1>0, <1>2 DEF CallOK, LatchShape, RootAndPagePcs, RootPcs, PurgePcs
  <2>2. CASE pc[t] = "pur_reload"
    BY <1>0, <1>2, <2>1, <2>2, GrantedFacts, HeldFree
  <2>3. CASE pc[t] = "pur_slot"
    <3>1. held[t][p] = "X"
      BY <1>0, <2>3 DEF LatchShape, RootAndPagePcs
    <3> QED BY <1>0, <2>1, <3>1, HeldFree
  <2> QED BY <1>2, <2>2, <2>3
<1>3. CASE PurgeReloaded(t)
  <2>1. /\ pc' = [pc EXCEPT ![t] = "commit"] /\ loc' = [loc EXCEPT ![t] = NoLocals]
        /\ pc[t] = "pur_reload" /\ Granted(t)
        /\ Hold(t, {RootRef, p}, {}) /\ UNCHANGED used
    BY <1>3 DEF PurgeReloaded, Return, Goto, At
  <2>2. HoldOK(t, {RootRef, p}, {})
    BY <1>0, <1>2, <2>1 DEF HoldOK
  <2> QED BY <2>1, <2>2, LatchReturn
<1>4. CASE PurgeReloadedRelist(t)
  <2>1. /\ pc' = [pc EXCEPT ![t] = "pur_slot"] /\ pc[t] = "pur_reload" /\ Granted(t)
        /\ Hold(t, {RootRef, p}, {}) /\ UNCHANGED used
    BY <1>4 DEF PurgeReloadedRelist, Goto, At
  <2>2. PICK k : loc' = [loc EXCEPT ![t] = [loc[t] EXCEPT !.slot = k]]
    BY <1>4 DEF PurgeReloadedRelist
  <2> DEFINE v == [loc[t] EXCEPT !.slot = k]
  <2>3. v.page = p
    BY <1>0 DEF Locals
  <2>4. loc' = [loc EXCEPT ![t] = v]
    BY <2>2
  <2> HIDE DEF v
  <2>5. HoldOK(t, {RootRef, p}, {})
    BY <1>0, <1>2, <2>1 DEF HoldOK
  <2>6. ShapeSets("pur_slot", v.page, {RootRef, p}, {})
    BY <1>0, <1>2, <2>1, <2>3 DEF ShapeSets, NoLatchPcs, RootPcs, RootAndPagePcs
  <2> QED BY <2>1, <2>4, <2>5, <2>6, LatchFrame
<1>5. CASE PurgeRelist(t)
  <2> DEFINE h == WantsExclusive(t)
             xs == {RootRef, p} \cup h
  <2>1. /\ pc' = [pc EXCEPT ![t] = "commit"] /\ loc' = [loc EXCEPT ![t] = NoLocals]
        /\ pc[t] = "pur_slot" /\ Granted(t)
        /\ Hold(t, xs, {}) /\ UNCHANGED used
    BY <1>5 DEF PurgeRelist, Return, Goto, At
  <2>2. h = {root.head[loc[t].slot]} \cap Pages
    BY <2>1 DEF WantsExclusive
  <2>3. \A q \in h : ExclusiveFree(t, q)
    BY <2>1, GrantedFacts
  <2>4. h \subseteq used
    <3>1. /\ loc[t].slot < root.cur /\ loc[t].slot \in SlotNumbers \cup {INVALID_SLOT}
          /\ root.cur \in 1 .. MaxSlots
      BY <1>0, <2>1 DEF CallOK, Locals
    <3>2. loc[t].slot \in 0 .. (root.cur - 1)
      BY <3>1, SlotBelow
    <3> QED BY <1>0, <2>2, <3>2, PageAssumption DEF RefsUsed
  <2> HIDE DEF h
  <2>5. HoldOK(t, xs, {})
    BY <1>0, <1>2, <2>1, <2>3, <2>4 DEF HoldOK
  <2> HIDE DEF xs
  <2> QED BY <2>1, <2>5, LatchReturn
<1> QED BY <1>1, <1>3, <1>4, <1>5 DEF PurgeStep

\* The first steps of the calls, the commit and the failures.
LEMMA LatchCalls ==
  ASSUME TypeInv, LatchInv, NEW t \in Threads
  PROVE  /\ \A trx \in Trx, data \in Data : InsertCall(t, trx, data) => LatchInv'
         /\ \A p \in Pages, i \in RecIndexes, trx \in Trx :
              /\ PurgeInPlace(t, p, i, trx) => LatchInv'
              /\ PurgeNeedsRoot(t, p, i, trx) => LatchInv'
              /\ \A mark \in BOOLEAN : MarkDelete(t, p, i, trx, mark) => LatchInv'
         /\ \A p \in Pages, i \in RecIndexes, data \in Data :
              Update(t, p, i, data) => LatchInv'
         /\ \A p \in Pages : /\ Fetch(t, p) => LatchInv'
                             /\ FetchForUpdate(t, p) => LatchInv'
         /\ Commit(t) => LatchInv'
         /\ InsertElsewhere(t) => LatchInv'
         /\ LoadFails(t) => LatchInv'
<1>0. used \subseteq Pages /\ loc = [loc EXCEPT ![t] = loc[t]]
      /\ pc = [pc EXCEPT ![t] = pc[t]] /\ RootRef \notin Pages
  BY Typed, PageAssumption
<1>1. ASSUME NEW p \in used, ExclusiveFree(t, p), Goto(t, "commit"),
             Hold(t, {p}, {}), UNCHANGED <<used, loc>>
      PROVE  LatchInv'
  <2>1. HoldOK(t, {p}, {})
    BY <1>0, <1>1 DEF HoldOK
  <2>2. pc' = [pc EXCEPT ![t] = "commit"] /\ loc' = [loc EXCEPT ![t] = loc[t]]
    BY <1>0, <1>1 DEF Goto
  <2> QED BY <2>1, <2>2, LatchReturn
<1>2. ASSUME NEW trx \in Trx, NEW data \in Data, InsertCall(t, trx, data)
      PROVE  LatchInv'
  <2>1. PICK v : /\ loc' = [loc EXCEPT ![t] = v] /\ pc[t] = "idle"
                 /\ pc' = [pc EXCEPT ![t] = "ins_root_s"]
                 /\ UNCHANGED <<held, used>>
    BY <1>2 DEF InsertCall, Goto
  <2>2. "ins_root_s" \in NoLatchPcs /\ pc[t] \in NoLatchPcs /\ used \subseteq used'
    BY <2>1 DEF NoLatchPcs
  <2> QED BY <2>1, <2>2, LatchKept
<1>3. ASSUME NEW p \in Pages, NEW i \in RecIndexes, NEW trx \in Trx,
             PurgeNeedsRoot(t, p, i, trx)
      PROVE  LatchInv'
  <2>1. PICK v : /\ loc' = [loc EXCEPT ![t] = v] /\ pc[t] = "idle"
                 /\ pc' = [pc EXCEPT ![t] = "pur_root"]
                 /\ UNCHANGED <<held, used>>
    BY <1>3 DEF PurgeNeedsRoot, Goto
  <2>2. "pur_root" \in NoLatchPcs /\ pc[t] \in NoLatchPcs /\ used \subseteq used'
    BY <2>1 DEF NoLatchPcs
  <2> QED BY <2>1, <2>2, LatchKept
<1>4. ASSUME NEW p \in Pages, NEW i \in RecIndexes, NEW trx \in Trx,
             PurgeInPlace(t, p, i, trx)
      PROVE  LatchInv'
  BY <1>1, <1>4 DEF PurgeInPlace
<1>5. ASSUME NEW p \in Pages, NEW i \in RecIndexes, NEW trx \in Trx,
             NEW mark \in BOOLEAN, MarkDelete(t, p, i, trx, mark)
      PROVE  LatchInv'
  BY <1>1, <1>5 DEF MarkDelete
<1>6. ASSUME NEW p \in Pages, NEW i \in RecIndexes, NEW data \in Data,
             Update(t, p, i, data)
      PROVE  LatchInv'
  BY <1>1, <1>6 DEF Update
<1>7. ASSUME NEW p \in Pages, Fetch(t, p) PROVE LatchInv'
  <2>1. /\ p \in used /\ SharedFree(t, p) /\ Hold(t, {}, {p}) /\ UNCHANGED used
        /\ pc' = [pc EXCEPT ![t] = "commit"] /\ loc' = [loc EXCEPT ![t] = loc[t]]
    BY <1>0, <1>7 DEF Fetch, Goto
  <2>2. HoldOK(t, {}, {p})
    BY <1>0, <2>1 DEF HoldOK
  <2> QED BY <2>1, <2>2, LatchReturn
<1>11. ASSUME NEW p \in Pages, FetchForUpdate(t, p) PROVE LatchInv'
  BY <1>1, <1>11 DEF FetchForUpdate
<1>8. ASSUME Commit(t) PROVE LatchInv'
  <2>1. /\ Hold(t, {}, {}) /\ UNCHANGED used
        /\ pc' = [pc EXCEPT ![t] = "idle"] /\ loc' = [loc EXCEPT ![t] = loc[t]]
    BY <1>0, <1>8 DEF Commit, Goto
  <2>2. HoldOK(t, {}, {}) /\ ShapeSets("idle", loc[t].page, {}, {})
    BY <1>0, <2>1 DEF HoldOK, ShapeSets, NoLatchPcs, RootPcs, RootAndPagePcs
  <2> QED BY <2>1, <2>2, LatchFrame
<1>9. ASSUME InsertElsewhere(t) PROVE LatchInv'
  BY <1>9 DEF InsertElsewhere, LatchInv, LatchesExclude, LatchShapes, LatchesUsed
<1>10. ASSUME LoadFails(t) PROVE LatchInv'
  <2>1. /\ loc' = [loc EXCEPT ![t] = NoLocals] /\ used \subseteq used'
        /\ pc' = [pc EXCEPT ![t] = "commit"] /\ UNCHANGED held
    BY <1>10 DEF LoadFails, Return, Goto
  <2> QED BY <2>1, LatchKept
<1> QED BY <1>2, <1>3, <1>4, <1>5, <1>6, <1>7, <1>8, <1>9, <1>10, <1>11

\* LatchInv is inductive relative to TypeInv.
LEMMA LatchStep == TypeInv /\ LatchInv /\ [Next]_vars => LatchInv'
<1> SUFFICES ASSUME TypeInv, LatchInv, [Next]_vars PROVE LatchInv'
  OBVIOUS
<1>1. CASE UNCHANGED vars
  BY <1>1 DEF vars, LatchInv, LatchesExclude, LatchShapes, LatchesUsed
<1>2. CASE Next
  BY <1>2, LatchInsert, LatchPurge, LatchCalls DEF Next
<1> QED BY <1>1, <1>2

\* A thread that waits for a data page holds the root page, and a thread that
\* waits at all holds a data page only together with the root page.
LEMMA LatchOrder ==
  ASSUME TypeInv, LatchInv, NEW S \in SUBSET Threads, S # {}
  PROVE  \E t \in S : \A u \in S : ~ WaitsFor(t, u)
<1> DEFINE Free == {"idle", "commit"}
           Rooted == {"ins_page"} \cup RootPcs \cup RootAndPagePcs
           Waiting == {"ins_root_s", "ins_root_x", "pur_root"}
<1>1. \A t \in Threads : /\ pc[t] \in Pcs /\ LatchShape(pc[t], held[t], loc[t].page)
                         /\ CallOK(pc[t], loc[t], cache[t], root.cur, used)
  BY Typed DEF LatchInv, LatchShapes
<1>2. \A t \in Threads : pc[t] \in Free \cup Rooted \cup Waiting
  BY <1>1 DEF Pcs, InsertPcs, PurgePcs, RootPcs, RootAndPagePcs
<1>3. CASE \E t \in S : pc[t] \in Free
  BY <1>3 DEF WaitsFor, WantsShared, WantsExclusive
<1>4. CASE (\A t \in S : pc[t] \notin Free) /\ \E t \in S : pc[t] \in Rooted
  <2>1. PICK t \in S : pc[t] \in Rooted
    BY <1>4
  <2>2. held[t][RootRef] # "none"
    BY <1>1, <2>1 DEF LatchShape, RootPcs, RootAndPagePcs
  <2>3. WantsShared(t) = {} /\ WantsExclusive(t) \subseteq Pages
    <3>1. loc[t].page \in Pages
      BY <1>1, <2>1, Typed DEF CallOK, RootPcs, RootAndPagePcs, PurgePcs
    <3> QED BY <2>1, <3>1 DEF WantsShared, WantsExclusive, RootPcs, RootAndPagePcs
  <2>4. ASSUME NEW u \in S, WaitsFor(t, u) PROVE FALSE
    <3>1. u # t /\ \E q \in Pages : held[u][q] # "none"
      BY <2>3, <2>4 DEF WaitsFor
    <3>2. pc[u] \in Rooted \cup Waiting
      BY <1>2, <1>4
    <3>3. held[u][RootRef] = "X"
      BY <1>1, <3>1, <3>2
         DEF LatchShape, NoLatchPcs, RootPcs, RootAndPagePcs, Latchable
    <3> QED BY <2>2, <3>1, <3>3 DEF LatchInv, LatchesExclude, Latchable
  <2> QED BY <2>4
<1>5. CASE \A t \in S : pc[t] \in Waiting
  <2>1. \A u \in S, q \in Latchable : held[u][q] = "none"
    BY <1>1, <1>5 DEF LatchShape, NoLatchPcs
  <2>2. \A t \in S : WantsShared(t) \subseteq Latchable /\ WantsExclusive(t) \subseteq Latchable
    BY <1>5 DEF WantsShared, WantsExclusive, Latchable
  <2> QED BY <2>1, <2>2 DEF WaitsFor
<1> QED BY <1>2, <1>3, <1>4, <1>5

\* No set of threads in insert, purge, update, mark_delete and fetch ever
\* waits for page latches held within the set, however many threads there
\* are: the order root page before data page is kept by every path, the
\* fallback of an optimistic insert and the re-latching purge included.
THEOREM NoDeadlock == Spec => []NoLatchDeadlock
<1>1. TypeInv /\ LatchInv => NoLatchDeadlock
  BY LatchOrder DEF NoLatchDeadlock
<1> QED BY <1>1, TypeInit, LatchInit, TypeStep, LatchStep, PTL DEF Spec

-------------------------------------------------------------------------------
(* What is written is latched.                                             *)

\* An insert that is about to list its new page found its slot empty.
EmptySlots == \A t \in Threads : pc[t] = "ins_head" => root.head[cache[t].slot] = NullRef

\* A step of t ends with an exclusive latch on what it wrote.
WriteOK(t) ==
  /\ \A q \in Pages : pages'[q] # pages[q] => held'[t][q] = "X"
  /\ root' # root => held'[t][RootRef] = "X" /\ ExclusiveFree(t, RootRef)
  /\ \A u \in Threads \ {t} : pc'[u] = pc[u] /\ cache'[u] = cache[u]
  /\ pc'[t] = "ins_head" => root'.head[cache'[t].slot] = NullRef

\* A step of t that writes pages of xs only.
LEMMA WriteFrame ==
  ASSUME TypeInv, NEW t \in Threads, NEW xs, NEW ss, Hold(t, xs, ss),
         \A q \in Pages \ xs : pages'[q] = pages[q],
         root' # root => RootRef \in xs /\ ExclusiveFree(t, RootRef),
         NEW l, l # "ins_head", pc' = [pc EXCEPT ![t] = l],
         NEW c, cache' = [cache EXCEPT ![t] = c]
  PROVE  WriteOK(t)
<1>1. \A q \in Latchable : q \in xs => held'[t][q] = "X"
  BY HoldFacts
<1>2. RootRef \in Latchable /\ Pages \subseteq Latchable
  BY DEF Latchable
<1>3. pc'[t] = l /\ \A u \in Threads \ {t} : pc'[u] = pc[u] /\ cache'[u] = cache[u]
  BY DEF TypeInv, TypeOK
<1> QED BY <1>1, <1>2, <1>3 DEF WriteOK

\* A step of t that writes nothing.
LEMMA WriteNothing ==
  ASSUME TypeInv, NEW t \in Threads, UNCHANGED <<root, pages>>,
         NEW l, l # "ins_head", pc' = [pc EXCEPT ![t] = l],
         NEW c, cache' = [cache EXCEPT ![t] = c]
  PROVE  WriteOK(t)
BY DEF WriteOK, TypeInv, TypeOK

\* Which pages the operators of the root page write.
LEMMA AddDataWrites ==
  ASSUME NEW r, NEW ps, NEW p \in Pages, NEW q \in Pages \ {p, r.dataHead}
  PROVE  AddDataPage(r, ps, p).pages[q] = ps[q]
BY DEF AddDataPage

LEMMA RemoveFreeWrites ==
  ASSUME NEW r, NEW ps \in [Pages -> DataPageType], NEW p \in Pages,
         NEW q \in Pages \ {p, ps[p].prevFree, ps[p].nextFree}
  PROVE  RemoveFreePage(r, ps, p).pages[q] = ps[q]
<1>1. RemoveFreePage(r, ps, p).pages[q] =
        [ps[q] EXCEPT !.nextFree = ps[q].nextFree, !.prevFree = ps[q].prevFree]
  BY DEF RemoveFreePage
<1>2. ps[q] \in DataPageType
  OBVIOUS
<1>3. \A x \in DataPageType :
        [x EXCEPT !.nextFree = x.nextFree, !.prevFree = x.prevFree] = x
  BY DEF DataPageType
<1> QED BY <1>1, <1>2, <1>3

\* A record goes into page p, after the pages of xs were written.
LEMMA InsertWrites ==
  ASSUME TypeInv, NEW t \in Threads, NEW ps \in [Pages -> DataPageType], NEW p \in Pages,
         NEW h, InsertInto(t, ps, p, h), NEW xs, p \in xs, Hold(t, xs, {}),
         \A q \in Pages \ xs : ps[q] = pages[q],
         root' # root => RootRef \in xs /\ ExclusiveFree(t, RootRef)
  PROVE  WriteOK(t)
<1>1. \A q \in Pages \ xs : pages'[q] = pages[q]
  BY DEF InsertInto
<1>2. pc' = [pc EXCEPT ![t] = "commit"]
  BY DEF InsertInto, Return, Goto
<1>3. PICK c : cache' = [cache EXCEPT ![t] = c]
  BY DEF InsertInto
<1> QED BY <1>1, <1>2, <1>3, WriteFrame

LEMMA WriteInsert ==
  ASSUME TypeInv, LatchInv, EmptySlots, NEW t \in Threads, InsertStep(t)
  PROVE  WriteOK(t)
<1> DEFINE p == loc[t].page
           k == cache[t].slot
<1>0. /\ root \in RootType /\ root.cur \in 1 .. MaxSlots /\ used \subseteq Pages /\ RefsUsed
      /\ pages \in [Pages -> DataPageType]
      /\ CallOK(pc[t], loc[t], cache[t], root.cur, used)
      /\ LatchShape(pc[t], held[t], p)
      /\ cache[t] \in CacheType /\ cache = [cache EXCEPT ![t] = cache[t]]
      /\ RootRef \in Latchable /\ Pages \subseteq Latchable /\ RootRef \notin Pages
  BY Typed, PageAssumption DEF LatchInv, LatchShapes, Latchable
<1>1. pc[t] \in {"ins_page", "ins_head", "ins_load", "ins_unlink"} => p \in Pages
  BY <1>0 DEF CallOK
<1>2. pc[t] \in {"ins_head", "ins_load", "ins_unlink"} => ExclusiveFree(t, RootRef)
  BY <1>0, HeldFree DEF LatchShape, RootPcs, RootAndPagePcs
<1>3. CASE InsertSelect(t)
  <2>1. PICK l \in {"ins_page", "ins_root_x"} :
          /\ pc' = [pc EXCEPT ![t] = l]
          /\ \E c : cache' = [cache EXCEPT ![t] = c]
    BY <1>3 DEF InsertSelect, Goto
  <2>2. PICK c : cache' = [cache EXCEPT ![t] = c]
    BY <2>1
  <2>3. UNCHANGED <<root, pages>>
    BY <1>3 DEF InsertSelect
  <2> QED BY <2>1, <2>2, <2>3, WriteNothing
<1>4. CASE InsertFallBack(t)
  <2>1. pc' = [pc EXCEPT ![t] = "ins_root_x"] /\ UNCHANGED <<root, pages, cache>>
    BY <1>4 DEF InsertFallBack, Goto
  <2> QED BY <1>0, <2>1, WriteNothing
<1>5. CASE InsertLoadedLast(t)
  <2>1. pc' = [pc EXCEPT ![t] = "ins_unlink"] /\ UNCHANGED <<root, pages, cache>>
    BY <1>5 DEF InsertLoadedLast, Goto
  <2> QED BY <1>0, <2>1, WriteNothing
<1>6. CASE InsertSelectAgain(t)
  <2>1. /\ pc' = [pc EXCEPT ![t] = "ins_load"] /\ UNCHANGED pages /\ Hold(t, {RootRef}, {})
        /\ pc[t] = "ins_root_x" /\ Granted(t)
    BY <1>6 DEF InsertSelectAgain, Goto, At
  <2>2. PICK c : cache' = [cache EXCEPT ![t] = c]
    BY <1>6 DEF InsertSelectAgain
  <2>3. ExclusiveFree(t, RootRef)
    BY <2>1, GrantedFacts
  <2> QED BY <2>1, <2>2, <2>3, WriteFrame
<1>7. CASE InsertNoSpace(t)
  <2>1. /\ pc' = [pc EXCEPT ![t] = "commit"] /\ UNCHANGED pages /\ Hold(t, {RootRef}, {})
        /\ pc[t] = "ins_root_x" /\ Granted(t)
    BY <1>7 DEF InsertNoSpace, Return, Goto, At
  <2>2. PICK c : cache' = [cache EXCEPT ![t] = c]
    BY <1>7 DEF InsertNoSpace
  <2>3. ExclusiveFree(t, RootRef)
    BY <2>1, GrantedFacts
  <2> QED BY <2>1, <2>2, <2>3, WriteFrame
<1>8. CASE InsertAllocate(t)
  <2>0. PICK r : r = PessimisticRoot(t) /\ root' = r
    BY <1>8 DEF InsertAllocate
  <2>1. r \in RootType
    BY <1>0, <2>0, GrowFacts DEF PessimisticRoot
  <2>2. PICK j \in SelectableSlots(t, r), n \in Pages :
          /\ r.head[j] = NullRef /\ cache' = [cache EXCEPT ![t] = CacheOn(t, j)]
          /\ pages' = [pages EXCEPT ![n] = FormattedPage] /\ Hold(t, {RootRef, n}, {})
    BY <1>8, <2>0 DEF InsertAllocate
  <2>3. pc' = [pc EXCEPT ![t] = "ins_head"] /\ pc[t] = "ins_root_x" /\ Granted(t)
    BY <1>8 DEF InsertAllocate, Goto, At
  <2>4. CacheOn(t, j).slot = j
    BY <2>1, <2>2, SelectFacts
  <2>5. cache'[t].slot = j /\ \A u \in Threads \ {t} : pc'[u] = pc[u] /\ cache'[u] = cache[u]
    BY <2>2, <2>3, <2>4 DEF TypeInv, TypeOK
  <2>6. held'[t][RootRef] = "X" /\ held'[t][n] = "X"
    BY <1>0, <2>2, HoldFacts
  <2>7. ExclusiveFree(t, RootRef)
    BY <2>3, GrantedFacts
  <2>8. \A q \in Pages : pages'[q] # pages[q] => q = n
    BY <1>0, <2>2
  <2> QED BY <2>0, <2>2, <2>5, <2>6, <2>7, <2>8 DEF WriteOK
<1>9. CASE InsertOptimistic(t)
  <2>1. /\ pc[t] = "ins_page" /\ InsertInto(t, pages, p, cache[t].hint)
        /\ Hold(t, {p}, {}) /\ UNCHANGED root
    BY <1>9 DEF InsertOptimistic, At
  <2>2. p \in Pages
    BY <1>1, <2>1
  <2> HIDE DEF p
  <2> QED BY <1>0, <2>1, <2>2, InsertWrites
<1>10. CASE InsertLoaded(t)
  <2>1. /\ pc[t] = "ins_load" /\ InsertInto(t, pages, p, cache[t].hint)
        /\ Hold(t, {RootRef, p}, {}) /\ UNCHANGED root
    BY <1>10 DEF InsertLoaded, At
  <2>2. p \in Pages
    BY <1>1, <2>1
  <2> HIDE DEF p
  <2> QED BY <1>0, <2>1, <2>2, InsertWrites
<1>11. CASE InsertUnlink(t)
  <2>1. PICK ps, xs : /\ ps = RemoveFreePage(root, pages, p).pages
                      /\ xs = {RootRef, p} \cup WantsExclusive(t)
    OBVIOUS
  <2>2. /\ pc[t] = "ins_unlink" /\ InsertInto(t, ps, p, cache[t].hint)
        /\ Hold(t, xs, {})
    BY <1>11, <2>1 DEF InsertUnlink, At
  <2>3. WantsExclusive(t) = {pages[p].prevFree, pages[p].nextFree} \cap Pages
    BY <2>2 DEF WantsExclusive
  <2>4. p \in Pages /\ ExclusiveFree(t, RootRef)
    BY <1>1, <1>2, <2>2
  <2> HIDE DEF p
  <2>5. ps \in [Pages -> DataPageType]
    BY <1>0, <2>1, <2>4, RemoveFreePages
  <2>6. \A q \in Pages \ xs : ps[q] = pages[q]
    BY <1>0, <2>1, <2>3, <2>4, RemoveFreeWrites
  <2>7. p \in xs /\ RootRef \in xs
    BY <2>1
  <2> QED BY <2>2, <2>4, <2>5, <2>6, <2>7, InsertWrites
<1>12. CASE InsertNewPage(t)
  <2>1. PICK st : st = AddDataPage(root, pages, p)
    OBVIOUS
  <2>2. PICK fr : fr = IF HasLastFreeSlot(pages[p]) THEN st
                       ELSE AddFreePage(st.root, st.pages, p, k)
    OBVIOUS
  <2>3. PICK xs : xs = {RootRef, p} \cup ({root.dataHead} \cap Pages)
    OBVIOUS
  <2>4. /\ pc[t] = "ins_head" /\ InsertInto(t, fr.pages, p, cache[t].hint)
        /\ Hold(t, xs, {})
    BY <1>12, <2>1, <2>2, <2>3 DEF InsertNewPage, At
  <2>5. p \in Pages /\ ExclusiveFree(t, RootRef) /\ root.head[k] = NullRef /\ k < root.cur
    BY <1>0, <1>1, <1>2, <2>4 DEF EmptySlots, CallOK
  <2>6. k \in 0 .. (root.cur - 1)
    <3>1. k \in SlotNumbers \cup {INVALID_SLOT}
      BY <1>0 DEF CacheType
    <3> QED BY <1>0, <2>5, <3>1, SlotBelow
  <2> HIDE DEF p, k
  <2>7. /\ st.root \in RootType /\ st.pages \in [Pages -> DataPageType]
        /\ st.root.cur = root.cur /\ st.root.head = root.head
    BY <1>0, <2>1, <2>5, AddDataFacts
  <2>8. \A q \in Pages \ xs : st.pages[q] = pages[q]
    BY <2>1, <2>3, <2>5, AddDataWrites
  <2>9. fr.pages \in [Pages -> DataPageType] /\ \A q \in Pages \ xs : fr.pages[q] = pages[q]
    <3>1. CASE HasLastFreeSlot(pages[p])
      BY <2>2, <2>7, <2>8, <3>1
    <3>2. CASE ~HasLastFreeSlot(pages[p])
      <4>1. PICK sr, sp : sr = st.root /\ sp = st.pages
        OBVIOUS
      <4>2. fr = AddFreePage(sr, sp, p, k) /\ sr \in RootType /\ sp \in [Pages -> DataPageType]
            /\ k \in 0 .. (sr.cur - 1) /\ sr.head[k] = NullRef
        BY <2>2, <2>5, <2>6, <2>7, <3>2, <4>1
      <4>3. fr.pages \in [Pages -> DataPageType]
        BY <2>5, <4>2, AddFreePages
      <4>4. ASSUME NEW q \in Pages \ xs PROVE fr.pages[q] = pages[q]
        <5>1. q \in Pages \ {p, sr.head[k]}
          BY <2>3, <4>2, <4>4, PageAssumption
        <5>2. PICK f : f = fr.pages
          OBVIOUS
        <5>3. f = AddFreePage(sr, sp, p, k).pages
          BY <4>2, <5>2
        <5>4. \A a \in Pages : a # p /\ a # sr.head[k] => f[a] = sp[a]
          BY <5>3 DEF AddFreePage
        <5> QED BY <2>8, <4>1, <4>4, <5>1, <5>2, <5>4
      <4> QED BY <4>3, <4>4
    <3> QED BY <3>1, <3>2
  <2>10. p \in xs /\ RootRef \in xs
    BY <2>3
  <2>11. PICK ps : ps = fr.pages
    OBVIOUS
  <2> QED BY <2>4, <2>5, <2>9, <2>10, <2>11, InsertWrites
<1> QED
  BY <1>3, <1>4, <1>5, <1>6, <1>7, <1>8, <1>9, <1>10, <1>11, <1>12 DEF InsertStep

\* A step of t that may write one page.
LEMMA WriteOne ==
  ASSUME TypeInv, NEW t \in Threads, NEW p \in Pages, NEW xs, p \in xs, Hold(t, xs, {}),
         NEW pg, pages' = pages \/ pages' = [pages EXCEPT ![p] = pg],
         UNCHANGED <<root, cache>>, NEW l, l # "ins_head", pc' = [pc EXCEPT ![t] = l]
  PROVE  WriteOK(t)
<1>1. \A q \in Pages \ xs : pages'[q] = pages[q]
  BY DEF TypeInv, TypeOK
<1>2. cache' = [cache EXCEPT ![t] = cache[t]]
  BY Typed
<1> QED BY <1>1, <1>2, WriteFrame

LEMMA WritePurge ==
  ASSUME TypeInv, LatchInv, NEW t \in Threads, PurgeStep(t)
  PROVE  WriteOK(t)
<1> DEFINE p == loc[t].page
           k == loc[t].slot
<1>0. /\ root \in RootType /\ root.cur \in 1 .. MaxSlots /\ used \subseteq Pages
      /\ pages \in [Pages -> DataPageType]
      /\ CallOK(pc[t], loc[t], cache[t], root.cur, used)
      /\ LatchShape(pc[t], held[t], p) /\ loc[t] \in Locals
      /\ cache = [cache EXCEPT ![t] = cache[t]]
      /\ RootRef \in Latchable
  BY Typed DEF LatchInv, LatchShapes, Latchable
<1>1. CASE PurgeLatchRoot(t)
  <2>1. pc' = [pc EXCEPT ![t] = "pur_reload"] /\ UNCHANGED <<root, pages, cache>>
    BY <1>1 DEF PurgeLatchRoot, Goto
  <2> QED BY <1>0, <2>1, WriteNothing
<1>2. CASE PurgeReloaded(t)
  <2>1. /\ pc[t] = "pur_reload" /\ pc' = [pc EXCEPT ![t] = "commit"]
        /\ Hold(t, {RootRef, p}, {}) /\ UNCHANGED <<root, cache>>
    BY <1>2 DEF PurgeReloaded, Return, Goto, At
  <2>2. PICK pg : pages' = [pages EXCEPT ![p] = pg]
    BY <1>2 DEF PurgeReloaded
  <2>3. p \in Pages
    BY <1>0, <2>1 DEF CallOK, PurgePcs
  <2> HIDE DEF p
  <2>4. PICK xs : xs = {RootRef, p}
    OBVIOUS
  <2>5. p \in xs /\ Hold(t, xs, {})
    BY <2>1, <2>4
  <2>6. pages' = pages \/ pages' = [pages EXCEPT ![p] = pg]
    BY <2>2
  <2> QED BY <2>1, <2>3, <2>5, <2>6, WriteOne
<1>3. CASE PurgeReloadedRelist(t)
  <2>1. /\ pc[t] = "pur_reload" /\ pc' = [pc EXCEPT ![t] = "pur_slot"]
        /\ Hold(t, {RootRef, p}, {}) /\ UNCHANGED <<root, cache>>
    BY <1>3 DEF PurgeReloadedRelist, Goto, At
  <2>2. PICK pg : pages' = [pages EXCEPT ![p] = pg]
    BY <1>3 DEF PurgeReloadedRelist
  <2>3. p \in Pages
    BY <1>0, <2>1 DEF CallOK, PurgePcs
  <2> HIDE DEF p
  <2>4. PICK xs : xs = {RootRef, p}
    OBVIOUS
  <2>5. p \in xs /\ Hold(t, xs, {})
    BY <2>1, <2>4
  <2>6. pages' = pages \/ pages' = [pages EXCEPT ![p] = pg]
    BY <2>2
  <2> QED BY <2>1, <2>3, <2>5, <2>6, WriteOne
<1>4. CASE PurgeRelist(t)
  <2>1. PICK xs : xs = {RootRef, p} \cup WantsExclusive(t)
    OBVIOUS
  <2>2. /\ pc[t] = "pur_slot" /\ pc' = [pc EXCEPT ![t] = "commit"]
        /\ pages' = AddFreePage(root, pages, p, k).pages
        /\ Hold(t, xs, {}) /\ UNCHANGED cache
    BY <1>4, <2>1 DEF PurgeRelist, Return, Goto, At
  <2>3. WantsExclusive(t) = {root.head[k]} \cap Pages
    BY <2>2 DEF WantsExclusive
  <2>4. p \in Pages
    BY <1>0, <2>2 DEF CallOK, PurgePcs
  <2>5. ExclusiveFree(t, RootRef)
    BY <1>0, <2>2, HeldFree DEF LatchShape, RootAndPagePcs
  <2> HIDE DEF p, k
  <2>6. \A q \in Pages \ xs : pages'[q] = pages[q]
    <3>1. PICK r, ps, f : r = root /\ ps = pages /\ f = pages'
      OBVIOUS
    <3>2. f = AddFreePage(r, ps, p, k).pages
      BY <2>2, <3>1
    <3>3. \A q \in Pages : q # p /\ q # r.head[k] => f[q] = ps[q]
      BY <3>2 DEF AddFreePage
    <3> QED BY <2>1, <2>3, <3>1, <3>3
  <2>7. RootRef \in xs
    BY <2>1
  <2> QED BY <1>0, <2>2, <2>5, <2>6, <2>7, WriteFrame
<1> QED BY <1>1, <1>2, <1>3, <1>4 DEF PurgeStep

\* The steps of the other calls and of the callers.
LEMMA WriteCalls ==
  ASSUME TypeInv, NEW t \in Threads,
         \/ \E trx \in Trx, data \in Data : InsertCall(t, trx, data)
         \/ \E p \in Pages, i \in RecIndexes, trx \in Trx :
              \/ PurgeInPlace(t, p, i, trx)
              \/ PurgeNeedsRoot(t, p, i, trx)
              \/ \E mark \in BOOLEAN : MarkDelete(t, p, i, trx, mark)
         \/ \E p \in Pages, i \in RecIndexes, data \in Data : Update(t, p, i, data)
         \/ \E p \in Pages : Fetch(t, p) \/ FetchForUpdate(t, p)
         \/ Commit(t) \/ InsertElsewhere(t) \/ LoadFails(t)
  PROVE  WriteOK(t)
<1>0. /\ cache = [cache EXCEPT ![t] = cache[t]] /\ pc = [pc EXCEPT ![t] = pc[t]]
  BY Typed
<1>1. ASSUME NEW trx, NEW data, InsertCall(t, trx, data) PROVE WriteOK(t)
  <2>1. pc' = [pc EXCEPT ![t] = "ins_root_s"] /\ UNCHANGED <<root, pages, cache>>
    BY <1>1 DEF InsertCall, Goto
  <2> QED BY <1>0, <2>1, WriteNothing
<1>2. ASSUME NEW p \in Pages, NEW i, NEW trx, PurgeInPlace(t, p, i, trx) PROVE WriteOK(t)
  <2>1. /\ pc' = [pc EXCEPT ![t] = "commit"] /\ Hold(t, {p}, {}) /\ UNCHANGED <<root, cache>>
    BY <1>2 DEF PurgeInPlace, Goto
  <2>2. PICK pg : pages' = pages \/ pages' = [pages EXCEPT ![p] = pg]
    BY <1>2 DEF PurgeInPlace
  <2> QED BY <2>1, <2>2, WriteOne
<1>3. ASSUME NEW p, NEW i, NEW trx, PurgeNeedsRoot(t, p, i, trx) PROVE WriteOK(t)
  <2>1. pc' = [pc EXCEPT ![t] = "pur_root"] /\ UNCHANGED <<root, pages, cache>>
    BY <1>3 DEF PurgeNeedsRoot, Goto
  <2> QED BY <1>0, <2>1, WriteNothing
<1>4. ASSUME NEW p \in Pages, NEW i, NEW trx, NEW mark, MarkDelete(t, p, i, trx, mark)
      PROVE  WriteOK(t)
  <2>1. /\ pc' = [pc EXCEPT ![t] = "commit"] /\ Hold(t, {p}, {}) /\ UNCHANGED <<root, cache>>
    BY <1>4 DEF MarkDelete, Goto
  <2>2. PICK pg : pages' = pages \/ pages' = [pages EXCEPT ![p] = pg]
    BY <1>4 DEF MarkDelete
  <2> QED BY <2>1, <2>2, WriteOne
<1>5. ASSUME NEW p \in Pages, NEW i, NEW data, Update(t, p, i, data) PROVE WriteOK(t)
  <2>1. /\ pc' = [pc EXCEPT ![t] = "commit"] /\ Hold(t, {p}, {}) /\ UNCHANGED <<root, cache>>
    BY <1>5 DEF Update, Goto
  <2>2. PICK pg : pages' = pages \/ pages' = [pages EXCEPT ![p] = pg]
    BY <1>5 DEF Update
  <2> QED BY <2>1, <2>2, WriteOne
<1>6. ASSUME NEW p, Fetch(t, p) \/ FetchForUpdate(t, p) PROVE WriteOK(t)
  <2>1. pc' = [pc EXCEPT ![t] = "commit"] /\ UNCHANGED <<root, pages, cache>>
    BY <1>6 DEF Fetch, FetchForUpdate, Goto
  <2> QED BY <1>0, <2>1, WriteNothing
<1>7. CASE Commit(t)
  <2>1. pc' = [pc EXCEPT ![t] = "idle"] /\ UNCHANGED <<root, pages, cache>>
    BY <1>7 DEF Commit, Goto
  <2> QED BY <1>0, <2>1, WriteNothing
<1>8. CASE InsertElsewhere(t)
  <2>1. /\ pc' = [pc EXCEPT ![t] = "idle"] /\ UNCHANGED <<root, pages>>
        /\ cache' = [cache EXCEPT ![t] = NoCache]
    BY <1>0, <1>8 DEF InsertElsewhere
  <2> QED BY <2>1, WriteNothing
<1>9. CASE LoadFails(t)
  <2>1. pc' = [pc EXCEPT ![t] = "commit"] /\ UNCHANGED <<root, pages, cache>>
    BY <1>9 DEF LoadFails, Return, Goto
  <2> QED BY <1>0, <2>1, WriteNothing
<1> QED BY <1>1, <1>2, <1>3, <1>4, <1>5, <1>6, <1>7, <1>8, <1>9

LEMMA NextWrites ==
  ASSUME TypeInv, LatchInv, EmptySlots, Next
  PROVE  \E t \in Threads : WriteOK(t)
BY WriteInsert, WritePurge, WriteCalls DEF Next

LEMMA EmptyStep ==
  ASSUME TypeInv, LatchInv, EmptySlots, [Next]_vars
  PROVE  EmptySlots'
<1>1. CASE UNCHANGED vars
  BY <1>1 DEF vars, EmptySlots
<1>2. CASE Next
  <2>1. PICK t \in Threads : WriteOK(t)
    BY <1>2, NextWrites
  <2> SUFFICES ASSUME NEW u \in Threads, pc'[u] = "ins_head"
               PROVE  root'.head[cache'[u].slot] = NullRef
    BY DEF EmptySlots
  <2>2. CASE u = t
    BY <2>1, <2>2 DEF WriteOK
  <2>3. CASE u # t
    <3>1. pc[u] = "ins_head" /\ cache'[u] = cache[u]
      BY <2>1, <2>3 DEF WriteOK
    <3>2. held[u][RootRef] = "X"
      BY <3>1 DEF LatchInv, LatchShapes, LatchShape, RootAndPagePcs
    <3>3. root' = root
      BY <2>1, <2>3, <3>2 DEF WriteOK, ExclusiveFree
    <3> QED BY <3>1, <3>3 DEF EmptySlots
  <2> QED BY <2>2, <2>3
<1> QED BY <1>1, <1>2

\* Whatever step any thread takes, a data page or the root page changes only when
\* the thread ends the step with an exclusive latch on it: the neighbours that
\* add_free_page, remove_free_page and add_data_page write besides their page
\* are latched on every path of insert and purge.
THEOREM PagesLatched == Spec => WritesAreLatched
<1>1. Init => TypeInv /\ LatchInv /\ EmptySlots
  BY TypeInit, LatchInit DEF Init, EmptySlots
<1>2. TypeInv /\ LatchInv /\ EmptySlots /\ [Next]_vars => (TypeInv /\ LatchInv /\ EmptySlots)'
  BY TypeStep, LatchStep, EmptyStep
<1>3. TypeInv /\ LatchInv /\ EmptySlots /\ [Next]_vars =>
        [/\ \A p \in Pages : pages'[p] # pages[p] =>
              \E t \in Threads : held'[t][p] = "X"
         /\ root' # root => \E t \in Threads : held'[t][RootRef] = "X"]_vars
  BY NextWrites DEF WriteOK
<1> QED BY <1>1, <1>2, <1>3, PTL DEF Spec, WritesAreLatched
===============================================================================
