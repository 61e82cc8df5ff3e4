----------------------------- MODULE FreeListProofs -----------------------------
(***************************************************************************)
(* The free lists of a root page stay linked and hold only pages with room *)
(* and the counters of free records are right, so the store implements the *)
(* map of records it promises; walking the lists meets every page that is  *)
(* on one, and every stored record: for every number of threads, pages,    *)
(* records and slots.                                                      *)
(***************************************************************************)
EXTENDS ColumnStoreProofs

\* FreeListsLinked as a statement about a root page r, pages ps and the set u
\* of allocated pages.
Linked(r, ps, u) ==
  /\ \A k \in 0 .. (r.cur - 1) :
       r.head[k] # NullRef => /\ ps[r.head[k]].prevFree = RootRef
                              /\ ps[r.head[k]].slot = k
  /\ \A p \in Pages :
       /\ ps[p].prevFree = NullRef => ps[p].nextFree = NullRef
       /\ ps[p].prevFree # NullRef => p \in u /\ ps[p].slot < r.cur
       /\ ps[p].prevFree = RootRef => r.head[ps[p].slot] = p
       /\ ps[p].prevFree \in Pages => /\ ps[ps[p].prevFree].nextFree = p
                                      /\ ps[ps[p].prevFree].slot = ps[p].slot
       /\ ps[p].nextFree \in Pages => /\ ps[ps[p].nextFree].prevFree = p
                                      /\ ps[ps[p].nextFree].slot = ps[p].slot

\* Linked says of the variables what FreeListsLinked says.
LEMMA LinkedDef == FreeListsLinked <=> Linked(root, pages, used)
BY DEF FreeListsLinked, OnFreeList, Linked

\* The fields of the pages that the lists are made of.
LEMMA LinkTypes ==
  ASSUME NEW r \in RootType, NEW ps \in [Pages -> DataPageType]
  PROVE  /\ \A k \in 0 .. (r.cur - 1) : r.head[k] \in Pages \cup {NullRef}
         /\ r.cur \in 1 .. MaxSlots
         /\ \A q \in Pages : /\ ps[q].prevFree \in Pages \cup {RootRef, NullRef}
                             /\ ps[q].nextFree \in Pages \cup {NullRef}
                             /\ ps[q].slot \in SlotNumbers \cup {INVALID_SLOT}
                             /\ ps[q].slot < r.cur => ps[q].slot \in 0 .. (r.cur - 1)
<1>1. r.cur \in 1 .. MaxSlots /\ r.head \in [0 .. (r.cur - 1) -> Pages \cup {NullRef}]
  BY RootFields
<1>2. \A q \in Pages : /\ ps[q].prevFree \in Pages \cup {RootRef, NullRef}
                       /\ ps[q].nextFree \in Pages \cup {NullRef}
                       /\ ps[q].slot \in SlotNumbers \cup {INVALID_SLOT}
  BY PageFields
<1>3. \A q \in Pages : ps[q].slot < r.cur => ps[q].slot \in 0 .. (r.cur - 1)
  BY <1>1, <1>2, SlotBelow
<1> QED BY <1>1, <1>2, <1>3

\* INVALID_SLOT is no slot of the array.
LEMMA InvalidNotBelow ==
  ASSUME NEW n \in 1 .. MaxSlots PROVE ~ (INVALID_SLOT < n)
BY SlotLimits

\* A page without a slot number is on no list, and no link leads to it.
LEMMA UnlistedPage ==
  ASSUME NEW r \in RootType, NEW ps \in [Pages -> DataPageType], NEW u,
         Linked(r, ps, u), NEW p \in Pages,
         ps[p].slot = INVALID_SLOT \/ p \notin u
  PROVE  /\ ps[p].prevFree = NullRef /\ ps[p].nextFree = NullRef
         /\ \A k \in 0 .. (r.cur - 1) : r.head[k] # p
         /\ \A q \in Pages : ps[q].prevFree # p /\ ps[q].nextFree # p
<1>1. r.cur \in 1 .. MaxSlots
  BY LinkTypes
<1>2. ps[p].prevFree = NullRef
  <2>1. ~ (INVALID_SLOT < r.cur)
    BY <1>1, InvalidNotBelow
  <2>2. ps[p].prevFree # NullRef => p \in u /\ ps[p].slot < r.cur
    BY DEF Linked
  <2> QED BY <2>1, <2>2
<1>3. ps[p].nextFree = NullRef
  BY <1>2 DEF Linked
<1>4. \A k \in 0 .. (r.cur - 1) : r.head[k] # p
  BY <1>2, PageAssumption DEF Linked
<1>5. \A q \in Pages : ps[q].prevFree # p /\ ps[q].nextFree # p
  BY <1>2, <1>3, PageAssumption DEF Linked
<1> QED BY <1>2, <1>3, <1>4, <1>5

\* The lists depend on the links and the slots only.
LEMMA LinkedSame ==
  ASSUME NEW r \in RootType, NEW s \in RootType,
         NEW ps \in [Pages -> DataPageType], NEW qs \in [Pages -> DataPageType],
         NEW u, NEW w, Linked(r, ps, u), u \subseteq w, s.cur >= r.cur,
         \A k \in 0 .. (s.cur - 1) :
           s.head[k] = IF k < r.cur THEN r.head[k] ELSE NullRef,
         \A q \in Pages : /\ qs[q].prevFree = ps[q].prevFree
                          /\ qs[q].nextFree = ps[q].nextFree
                          /\ ps[q].prevFree # NullRef => qs[q].slot = ps[q].slot
  PROVE  Linked(s, qs, w)
<1>0. /\ r.cur \in 1 .. MaxSlots /\ s.cur \in 1 .. MaxSlots
      /\ \A k \in 0 .. (r.cur - 1) : r.head[k] \in Pages \cup {NullRef}
      /\ \A q \in Pages : /\ ps[q].prevFree \in Pages \cup {RootRef, NullRef}
                          /\ ps[q].slot < r.cur => ps[q].slot \in 0 .. (r.cur - 1)
  BY LinkTypes
<1>1. ASSUME NEW k \in 0 .. (s.cur - 1), s.head[k] # NullRef
      PROVE  qs[s.head[k]].prevFree = RootRef /\ qs[s.head[k]].slot = k
  <2>1. k \in 0 .. (r.cur - 1) /\ s.head[k] = r.head[k] /\ r.head[k] \in Pages
    BY <1>0, <1>1
  <2>2. ps[r.head[k]].prevFree = RootRef /\ ps[r.head[k]].slot = k
    BY <1>1, <2>1 DEF Linked
  <2> QED BY <2>1, <2>2, PageAssumption
<1>2. ASSUME NEW q \in Pages, ps[q].prevFree # NullRef
      PROVE  q \in w /\ qs[q].slot < s.cur
  <2>1. q \in u /\ ps[q].slot < r.cur
    BY <1>2 DEF Linked
  <2> QED BY <1>0, <1>2, <2>1, LinkTypes
<1>3. ASSUME NEW q \in Pages, ps[q].prevFree = RootRef
      PROVE  s.head[qs[q].slot] = q
  <2>1. ps[q].slot < r.cur /\ r.head[ps[q].slot] = q /\ qs[q].slot = ps[q].slot
    BY <1>3, PageAssumption DEF Linked
  <2>2. ps[q].slot \in 0 .. (r.cur - 1)
    BY <1>0, <2>1
  <2> QED BY <1>0, <2>1, <2>2
<1>4. ASSUME NEW q \in Pages, ps[q].prevFree \in Pages
      PROVE  qs[ps[q].prevFree].nextFree = q /\ qs[ps[q].prevFree].slot = qs[q].slot
  <2>1. /\ ps[ps[q].prevFree].nextFree = q
        /\ ps[ps[q].prevFree].slot = ps[q].slot
    BY <1>4 DEF Linked
  <2>2. ps[ps[q].prevFree].prevFree # NullRef
    BY <1>4, <2>1, PageAssumption DEF Linked
  <2> QED BY <1>4, <2>1, <2>2, PageAssumption
<1>5. ASSUME NEW q \in Pages, ps[q].nextFree \in Pages
      PROVE  qs[ps[q].nextFree].prevFree = q /\ qs[ps[q].nextFree].slot = qs[q].slot
  <2>1. /\ ps[ps[q].nextFree].prevFree = q
        /\ ps[ps[q].nextFree].slot = ps[q].slot
    BY <1>5 DEF Linked
  <2>2. ps[q].prevFree # NullRef
    BY <1>5, PageAssumption DEF Linked
  <2> QED BY <1>5, <2>1, <2>2, PageAssumption
<1>6. \A q \in Pages : ps[q].prevFree = NullRef => ps[q].nextFree = NullRef
  BY DEF Linked
<1> QED BY <1>1, <1>2, <1>3, <1>4, <1>5, <1>6 DEF Linked

\* add_free_page puts an unlisted page at the head of a list.
LEMMA AddFreeLinks ==
  ASSUME NEW r \in RootType, NEW ps \in [Pages -> DataPageType], NEW u,
         Linked(r, ps, u), NEW p \in Pages, p \in u, ps[p].slot = INVALID_SLOT,
         NEW k \in 0 .. (r.cur - 1)
  PROVE  Linked(AddFreePage(r, ps, p, k).root, AddFreePage(r, ps, p, k).pages, u)
<1> DEFINE s == AddFreePage(r, ps, p, k).root
           qs == AddFreePage(r, ps, p, k).pages
           old == r.head[k]
<1>1. /\ s.cur = r.cur
      /\ s.head = [r.head EXCEPT ![k] = p]
      /\ \A q \in Pages :
           /\ qs[q].slot = IF q = p THEN k ELSE ps[q].slot
           /\ qs[q].nextFree = IF q = p THEN old ELSE ps[q].nextFree
           /\ qs[q].prevFree = IF q = p THEN RootRef
                               ELSE IF q = old THEN p ELSE ps[q].prevFree
  <2> DEFINE st == AddFreePage(r, ps, p, k)
  <2>1. /\ st.root.cur = r.cur
        /\ st.root.head = [r.head EXCEPT ![k] = p]
        /\ \A q \in Pages :
             /\ st.pages[q].slot = IF q = p THEN k ELSE ps[q].slot
             /\ st.pages[q].nextFree = IF q = p THEN r.head[k] ELSE ps[q].nextFree
             /\ st.pages[q].prevFree = IF q = p THEN RootRef
                                       ELSE IF q = r.head[k] THEN p ELSE ps[q].prevFree
    <3>1. st = AddFreePage(r, ps, p, k)
      OBVIOUS
    <3> HIDE DEF st
    <3> QED BY <3>1, AddFreeFacts
  <2> QED BY <2>1, Zenon
<1>2. /\ r.head \in [0 .. (r.cur - 1) -> Pages \cup {NullRef}]
      /\ old \in Pages \cup {NullRef}
      /\ r.cur \in 1 .. MaxSlots
      /\ \A q \in Pages : /\ ps[q].prevFree \in Pages \cup {RootRef, NullRef}
                          /\ ps[q].nextFree \in Pages \cup {NullRef}
                          /\ ps[q].slot < r.cur => ps[q].slot \in 0 .. (r.cur - 1)
  BY RootFields, LinkTypes
<1>3. /\ ps[p].prevFree = NullRef /\ ps[p].nextFree = NullRef
      /\ \A j \in 0 .. (r.cur - 1) : r.head[j] # p
      /\ \A q \in Pages : ps[q].prevFree # p /\ ps[q].nextFree # p
  BY UnlistedPage
<1>4. old # p /\ (old # NullRef => ps[old].prevFree = RootRef /\ ps[old].slot = k)
  BY <1>3 DEF Linked
<1>a. RootRef \notin Pages /\ NullRef \notin Pages /\ RootRef # NullRef
  BY PageAssumption
<1> HIDE DEF s, qs, old
<1>5. ASSUME NEW j \in 0 .. (s.cur - 1), s.head[j] # NullRef
      PROVE  qs[s.head[j]].prevFree = RootRef /\ qs[s.head[j]].slot = j
  <2>1. CASE j = k
    BY <1>1, <1>2, <2>1
  <2>2. CASE j # k
    <3>1. s.head[j] = r.head[j] /\ r.head[j] \in Pages /\ r.head[j] # p
          /\ j \in 0 .. (r.cur - 1)
      BY <1>1, <1>2, <1>3, <1>5, <2>2
    <3>2. ps[r.head[j]].prevFree = RootRef /\ ps[r.head[j]].slot = j
      BY <1>5, <3>1 DEF Linked
    <3>3. r.head[j] # old
      BY <1>4, <1>a, <2>2, <3>1, <3>2
    <3> QED BY <1>1, <3>1, <3>2, <3>3
  <2> QED BY <2>1, <2>2
<1>6. ASSUME NEW q \in Pages
      PROVE  /\ qs[q].prevFree = NullRef => qs[q].nextFree = NullRef
             /\ qs[q].prevFree # NullRef => q \in u /\ qs[q].slot < s.cur
             /\ qs[q].prevFree = RootRef => s.head[qs[q].slot] = q
             /\ qs[q].prevFree \in Pages => /\ qs[qs[q].prevFree].nextFree = q
                                            /\ qs[qs[q].prevFree].slot = qs[q].slot
             /\ qs[q].nextFree \in Pages => /\ qs[qs[q].nextFree].prevFree = q
                                            /\ qs[qs[q].nextFree].slot = qs[q].slot
  <2>0. /\ ps[q].prevFree = NullRef => ps[q].nextFree = NullRef
        /\ ps[q].prevFree # NullRef => q \in u /\ ps[q].slot < r.cur
        /\ ps[q].prevFree = RootRef => r.head[ps[q].slot] = q
        /\ ps[q].prevFree \in Pages => /\ ps[ps[q].prevFree].nextFree = q
                                       /\ ps[ps[q].prevFree].slot = ps[q].slot
        /\ ps[q].nextFree \in Pages => /\ ps[ps[q].nextFree].prevFree = q
                                       /\ ps[ps[q].nextFree].slot = ps[q].slot
    BY DEF Linked
  <2>1. CASE q = p
    BY <1>1, <1>2, <1>4, <1>a, <2>1
  <2>2. CASE q # p /\ q = old
    <3>1. /\ qs[q].prevFree = p /\ qs[q].nextFree = ps[q].nextFree
          /\ qs[q].slot = k /\ q \in u
      BY <1>1, <1>4, <1>a, <2>0, <2>2
    <3>2. qs[p].nextFree = q /\ qs[p].slot = k /\ k < s.cur
      BY <1>1, <1>2, <2>2
    <3>3. ASSUME ps[q].nextFree \in Pages
          PROVE  qs[ps[q].nextFree].prevFree = q /\ qs[ps[q].nextFree].slot = k
      BY <1>1, <1>3, <1>4, <1>a, <2>0, <2>2, <3>3
    <3> QED BY <1>a, <3>1, <3>2, <3>3
  <2>3. CASE q # p /\ q # old
    <3>1. /\ qs[q].prevFree = ps[q].prevFree /\ qs[q].nextFree = ps[q].nextFree
          /\ qs[q].slot = ps[q].slot
      BY <1>1, <2>3
    <3>2. ASSUME ps[q].prevFree = RootRef PROVE s.head[ps[q].slot] = q
      <4>1. ps[q].slot \in 0 .. (r.cur - 1) /\ r.head[ps[q].slot] = q
        BY <1>2, <1>a, <2>0, <3>2
      <4>2. ps[q].slot # k
        BY <2>3, <4>1 DEF old
      <4> QED BY <1>1, <1>2, <4>1, <4>2
    <3>3. ASSUME ps[q].prevFree \in Pages
          PROVE  /\ qs[ps[q].prevFree].nextFree = q
                 /\ qs[ps[q].prevFree].slot = ps[q].slot
      BY <1>1, <1>3, <1>a, <2>0, <3>3
    <3>4. ASSUME ps[q].nextFree \in Pages
          PROVE  /\ qs[ps[q].nextFree].prevFree = q
                 /\ qs[ps[q].nextFree].slot = ps[q].slot
      BY <1>1, <1>3, <1>4, <1>a, <2>0, <3>4
    <3> QED BY <1>1, <2>0, <3>1, <3>2, <3>3, <3>4
  <2> QED BY <2>1, <2>2, <2>3
<1>7. Linked(s, qs, u)
  BY <1>5, <1>6 DEF Linked
<1> QED BY <1>7 DEF s, qs

\* remove_free_page takes the head off a list.
LEMMA RemoveFreeLinks ==
  ASSUME NEW r \in RootType, NEW ps \in [Pages -> DataPageType], NEW u,
         Linked(r, ps, u), NEW p \in Pages,
         NEW k \in 0 .. (r.cur - 1), r.head[k] = p
  PROVE  LET st == RemoveFreePage(r, ps, p)
         IN  Linked(st.root, st.pages, u) /\ st.pages[p].prevFree = NullRef
<1> DEFINE s == RemoveFreePage(r, ps, p).root
           qs == RemoveFreePage(r, ps, p).pages
           nxt == ps[p].nextFree
<1>a. RootRef \notin Pages /\ NullRef \notin Pages /\ RootRef # NullRef
  BY PageAssumption
<1>1. ps[p].prevFree = RootRef /\ ps[p].slot = k
  BY <1>a DEF Linked
<1>2. /\ s.cur = r.cur
      /\ s.head = [r.head EXCEPT ![k] = nxt]
      /\ \A q \in Pages :
           /\ qs[q].slot = ps[q].slot
           /\ qs[q].nextFree = IF q = p THEN NullRef ELSE ps[q].nextFree
           /\ qs[q].prevFree = IF q = p THEN NullRef
                               ELSE IF q = nxt THEN RootRef ELSE ps[q].prevFree
  BY <1>1, <1>a, RemoveFreeFacts
<1>3. /\ r.head \in [0 .. (r.cur - 1) -> Pages \cup {NullRef}]
      /\ nxt \in Pages \cup {NullRef}
      /\ r.cur \in 1 .. MaxSlots
      /\ \A q \in Pages : /\ ps[q].prevFree \in Pages \cup {RootRef, NullRef}
                          /\ ps[q].nextFree \in Pages \cup {NullRef}
                          /\ ps[q].slot < r.cur => ps[q].slot \in 0 .. (r.cur - 1)
  BY RootFields, LinkTypes
<1>4. nxt \in Pages => /\ ps[nxt].prevFree = p /\ ps[nxt].slot = k
                       /\ nxt # p /\ nxt \in u
  BY <1>1, <1>a DEF Linked
<1> HIDE DEF s, qs
<1>5. ASSUME NEW j \in 0 .. (s.cur - 1), s.head[j] # NullRef
      PROVE  qs[s.head[j]].prevFree = RootRef /\ qs[s.head[j]].slot = j
  <2>1. CASE j = k
    BY <1>2, <1>3, <1>4, <1>5, <2>1
  <2>2. CASE j # k
    <3>1. s.head[j] = r.head[j] /\ r.head[j] \in Pages
          /\ j \in 0 .. (r.cur - 1)
      BY <1>2, <1>3, <1>5, <2>2
    <3>2. ps[r.head[j]].prevFree = RootRef /\ ps[r.head[j]].slot = j
      BY <1>5, <3>1 DEF Linked
    <3>3. r.head[j] # p
      BY <1>1, <2>2, <3>2
    <3> HIDE DEF nxt
    <3> QED BY <1>2, <3>1, <3>2, <3>3
  <2> QED BY <2>1, <2>2
<1>6. ASSUME NEW q \in Pages
      PROVE  /\ qs[q].prevFree = NullRef => qs[q].nextFree = NullRef
             /\ qs[q].prevFree # NullRef => q \in u /\ qs[q].slot < s.cur
             /\ qs[q].prevFree = RootRef => s.head[qs[q].slot] = q
             /\ qs[q].prevFree \in Pages => /\ qs[qs[q].prevFree].nextFree = q
                                            /\ qs[qs[q].prevFree].slot = qs[q].slot
             /\ qs[q].nextFree \in Pages => /\ qs[qs[q].nextFree].prevFree = q
                                            /\ qs[qs[q].nextFree].slot = qs[q].slot
  <2>0. /\ ps[q].prevFree = NullRef => ps[q].nextFree = NullRef
        /\ ps[q].prevFree # NullRef => q \in u /\ ps[q].slot < r.cur
        /\ ps[q].prevFree = RootRef => r.head[ps[q].slot] = q
        /\ ps[q].prevFree \in Pages => /\ ps[ps[q].prevFree].nextFree = q
                                       /\ ps[ps[q].prevFree].slot = ps[q].slot
        /\ ps[q].nextFree \in Pages => /\ ps[ps[q].nextFree].prevFree = q
                                       /\ ps[ps[q].nextFree].slot = ps[q].slot
    BY DEF Linked
  <2>1. CASE q = p
    BY <1>2, <1>a, <2>1
  <2>2. CASE q # p /\ q = nxt
    <3>1. /\ qs[q].prevFree = RootRef /\ qs[q].nextFree = ps[q].nextFree
          /\ qs[q].slot = k /\ q \in u
      BY <1>2, <1>4, <2>2
    <3>2. s.head[k] = q /\ k < s.cur
      BY <1>2, <1>3, <2>2
    <3>3. ASSUME ps[q].nextFree \in Pages
          PROVE  qs[ps[q].nextFree].prevFree = q /\ qs[ps[q].nextFree].slot = k
      <4>1. /\ ps[ps[q].nextFree].prevFree = q
            /\ ps[ps[q].nextFree].slot = k
        BY <1>4, <2>0, <2>2, <3>3
      <4>2. ps[q].nextFree # p /\ ps[q].nextFree # nxt
        BY <1>1, <1>4, <1>a, <2>2, <4>1
      <4> HIDE DEF nxt
      <4> QED BY <1>2, <3>3, <4>1, <4>2
    <3> QED BY <1>a, <3>1, <3>2, <3>3
  <2>3. CASE q # p /\ q # nxt
    <3>1. /\ qs[q].prevFree = ps[q].prevFree /\ qs[q].nextFree = ps[q].nextFree
          /\ qs[q].slot = ps[q].slot
      BY <1>2, <2>3
    <3>2. ASSUME ps[q].prevFree = RootRef PROVE s.head[ps[q].slot] = q
      <4>1. ps[q].slot \in 0 .. (r.cur - 1) /\ r.head[ps[q].slot] = q
        BY <1>3, <1>a, <2>0, <3>2
      <4>2. ps[q].slot # k
        BY <2>3, <4>1
      <4> QED BY <1>2, <1>3, <4>1, <4>2
    <3>3. ASSUME ps[q].prevFree \in Pages
          PROVE  /\ qs[ps[q].prevFree].nextFree = q
                 /\ qs[ps[q].prevFree].slot = ps[q].slot
      <4>1. ps[q].prevFree # p
        BY <2>0, <2>3, <3>3
      <4> HIDE DEF nxt
      <4> QED BY <1>2, <2>0, <3>3, <4>1
    <3>4. ASSUME ps[q].nextFree \in Pages
          PROVE  /\ qs[ps[q].nextFree].prevFree = q
                 /\ qs[ps[q].nextFree].slot = ps[q].slot
      <4>1. ps[q].nextFree # p /\ ps[q].nextFree # nxt
        BY <1>1, <1>4, <1>a, <2>0, <2>3, <3>4
      <4> HIDE DEF nxt
      <4> QED BY <1>2, <2>0, <3>4, <4>1
    <3> QED BY <1>2, <2>0, <3>1, <3>2, <3>3, <3>4
  <2> QED BY <2>1, <2>2, <2>3
<1>7. Linked(s, qs, u)
  BY <1>5, <1>6 DEF Linked
<1>8. qs[p].prevFree = NullRef
  BY <1>2
<1> QED BY <1>7, <1>8 DEF s, qs

-------------------------------------------------------------------------------
(* The inductive invariant.                                                *)

\* What a call at label l knows of the page it is about to use: an insert
\* that found a page in its slot finds it there still, an insert that is
\* about to unlink a page takes its last free record, and a page about to
\* be listed has no slot yet and room.
ListPc(l, v, c, r, ps) ==
  /\ l \in {"ins_page", "ins_load", "ins_unlink"} => r.head[c.slot] = v.page
  /\ l = "ins_unlink" => ps[v.page].numFree = 1
  /\ l \in {"ins_head", "pur_slot"} => /\ ps[v.page].slot = INVALID_SLOT
                                      /\ ps[v.page].numFree >= 1

ListPcs == \A t \in Threads : ListPc(pc[t], loc[t], cache[t], root, pages)

ListInv == FreeListsLinked /\ ListedPagesHaveRoom /\ ListPcs

\* The labels at which a call knows something of the lists: it holds a latch
\* on the root page there, and on its page too where it knows its contents.
LEMMA KnowsLatched ==
  ASSUME TypeInv, LatchInv, NEW t \in Threads, NEW u \in Threads, u # t
  PROVE  /\ ExclusiveFree(t, RootRef) =>
              pc[u] \notin {"ins_page", "ins_load", "ins_unlink", "ins_head", "pur_slot"}
         /\ \A p \in Pages : ExclusiveFree(t, p) /\ loc[u].page = p =>
              pc[u] \notin {"ins_unlink", "ins_head", "pur_slot"}
         /\ pc[u] \in {"ins_unlink", "ins_head", "pur_slot"} => loc[u].page \in Pages
<1>1. LatchShape(pc[u], held[u], loc[u].page)
  BY DEF LatchInv, LatchShapes
<1>2. CallOK(pc[u], loc[u], cache[u], root.cur, used) /\ used \subseteq Pages
  BY Typed
<1> QED BY <1>1, <1>2 DEF LatchShape, RootPcs, RootAndPagePcs, ExclusiveFree, CallOK, PurgePcs

\* A step of t under the exclusive root latch: no other call knows anything.
LEMMA ListRooted ==
  ASSUME TypeInv, LatchInv, ListInv, NEW t \in Threads, ExclusiveFree(t, RootRef),
         FreeListsLinked', ListedPagesHaveRoom',
         NEW l, pc' = [pc EXCEPT ![t] = l],
         NEW v, loc' = [loc EXCEPT ![t] = v],
         NEW c, cache' = [cache EXCEPT ![t] = c],
         ListPc(l, v, c, root', pages')
  PROVE  ListInv'
<1> SUFFICES ASSUME NEW u \in Threads
             PROVE  ListPc(pc'[u], loc'[u], cache'[u], root', pages')
  BY DEF ListInv, ListPcs
<1>1. CASE u = t
  BY <1>1 DEF TypeInv, TypeOK
<1>2. CASE u # t
  <2>1. pc'[u] = pc[u]
    BY <1>2 DEF TypeInv, TypeOK
  <2>2. pc[u] \notin {"ins_page", "ins_load", "ins_unlink", "ins_head", "pur_slot"}
    BY <1>2, KnowsLatched
  <2> QED BY <2>1, <2>2 DEF ListPc
<1> QED BY <1>1, <1>2

\* A step of t that writes the records of one page it latched.
LEMMA ListWrite ==
  ASSUME TypeInv, TypeInv', LatchInv, ListInv, NEW t \in Threads,
         NEW p \in Pages, ExclusiveFree(t, p),
         UNCHANGED <<root, used>>,
         \A q \in Pages : /\ pages'[q].slot = pages[q].slot
                          /\ pages'[q].prevFree = pages[q].prevFree
                          /\ pages'[q].nextFree = pages[q].nextFree
                          /\ q # p => pages'[q].numFree = pages[q].numFree,
         pages'[p].numFree >= 0,
         pages[p].prevFree # NullRef => pages'[p].numFree > 0,
         NEW l, pc' = [pc EXCEPT ![t] = l],
         NEW v, loc' = [loc EXCEPT ![t] = v],
         NEW c, cache' = [cache EXCEPT ![t] = c],
         ListPc(l, v, c, root, pages')
  PROVE  ListInv'
<1>0. /\ root \in RootType /\ pages \in [Pages -> DataPageType]
      /\ pages' \in [Pages -> DataPageType] /\ root.cur \in 1 .. MaxSlots
  BY RootFields DEF TypeInv, TypeOK
<1>1. FreeListsLinked'
  <2>1. Linked(root, pages, used)
    BY LinkedDef DEF ListInv
  <2>2. \A k \in 0 .. (root.cur - 1) :
          root.head[k] = IF k < root.cur THEN root.head[k] ELSE NullRef
    BY <1>0
  <2>3. Linked(root, pages', used)
    BY <1>0, <2>1, <2>2, LinkedSame
  <2> QED BY <2>3 DEF FreeListsLinked, OnFreeList, Linked
<1>2. ListedPagesHaveRoom'
  BY DEF ListInv, ListedPagesHaveRoom, OnFreeList
<1>3. ASSUME NEW u \in Threads
      PROVE  ListPc(pc'[u], loc'[u], cache'[u], root', pages')
  <2>1. CASE u = t
    BY <2>1 DEF TypeInv, TypeOK
  <2>2. CASE u # t
    <3>1. pc'[u] = pc[u] /\ loc'[u] = loc[u] /\ cache'[u] = cache[u]
      BY <2>2 DEF TypeInv, TypeOK
    <3>2. ListPc(pc[u], loc[u], cache[u], root, pages)
      BY DEF ListInv, ListPcs
    <3>3. pc[u] \in {"ins_unlink", "ins_head", "pur_slot"}
            => loc[u].page \in Pages /\ loc[u].page # p
      BY <2>2, KnowsLatched
    <3> QED BY <3>1, <3>2, <3>3 DEF ListPc
  <2> QED BY <2>1, <2>2
<1> QED BY <1>1, <1>2, <1>3 DEF ListInv, ListPcs

\* A step of t that writes no page.
LEMMA ListQuiet ==
  ASSUME TypeInv, TypeInv', LatchInv, ListInv, NEW t \in Threads,
         UNCHANGED <<root, used, pages>>,
         NEW l, pc' = [pc EXCEPT ![t] = l],
         NEW v, loc' = [loc EXCEPT ![t] = v],
         NEW c, cache' = [cache EXCEPT ![t] = c],
         ListPc(l, v, c, root, pages)
  PROVE  ListInv'
<1>1. FreeListsLinked' /\ ListedPagesHaveRoom'
  BY DEF ListInv, FreeListsLinked, ListedPagesHaveRoom, OnFreeList
<1>2. ASSUME NEW u \in Threads
      PROVE  ListPc(pc'[u], loc'[u], cache'[u], root', pages')
  <2>1. CASE u = t
    BY <2>1 DEF TypeInv, TypeOK
  <2>2. CASE u # t
    BY <2>2 DEF TypeInv, TypeOK, ListInv, ListPcs
  <2> QED BY <2>1, <2>2
<1> QED BY <1>1, <1>2 DEF ListInv, ListPcs

\* The page at the head of a slot is listed and has room.
LEMMA HeadHasRoom ==
  ASSUME TypeInv, ListInv, NEW k \in 0 .. (root.cur - 1), NEW p \in Pages,
         root.head[k] = p
  PROVE  /\ pages[p].prevFree = RootRef /\ pages[p].slot = k
         /\ pages[p].numFree > 0
<1>1. pages[p].prevFree = RootRef /\ pages[p].slot = k
  BY PageAssumption DEF ListInv, FreeListsLinked
<1> QED BY <1>1, PageAssumption DEF ListInv, ListedPagesHaveRoom, OnFreeList

\* At first all lists are empty.
LEMMA ListInit == Init => ListInv
<1> SUFFICES ASSUME Init PROVE ListInv
  OBVIOUS
<1>1. /\ root.cur = 1 /\ \A k \in 0 .. (root.cur - 1) : root.head[k] = NullRef
  BY DEF Init, FormattedRoot
<1>2. \A p \in Pages : /\ pages[p].prevFree = NullRef /\ pages[p].nextFree = NullRef
                       /\ pages[p].numFree = MaxRecs
  BY DEF Init, FormattedPage
<1>3. \A t \in Threads : pc[t] = "idle"
  BY DEF Init
<1>4. FreeListsLinked
  BY <1>1, <1>2, PageAssumption DEF FreeListsLinked, OnFreeList
<1>5. ListedPagesHaveRoom
  <2>1. MaxRecs >= 0
    BY RecLimits
  <2> QED BY <1>2, <2>1 DEF ListedPagesHaveRoom, OnFreeList
<1> QED BY <1>3, <1>4, <1>5 DEF ListInv, ListPcs, ListPc

\* ListedPagesHaveRoom, field by field.
LEMMA RoomDef ==
  ASSUME ListInv
  PROVE  \A q \in Pages : /\ pages[q].numFree >= 0
                          /\ pages[q].prevFree # NullRef => pages[q].numFree > 0
BY DEF ListInv, ListedPagesHaveRoom, OnFreeList

\* The counters do not change when a page enters a list.
LEMMA AddFreeCounts ==
  ASSUME NEW r \in RootType, NEW ps \in [Pages -> DataPageType],
         NEW p \in Pages, NEW k \in 0 .. (r.cur - 1), NEW st,
         st = AddFreePage(r, ps, p, k)
  PROVE  /\ st.pages \in [Pages -> DataPageType]
         /\ \A q \in Pages :
              /\ st.pages[q].numFree = ps[q].numFree
              /\ st.pages[q].prevFree =
                   IF q = p THEN RootRef
                   ELSE IF q = r.head[k] THEN p ELSE ps[q].prevFree
BY AddFreePages

\* Nor when a page leaves one.
LEMMA RemoveFreeCounts ==
  ASSUME NEW r \in RootType, NEW ps \in [Pages -> DataPageType],
         NEW p \in Pages, NEW st, st = RemoveFreePage(r, ps, p)
  PROVE  /\ st.pages \in [Pages -> DataPageType]
         /\ \A q \in Pages :
              /\ st.pages[q].numFree = ps[q].numFree
              /\ st.pages[q].prevFree =
                   IF q = p THEN NullRef
                   ELSE IF q = ps[p].nextFree THEN ps[p].prevFree
                   ELSE ps[q].prevFree
BY RemoveFreePages

\* The labels at which nothing is known.
LEMMA KnowsNothing ==
  ASSUME NEW l \in {"idle", "commit", "ins_root_s", "ins_root_x", "pur_root", "pur_reload"},
         NEW v, NEW c, NEW r, NEW ps
  PROVE  ListPc(l, v, c, r, ps)
BY DEF ListPc

\* The root page after a pessimistic insert has latched it and grown it.
LEMMA GrownLists ==
  ASSUME TypeInv, ListInv, NEW t \in Threads, root' = PessimisticRoot(t),
         root' \in RootType, NEW qs \in [Pages -> DataPageType], NEW w,
         used \subseteq w,
         \A q \in Pages : /\ qs[q].prevFree = pages[q].prevFree
                          /\ qs[q].nextFree = pages[q].nextFree
                          /\ pages[q].prevFree # NullRef => qs[q].slot = pages[q].slot
  PROVE  Linked(root', qs, w)
<1>0. /\ root \in RootType /\ pages \in [Pages -> DataPageType]
      /\ root.cur \in 1 .. MaxSlots /\ Linked(root, pages, used)
  BY RootFields, LinkedDef DEF TypeInv, TypeOK, ListInv
<1>1. /\ root'.cur >= root.cur
      /\ \A k \in 0 .. (root'.cur - 1) :
           root'.head[k] = IF k < root.cur THEN root.head[k] ELSE NullRef
  <2>1. CASE loc[t].grow
    BY <1>0, <2>1, GrowFacts DEF PessimisticRoot
  <2>2. CASE ~ loc[t].grow
    BY <1>0, <2>2 DEF PessimisticRoot
  <2> QED BY <2>1, <2>2
<1> QED BY <1>0, <1>1, LinkedSame

\* The steps of an insert.
LEMMA ListInsert ==
  ASSUME TypeInv, TypeInv', LatchInv, ListInv, NEW t \in Threads, InsertStep(t)
  PROVE  ListInv'
<1> DEFINE p == loc[t].page
           k == cache[t].slot
<1>0. /\ root \in RootType /\ root' \in RootType
      /\ root.cur \in 1 .. MaxSlots
      /\ used \subseteq Pages
      /\ pages \in [Pages -> DataPageType] /\ pages' \in [Pages -> DataPageType]
      /\ loc[t] \in Locals /\ loc = [loc EXCEPT ![t] = loc[t]]
      /\ cache[t] \in CacheType /\ cache = [cache EXCEPT ![t] = cache[t]]
      /\ CallOK(pc[t], loc[t], cache[t], root.cur, used)
      /\ LatchShape(pc[t], held[t], p)
      /\ ListPc(pc[t], loc[t], cache[t], root, pages)
  <2>1. root' \in RootType /\ pages' \in [Pages -> DataPageType]
    BY DEF TypeInv, TypeOK
  <2> QED BY <2>1, Typed DEF LatchInv, LatchShapes, ListInv, ListPcs
<1>1. CASE InsertSelect(t)
  <2>1. PICK j \in SelectableSlots(t, root), l \in {"ins_page", "ins_root_x"} :
          /\ cache' = [cache EXCEPT ![t] = CacheOn(t, j)]
          /\ pc' = [pc EXCEPT ![t] = l]
          /\ loc' = [loc EXCEPT ![t] =
                       [loc[t] EXCEPT
                          !.page = IF l = "ins_page" THEN root.head[j] ELSE NullRef,
                          !.grow = counter > root.cur /\ root.cur < MaxSlots]]
    BY <1>1 DEF InsertSelect, Goto
  <2> DEFINE v == [loc[t] EXCEPT
                     !.page = IF l = "ins_page" THEN root.head[j] ELSE NullRef,
                     !.grow = counter > root.cur /\ root.cur < MaxSlots]
  <2>2. CacheOn(t, j).slot = j
    BY <1>0, <2>1, SelectFacts
  <2>3. l = "ins_page" => v.page = root.head[j]
    BY <1>0 DEF Locals
  <2>4. loc' = [loc EXCEPT ![t] = v] /\ UNCHANGED <<root, used, pages>>
    BY <1>1, <2>1 DEF InsertSelect
  <2> HIDE DEF v
  <2>5. ListPc(l, v, CacheOn(t, j), root, pages)
    BY <2>1, <2>2, <2>3 DEF ListPc
  <2> QED BY <2>1, <2>4, <2>5, ListQuiet
<1>2. CASE InsertFallBack(t)
  <2>1. PICK v : /\ loc' = [loc EXCEPT ![t] = v]
                 /\ pc' = [pc EXCEPT ![t] = "ins_root_x"]
                 /\ UNCHANGED <<root, used, pages, cache>>
    BY <1>2 DEF InsertFallBack, Goto
  <2>2. /\ ListPc("ins_root_x", v, cache[t], root, pages)
        /\ cache' = [cache EXCEPT ![t] = cache[t]]
    BY <1>0, <2>1, KnowsNothing
  <2> QED BY <2>1, <2>2, ListQuiet
<1>3. ASSUME pc[t] \in {"ins_page", "ins_load"}, Granted(t),
             ~ HasLastFreeSlot(pages[p]),
             InsertInto(t, pages, p, cache[t].hint), UNCHANGED <<root, used>>
      PROVE  ListInv'
  <2>1. /\ p \in Pages /\ k < root.cur /\ root.head[k] = p /\ pc[t] \in InsertPcs
        /\ k \in SlotNumbers \cup {INVALID_SLOT} /\ ExclusiveFree(t, p)
    BY <1>0, <1>3, GrantedFacts DEF CallOK, ListPc, InsertPcs, CacheType
  <2>2. k \in 0 .. (root.cur - 1)
    BY <1>0, <2>1, SlotBelow
  <2>3. pages[p].numFree > 0
    BY <2>1, <2>2, HeadHasRoom
  <2>4. /\ \A q \in Pages :
             /\ pages'[q].slot = pages[q].slot
             /\ pages'[q].prevFree = pages[q].prevFree
             /\ pages'[q].nextFree = pages[q].nextFree
             /\ pages'[q].numFree =
                  IF q = p THEN pages[p].numFree - 1 ELSE pages[q].numFree
        /\ pc' = [pc EXCEPT ![t] = "commit"]
        /\ loc' = [loc EXCEPT ![t] = NoLocals]
        /\ \E c \in CacheType : cache' = [cache EXCEPT ![t] = c]
    BY <1>0, <1>3, <2>1, InsertIntoFacts
  <2>5. PICK c : cache' = [cache EXCEPT ![t] = c]
    BY <2>4
  <2>6. pages'[p].numFree > 0
    <3>1. pages[p].numFree \in Int /\ pages[p].numFree # 1
      BY <1>0, <1>3, <2>1, PageFields DEF HasLastFreeSlot
    <3>2. pages'[p].numFree = pages[p].numFree - 1
      BY <2>1, <2>4
    <3> HIDE DEF p
    <3> QED BY <2>3, <3>1, <3>2
  <2>7. pages'[p].numFree >= 0
    <3>1. pages'[p].numFree \in Int
      BY <1>0, <2>1, PageFields
    <3> QED BY <2>6, <3>1
  <2>8. ListPc("commit", NoLocals, c, root, pages')
    BY KnowsNothing
  <2>9. \A q \in Pages : /\ pages'[q].slot = pages[q].slot
                         /\ pages'[q].prevFree = pages[q].prevFree
                         /\ pages'[q].nextFree = pages[q].nextFree
                         /\ q # p => pages'[q].numFree = pages[q].numFree
    BY <2>4
  <2>10. /\ pc' = [pc EXCEPT ![t] = "commit"] /\ loc' = [loc EXCEPT ![t] = NoLocals]
         /\ p \in Pages /\ ExclusiveFree(t, p) /\ UNCHANGED <<root, used>>
    BY <1>3, <2>1, <2>4
  <2> HIDE DEF p, k
  <2> QED BY <2>5, <2>6, <2>7, <2>8, <2>9, <2>10, ListWrite
<1>4. CASE InsertOptimistic(t)
  BY <1>3, <1>4 DEF InsertOptimistic, At
<1>5. CASE InsertLoaded(t)
  BY <1>3, <1>5 DEF InsertLoaded, At
<1>6. CASE InsertLoadedLast(t)
  <2>1. /\ pc[t] = "ins_load" /\ pages[p].numFree = 1
        /\ pc' = [pc EXCEPT ![t] = "ins_unlink"]
        /\ UNCHANGED <<root, used, pages, cache, loc>>
    BY <1>6 DEF InsertLoadedLast, At, Goto, HasLastFreeSlot
  <2>2. ListPc("ins_unlink", loc[t], cache[t], root, pages)
    BY <1>0, <2>1 DEF ListPc
  <2>3. loc' = [loc EXCEPT ![t] = loc[t]] /\ cache' = [cache EXCEPT ![t] = cache[t]]
    BY <1>0, <2>1
  <2> QED BY <2>1, <2>2, <2>3, ListQuiet
<1>7. ASSUME pc[t] = "ins_root_x", Granted(t) PROVE ExclusiveFree(t, RootRef)
  BY <1>7, GrantedFacts
<1>8. ASSUME root' = PessimisticRoot(t), UNCHANGED <<used, pages>>
      PROVE  FreeListsLinked' /\ ListedPagesHaveRoom'
  <2>1. Linked(root', pages, used)
    BY <1>0, <1>8, GrownLists
  <2>2. FreeListsLinked'
    BY <1>8, <2>1 DEF FreeListsLinked, OnFreeList, Linked
  <2> QED BY <1>8, <2>2 DEF ListInv, ListedPagesHaveRoom, OnFreeList
<1>9. CASE InsertSelectAgain(t)
  <2> DEFINE v(j) == [loc[t] EXCEPT !.page = root'.head[j], !.grow = FALSE]
  <2>1. PICK j \in SelectableSlots(t, root') :
          /\ cache' = [cache EXCEPT ![t] = CacheOn(t, j)]
          /\ loc' = [loc EXCEPT ![t] = v(j)]
    BY <1>9 DEF InsertSelectAgain
  <2>2. /\ pc[t] = "ins_root_x" /\ Granted(t) /\ root' = PessimisticRoot(t)
        /\ pc' = [pc EXCEPT ![t] = "ins_load"]
        /\ UNCHANGED <<used, pages>>
    BY <1>9 DEF InsertSelectAgain, At, Goto
  <2>3. CacheOn(t, j).slot = j
    BY <1>0, <2>1, SelectFacts
  <2>4. v(j).page = root'.head[j]
    BY <1>0 DEF Locals
  <2> HIDE DEF v
  <2>5. ListPc("ins_load", v(j), CacheOn(t, j), root', pages')
    BY <2>3, <2>4 DEF ListPc
  <2>6. FreeListsLinked' /\ ListedPagesHaveRoom' /\ ExclusiveFree(t, RootRef)
    BY <1>7, <1>8, <2>2
  <2> QED BY <2>1, <2>2, <2>5, <2>6, ListRooted
<1>10. CASE InsertNoSpace(t)
  <2>1. PICK c : cache' = [cache EXCEPT ![t] = c]
    BY <1>10 DEF InsertNoSpace
  <2>2. /\ pc[t] = "ins_root_x" /\ Granted(t) /\ root' = PessimisticRoot(t)
        /\ pc' = [pc EXCEPT ![t] = "commit"]
        /\ loc' = [loc EXCEPT ![t] = NoLocals]
        /\ UNCHANGED <<used, pages>>
    BY <1>10 DEF InsertNoSpace, At, Goto, Return
  <2>3. FreeListsLinked' /\ ListedPagesHaveRoom' /\ ExclusiveFree(t, RootRef)
    BY <1>7, <1>8, <2>2
  <2>4. ListPc("commit", NoLocals, c, root', pages')
    BY KnowsNothing
  <2> QED BY <2>1, <2>2, <2>3, <2>4, ListRooted
<1>11. CASE InsertAllocate(t)
  <2> DEFINE v(n) == [loc[t] EXCEPT !.page = n, !.grow = FALSE]
  <2>1. PICK j \in SelectableSlots(t, root'), n \in Pages \ used :
          /\ cache' = [cache EXCEPT ![t] = CacheOn(t, j)]
          /\ loc' = [loc EXCEPT ![t] = v(n)]
          /\ used' = used \cup {n}
          /\ pages' = [pages EXCEPT ![n] = FormattedPage]
    BY <1>11 DEF InsertAllocate
  <2>2. /\ pc[t] = "ins_root_x" /\ Granted(t) /\ root' = PessimisticRoot(t)
        /\ pc' = [pc EXCEPT ![t] = "ins_head"]
    BY <1>11 DEF InsertAllocate, At, Goto
  <2>3. pages[n].prevFree = NullRef /\ pages[n].nextFree = NullRef
    <3>1. Linked(root, pages, used)
      BY LinkedDef DEF ListInv
    <3> QED BY <1>0, <3>1, UnlistedPage
  <2>4. /\ pages'[n].prevFree = NullRef /\ pages'[n].nextFree = NullRef
        /\ pages'[n].slot = INVALID_SLOT /\ pages'[n].numFree = MaxRecs
        /\ \A q \in Pages : q # n => pages'[q] = pages[q]
    BY <1>0, <2>1 DEF FormattedPage
  <2>5. \A q \in Pages : /\ pages'[q].prevFree = pages[q].prevFree
                         /\ pages'[q].nextFree = pages[q].nextFree
                         /\ pages[q].prevFree # NullRef => pages'[q].slot = pages[q].slot
    BY <2>3, <2>4
  <2>6. Linked(root', pages', used')
    <3>1. used \subseteq used'
      BY <2>1
    <3> QED BY <1>0, <2>2, <2>5, <3>1, GrownLists
  <2>7. FreeListsLinked'
    BY <2>6 DEF FreeListsLinked, OnFreeList, Linked
  <2>8. ListedPagesHaveRoom'
    <3>1. \A q \in Pages : /\ pages[q].numFree >= 0
                           /\ pages[q].prevFree # NullRef => pages[q].numFree > 0
      BY RoomDef
    <3>2. pages'[n].numFree >= 0
      BY <2>4, RecLimits
    <3>3. ASSUME NEW q \in Pages
          PROVE  /\ pages'[q].numFree >= 0
                 /\ pages'[q].prevFree # NullRef => pages'[q].numFree > 0
      BY <2>4, <3>1, <3>2
    <3> QED BY <3>3 DEF ListedPagesHaveRoom, OnFreeList
  <2>9. v(n).page = n
    BY <1>0 DEF Locals
  <2> HIDE DEF v
  <2>10. ListPc("ins_head", v(n), CacheOn(t, j), root', pages')
    BY <2>4, <2>9, RecLimits DEF ListPc
  <2>11. ExclusiveFree(t, RootRef)
    BY <1>7, <2>2
  <2> QED BY <2>1, <2>2, <2>7, <2>8, <2>10, <2>11, ListRooted
<1>12. ASSUME pc[t] \in {"ins_head", "ins_unlink"}
       PROVE  /\ ExclusiveFree(t, RootRef) /\ p \in used /\ p \in Pages
              /\ k \in 0 .. (root.cur - 1) /\ pc[t] \in InsertPcs
  <2>1. held[t][RootRef] = "X" /\ p \in used /\ k < root.cur /\ pc[t] \in InsertPcs
    BY <1>0, <1>12 DEF LatchShape, RootAndPagePcs, CallOK, InsertPcs
  <2>2. k \in SlotNumbers \cup {INVALID_SLOT}
    BY <1>0 DEF CacheType
  <2>3. k \in 0 .. (root.cur - 1)
    BY <1>0, <2>1, <2>2, SlotBelow
  <2> QED BY <1>0, <2>1, <2>3, HeldFree DEF Latchable
<1>13. ASSUME ExclusiveFree(t, RootRef), p \in Pages, pc[t] \in InsertPcs, UNCHANGED used,
              NEW ps \in [Pages -> DataPageType], Linked(root', ps, used),
              InsertInto(t, ps, p, cache[t].hint),
              \A q \in Pages \ {p} : /\ ps[q].numFree >= 0
                                     /\ ps[q].prevFree # NullRef => ps[q].numFree > 0,
              ps[p].numFree >= 1, ps[p].prevFree # NullRef => ps[p].numFree # 1
       PROVE  ListInv'
  <2>1. /\ \A q \in Pages :
             /\ pages'[q].slot = ps[q].slot
             /\ pages'[q].prevFree = ps[q].prevFree
             /\ pages'[q].nextFree = ps[q].nextFree
             /\ pages'[q].numFree =
                  IF q = p THEN ps[p].numFree - 1 ELSE ps[q].numFree
        /\ pc' = [pc EXCEPT ![t] = "commit"]
        /\ loc' = [loc EXCEPT ![t] = NoLocals]
        /\ \E c \in CacheType : cache' = [cache EXCEPT ![t] = c]
    BY <1>13, InsertIntoFacts
  <2>2. PICK c : cache' = [cache EXCEPT ![t] = c]
    BY <2>1
  <2>3. Linked(root', pages', used')
    <3>1. root'.cur \in 1 .. MaxSlots
      BY <1>0, RootFields
    <3>2. \A j \in 0 .. (root'.cur - 1) :
            root'.head[j] = IF j < root'.cur THEN root'.head[j] ELSE NullRef
      BY <3>1
    <3>3. /\ used \subseteq used' /\ root'.cur >= root'.cur
          /\ \A q \in Pages :
               /\ pages'[q].prevFree = ps[q].prevFree
               /\ pages'[q].nextFree = ps[q].nextFree
               /\ ps[q].prevFree # NullRef => pages'[q].slot = ps[q].slot
      BY <1>13, <2>1, <3>1
    <3> QED BY <1>0, <1>13, <3>2, <3>3, LinkedSame
  <2>4. FreeListsLinked'
    BY <2>3 DEF FreeListsLinked, OnFreeList, Linked
  <2>5. ListedPagesHaveRoom'
    <3>1. /\ ps[p].numFree \in Int /\ pages'[p].numFree = ps[p].numFree - 1
          /\ pages'[p].prevFree = ps[p].prevFree
      BY <1>13, <2>1, PageFields
    <3>2. /\ pages'[p].numFree >= 0
          /\ pages'[p].prevFree # NullRef => pages'[p].numFree > 0
      <4> HIDE DEF p
      <4> QED BY <1>13, <3>1
    <3>3. \A q \in Pages \ {p} : /\ pages'[q].numFree >= 0
                                 /\ pages'[q].prevFree # NullRef => pages'[q].numFree > 0
      BY <1>13, <2>1
    <3> HIDE DEF p
    <3> QED BY <3>2, <3>3 DEF ListedPagesHaveRoom, OnFreeList
  <2>6. ListPc("commit", NoLocals, c, root', pages')
    BY KnowsNothing
  <2> QED BY <1>13, <2>1, <2>2, <2>4, <2>5, <2>6, ListRooted
<1>b. \A q \in Pages : /\ pages[q].numFree >= 0
                       /\ pages[q].prevFree # NullRef => pages[q].numFree > 0
  BY RoomDef
<1>c. Linked(root, pages, used)
  BY LinkedDef DEF ListInv
<1>14. CASE InsertNewPage(t)
  <2> DEFINE st == AddDataPage(root, pages, p)
             fr == IF HasLastFreeSlot(pages[p]) THEN st
                   ELSE AddFreePage(st.root, st.pages, p, k)
  <2>1. /\ pc[t] = "ins_head" /\ root' = fr.root
        /\ InsertInto(t, fr.pages, p, cache[t].hint)
        /\ UNCHANGED used
    BY <1>14 DEF InsertNewPage, At
  <2>2. /\ ExclusiveFree(t, RootRef) /\ p \in used /\ p \in Pages
        /\ k \in 0 .. (root.cur - 1) /\ pc[t] \in InsertPcs
    BY <1>12, <2>1
  <2>3. pages[p].slot = INVALID_SLOT /\ pages[p].numFree >= 1
    BY <1>0, <2>1 DEF ListPc
  <2>4. pages[p].prevFree = NullRef
    BY <1>0, <1>c, <2>2, <2>3, UnlistedPage
  <2>5. /\ st.root \in RootType
        /\ st.pages \in [Pages -> DataPageType]
        /\ st.root.cur = root.cur
        /\ st.root.head = root.head
        /\ \A q \in Pages :
             /\ st.pages[q].numFree = pages[q].numFree
             /\ st.pages[q].slot = pages[q].slot
             /\ st.pages[q].nextFree = pages[q].nextFree
             /\ st.pages[q].prevFree = pages[q].prevFree
    <3> HIDE DEF p, k
    <3> QED BY <1>0, <2>2, AddDataFacts
  <2> HIDE DEF st
  <2>6. Linked(st.root, st.pages, used)
    <3>1. \A j \in 0 .. (st.root.cur - 1) :
            st.root.head[j] = IF j < root.cur THEN root.head[j] ELSE NullRef
      BY <1>0, <2>5
    <3>2. /\ st.root.cur >= root.cur /\ used \subseteq used
          /\ \A q \in Pages :
               /\ st.pages[q].prevFree = pages[q].prevFree
               /\ st.pages[q].nextFree = pages[q].nextFree
               /\ pages[q].prevFree # NullRef => st.pages[q].slot = pages[q].slot
      BY <1>0, <2>5
    <3>3. /\ root \in RootType /\ pages \in [Pages -> DataPageType]
          /\ Linked(root, pages, used)
          /\ st.root \in RootType /\ st.pages \in [Pages -> DataPageType]
      BY <1>0, <1>c, <2>5
    <3> QED BY <3>1, <3>2, <3>3, LinkedSame
  <2>7. CASE HasLastFreeSlot(pages[p])
    <3>1. fr = st
      BY <2>7
    <3> HIDE DEF fr
    <3>2. /\ Linked(root', st.pages, used) /\ InsertInto(t, st.pages, p, cache[t].hint)
          /\ st.pages[p].numFree >= 1 /\ st.pages[p].prevFree = NullRef
          /\ \A q \in Pages \ {p} :
               /\ st.pages[q].numFree >= 0
               /\ st.pages[q].prevFree # NullRef => st.pages[q].numFree > 0
      BY <1>b, <2>1, <2>2, <2>3, <2>4, <2>5, <2>6, <3>1
    <3> QED BY <1>13, <2>1, <2>2, <2>5, <3>2
  <2>8. CASE ~ HasLastFreeSlot(pages[p])
    <3> DEFINE r == st.root
               ps == st.pages
               fp == fr.pages
    <3>1. fr = AddFreePage(r, ps, p, k)
      BY <2>8
    <3> HIDE DEF fr
    <3>2. /\ r \in RootType /\ ps \in [Pages -> DataPageType] /\ Linked(r, ps, used)
          /\ p \in Pages /\ p \in used /\ ps[p].slot = INVALID_SLOT
          /\ k \in 0 .. (r.cur - 1)
      BY <2>2, <2>3, <2>5, <2>6
    <3>3. Linked(fr.root, fr.pages, used)
      <4> HIDE DEF r, ps, p, k
      <4> QED BY <3>1, <3>2, AddFreeLinks
    <3>4. /\ fp \in [Pages -> DataPageType]
          /\ \A q \in Pages :
               /\ fp[q].numFree = ps[q].numFree
               /\ fp[q].prevFree = IF q = p THEN RootRef
                                   ELSE IF q = r.head[k] THEN p ELSE ps[q].prevFree
      <4>1. /\ fr.pages \in [Pages -> DataPageType]
            /\ \A q \in Pages :
                 /\ fr.pages[q].numFree = ps[q].numFree
                 /\ fr.pages[q].prevFree =
                      IF q = p THEN RootRef
                      ELSE IF q = r.head[k] THEN p ELSE ps[q].prevFree
        <5> HIDE DEF r, ps, p, k, fp
        <5> QED BY <3>1, <3>2, AddFreeCounts
      <4> QED BY <4>1, Zenon
    <3>5. fp[p].numFree >= 1 /\ fp[p].numFree # 1
      BY <2>2, <2>3, <2>5, <2>8, <3>4 DEF HasLastFreeSlot
    <3>6. ASSUME NEW q \in Pages \ {p}
          PROVE  /\ fp[q].numFree >= 0
                 /\ fp[q].prevFree # NullRef => fp[q].numFree > 0
      <4>1. fp[q].numFree = pages[q].numFree
        BY <2>5, <3>4
      <4>2. CASE q = root.head[k]
        <5>1. pages[q].numFree > 0
          BY <2>2, <4>2, HeadHasRoom
        <5> QED BY <1>b, <4>1, <5>1
      <4>3. CASE q # root.head[k]
        <5>1. fp[q].prevFree = pages[q].prevFree
          BY <2>5, <3>4, <4>3
        <5> QED BY <1>b, <4>1, <5>1
      <4> QED BY <4>2, <4>3
    <3>7. Linked(root', fp, used) /\ InsertInto(t, fp, p, cache[t].hint)
      BY <2>1, <3>3
    <3> HIDE DEF fp
    <3> QED BY <1>13, <2>1, <2>2, <3>4, <3>5, <3>6, <3>7
  <2> QED BY <2>7, <2>8
<1>15. CASE InsertUnlink(t)
  <2> DEFINE st == RemoveFreePage(root, pages, p)
             sp == st.pages
  <2>1. /\ pc[t] = "ins_unlink" /\ root' = st.root
        /\ InsertInto(t, sp, p, cache[t].hint)
        /\ UNCHANGED used
    BY <1>15 DEF InsertUnlink, At
  <2>2. /\ ExclusiveFree(t, RootRef) /\ p \in used /\ p \in Pages
        /\ k \in 0 .. (root.cur - 1) /\ pc[t] \in InsertPcs
    BY <1>12, <2>1
  <2>3. root.head[k] = p /\ pages[p].numFree = 1
    BY <1>0, <2>1 DEF ListPc
  <2>4. pages[p].prevFree = RootRef
    BY <2>2, <2>3, HeadHasRoom
  <2>5. /\ sp \in [Pages -> DataPageType]
        /\ \A q \in Pages :
             /\ sp[q].numFree = pages[q].numFree
             /\ sp[q].prevFree = IF q = p THEN NullRef
                                 ELSE IF q = pages[p].nextFree THEN pages[p].prevFree
                                 ELSE pages[q].prevFree
    <3>1. /\ st = RemoveFreePage(root, pages, p)
          /\ root \in RootType /\ pages \in [Pages -> DataPageType] /\ p \in Pages
      BY <1>0, <2>2
    <3>2. /\ st.pages \in [Pages -> DataPageType]
          /\ \A q \in Pages :
               /\ st.pages[q].numFree = pages[q].numFree
               /\ st.pages[q].prevFree =
                    IF q = p THEN NullRef
                    ELSE IF q = pages[p].nextFree THEN pages[p].prevFree
                    ELSE pages[q].prevFree
      <4> HIDE DEF st, sp, p, k
      <4> QED BY <3>1, RemoveFreeCounts
    <3> QED BY <3>2, Zenon
  <2>6. Linked(st.root, sp, used)
    <3> HIDE DEF p, k
    <3> QED BY <1>0, <1>c, <2>2, <2>3, RemoveFreeLinks
  <2> HIDE DEF st, sp
  <2>7. ASSUME NEW q \in Pages \ {p}
        PROVE  /\ sp[q].numFree >= 0
               /\ sp[q].prevFree # NullRef => sp[q].numFree > 0
    <3>1. sp[q].numFree = pages[q].numFree
      BY <2>5
    <3>2. CASE q = pages[p].nextFree
      <4>1. pages[q].prevFree = p
        BY <1>c, <2>2, <3>2 DEF Linked
      <4> QED BY <1>b, <2>2, <3>1, <4>1, PageAssumption
    <3>3. CASE q # pages[p].nextFree
      BY <1>b, <2>5, <3>1, <3>3
    <3> QED BY <3>2, <3>3
  <2>8. sp[p].numFree >= 1 /\ sp[p].prevFree = NullRef
    BY <2>2, <2>3, <2>5
  <2>9. Linked(root', sp, used)
    BY <2>1, <2>6
  <2> QED BY <1>13, <2>1, <2>2, <2>5, <2>7, <2>8, <2>9
<1> QED BY <1>1, <1>2, <1>4, <1>5, <1>6, <1>9, <1>10, <1>11, <1>14, <1>15
     DEF InsertStep

\* A step that writes one latched page, keeps its links and does not lower
\* its counter.
LEMMA ListOnePage ==
  ASSUME TypeInv, TypeInv', LatchInv, ListInv, NEW t \in Threads,
         NEW p \in Pages, ExclusiveFree(t, p),
         NEW pg, pages' = [pages EXCEPT ![p] = pg],
         pg.slot = pages[p].slot, pg.prevFree = pages[p].prevFree,
         pg.nextFree = pages[p].nextFree,
         pg.numFree \in {pages[p].numFree, pages[p].numFree + 1},
         UNCHANGED <<root, used, cache>>,
         NEW l, pc' = [pc EXCEPT ![t] = l],
         NEW v, loc' = [loc EXCEPT ![t] = v],
         ListPc(l, v, cache[t], root, pages')
  PROVE  ListInv'
<1>1. /\ pages \in [Pages -> DataPageType]
      /\ cache' = [cache EXCEPT ![t] = cache[t]]
  BY Typed
<1>2. \A q \in Pages : pages'[q] = IF q = p THEN pg ELSE pages[q]
  BY <1>1
<1>3. \A q \in Pages : /\ pages'[q].slot = pages[q].slot
                       /\ pages'[q].prevFree = pages[q].prevFree
                       /\ pages'[q].nextFree = pages[q].nextFree
                       /\ q # p => pages'[q].numFree = pages[q].numFree
  BY <1>2
<1>4. /\ pages[p].numFree \in Int /\ pages[p].numFree >= 0
      /\ pages[p].prevFree # NullRef => pages[p].numFree > 0
  BY <1>1, PageFields, RoomDef
<1>5. pages'[p].numFree \in {pages[p].numFree, pages[p].numFree + 1}
  BY <1>2
<1>6. /\ pages'[p].numFree >= 0
      /\ pages[p].prevFree # NullRef => pages'[p].numFree > 0
  BY <1>4, <1>5
<1> QED BY <1>1, <1>3, <1>6, ListWrite

\* A purged page keeps its links.
LEMMA PurgedLinks ==
  ASSUME TypeInv, NEW p \in Pages, NEW i \in RecIndexes, NEW pg,
         pg = PurgeRecord(pages[p], i)
  PROVE  /\ pg.slot = pages[p].slot /\ pg.prevFree = pages[p].prevFree
         /\ pg.nextFree = pages[p].nextFree /\ pg.numFree = pages[p].numFree + 1
<1> DEFINE old == pages[p]
<1>1. old \in DataPageType /\ pg = PurgeRecord(old, i)
  BY DEF TypeInv, TypeOK
<1> HIDE DEF old
<1>2. /\ PurgeRecord(old, i).slot = old.slot
      /\ PurgeRecord(old, i).prevFree = old.prevFree
      /\ PurgeRecord(old, i).nextFree = old.nextFree
      /\ PurgeRecord(old, i).numFree = old.numFree + 1
  BY <1>1, PurgeRecordFacts
<1> QED BY <1>1, <1>2, Zenon DEF old

\* The steps of a purge that takes the root latch.
LEMMA ListPurge ==
  ASSUME TypeInv, TypeInv', LatchInv, ListInv, NEW t \in Threads, PurgeStep(t)
  PROVE  ListInv'
<1> DEFINE p == loc[t].page
           i == loc[t].index
<1>0. /\ root \in RootType /\ root.cur \in 1 .. MaxSlots
      /\ used \subseteq Pages /\ pages \in [Pages -> DataPageType]
      /\ loc[t] \in Locals /\ loc = [loc EXCEPT ![t] = loc[t]]
      /\ cache = [cache EXCEPT ![t] = cache[t]]
      /\ CallOK(pc[t], loc[t], cache[t], root.cur, used)
      /\ LatchShape(pc[t], held[t], p)
      /\ ListPc(pc[t], loc[t], cache[t], root, pages)
  BY Typed DEF LatchInv, LatchShapes, ListInv, ListPcs
<1>1. CASE PurgeLatchRoot(t)
  <2>1. /\ pc' = [pc EXCEPT ![t] = "pur_reload"] /\ UNCHANGED <<root, used, pages>>
        /\ loc' = [loc EXCEPT ![t] = loc[t]] /\ cache' = [cache EXCEPT ![t] = cache[t]]
    BY <1>0, <1>1 DEF PurgeLatchRoot, Goto
  <2>2. ListPc("pur_reload", loc[t], cache[t], root, pages)
    BY KnowsNothing
  <2> QED BY <2>1, <2>2, ListQuiet
<1>2. ASSUME pc[t] = "pur_reload", Granted(t)
      PROVE  p \in Pages /\ i \in RecIndexes /\ ExclusiveFree(t, p)
  BY <1>0, <1>2, GrantedFacts DEF CallOK, PurgePcs, Locals
<1>3. CASE PurgeReloaded(t)
  <2> DEFINE hit == Purges(pages[p], i, loc[t].trx)
             pur == PurgeRecord(pages[p], i)
             pg  == IF hit THEN pur ELSE pages[p]
  <2>1. /\ pc[t] = "pur_reload" /\ Granted(t)
        /\ pages' = [pages EXCEPT ![p] = pg]
        /\ pc' = [pc EXCEPT ![t] = "commit"]
        /\ loc' = [loc EXCEPT ![t] = NoLocals]
        /\ UNCHANGED <<root, used, cache>>
    BY <1>3 DEF PurgeReloaded, At, Goto, Return
  <2>2. p \in Pages /\ i \in RecIndexes /\ ExclusiveFree(t, p)
    BY <1>2, <2>1
  <2>3. /\ pur.slot = pages[p].slot /\ pur.prevFree = pages[p].prevFree
        /\ pur.nextFree = pages[p].nextFree /\ pur.numFree = pages[p].numFree + 1
    <3>1. pur = PurgeRecord(pages[p], i)
      OBVIOUS
    <3> HIDE DEF p, i, pur
    <3> QED BY <2>2, <3>1, PurgedLinks
  <2>4. /\ pg.slot = pages[p].slot /\ pg.prevFree = pages[p].prevFree
        /\ pg.nextFree = pages[p].nextFree
        /\ pg.numFree \in {pages[p].numFree, pages[p].numFree + 1}
    <3> HIDE DEF pur, hit
    <3> QED BY <2>3
  <2>5. ListPc("commit", NoLocals, cache[t], root, pages')
    BY KnowsNothing
  <2> HIDE DEF p, pg
  <2> QED BY <2>1, <2>2, <2>4, <2>5, ListOnePage
<1>4. CASE PurgeReloadedRelist(t)
  <2> DEFINE pg == PurgeRecord(pages[p], i)
             v(k) == [loc[t] EXCEPT !.slot = k]
  <2>1. PICK k : loc' = [loc EXCEPT ![t] = v(k)]
    BY <1>4 DEF PurgeReloadedRelist
  <2>2. /\ pc[t] = "pur_reload" /\ Granted(t)
        /\ pages' = [pages EXCEPT ![p] = pg]
        /\ pc' = [pc EXCEPT ![t] = "pur_slot"]
        /\ UNCHANGED <<root, used, cache>>
        /\ pg.slot = INVALID_SLOT
    BY <1>4 DEF PurgeReloadedRelist, At, Goto, NeedsAddToFreeList
  <2>3. p \in Pages /\ i \in RecIndexes /\ ExclusiveFree(t, p)
    BY <1>2, <2>2
  <2>4. /\ pg.slot = pages[p].slot /\ pg.prevFree = pages[p].prevFree
        /\ pg.nextFree = pages[p].nextFree /\ pg.numFree = pages[p].numFree + 1
    <3>1. pg = PurgeRecord(pages[p], i)
      OBVIOUS
    <3> HIDE DEF p, i, pg
    <3> QED BY <2>3, <3>1, PurgedLinks
  <2> HIDE DEF pg
  <2>5. pg.numFree >= 1
    <3>1. pages[p].numFree >= 0 /\ pages[p].numFree \in Int
      BY <1>0, <2>3, RoomDef, PageFields
    <3> QED BY <2>4, <3>1
  <2>6. v(k).page = p
    BY <1>0 DEF Locals
  <2>7. pages'[p] = pg
    BY <1>0, <2>2, <2>3
  <2> HIDE DEF v, p
  <2>8. ListPc("pur_slot", v(k), cache[t], root, pages')
    BY <2>2, <2>5, <2>6, <2>7 DEF ListPc
  <2>9. pg.numFree \in {pages[p].numFree, pages[p].numFree + 1}
    BY <2>4
  <2> QED BY <2>1, <2>2, <2>3, <2>4, <2>8, <2>9, ListOnePage
<1>5. CASE PurgeRelist(t)
  <2> DEFINE k == loc[t].slot
             st == AddFreePage(root, pages, p, k)
  <2>1. /\ pc[t] = "pur_slot"
        /\ root' = st.root /\ pages' = st.pages
        /\ pc' = [pc EXCEPT ![t] = "commit"]
        /\ loc' = [loc EXCEPT ![t] = NoLocals]
        /\ cache' = [cache EXCEPT ![t] = cache[t]] /\ UNCHANGED used
    BY <1>0, <1>5 DEF PurgeRelist, At, Goto, Return
  <2>2. /\ p \in used /\ p \in Pages /\ k < root.cur
        /\ k \in SlotNumbers \cup {INVALID_SLOT} /\ held[t][RootRef] = "X"
        /\ pages[p].slot = INVALID_SLOT /\ pages[p].numFree >= 1
    BY <1>0, <2>1 DEF CallOK, PurgePcs, Locals, LatchShape, RootAndPagePcs, ListPc
  <2>3. k \in 0 .. (root.cur - 1)
    BY <1>0, <2>2, SlotBelow
  <2>4. ExclusiveFree(t, RootRef)
    BY <2>2, HeldFree DEF Latchable
  <2>5. Linked(root, pages, used)
    BY LinkedDef DEF ListInv
  <2> HIDE DEF p, k
  <2>6. Linked(st.root, st.pages, used)
    BY <1>0, <2>2, <2>3, <2>5, AddFreeLinks
  <2>7. \A q \in Pages :
          /\ st.pages[q].numFree = pages[q].numFree
          /\ st.pages[q].prevFree =
               IF q = p THEN RootRef
               ELSE IF q = root.head[k] THEN p ELSE pages[q].prevFree
    <3>1. st = AddFreePage(root, pages, p, k)
      OBVIOUS
    <3> HIDE DEF st
    <3> QED BY <1>0, <2>2, <2>3, <3>1, AddFreeCounts
  <2> HIDE DEF st
  <2>8. FreeListsLinked'
    BY <2>1, <2>6 DEF FreeListsLinked, OnFreeList, Linked
  <2>9. ASSUME NEW q \in Pages
        PROVE  /\ pages'[q].numFree >= 0
               /\ pages'[q].prevFree # NullRef => pages'[q].numFree > 0
    <3>1. pages'[q].numFree = pages[q].numFree /\ pages[q].numFree \in Int
      BY <1>0, <2>1, <2>7, PageFields
    <3>2. /\ pages[q].numFree >= 0
          /\ pages[q].prevFree # NullRef => pages[q].numFree > 0
      BY RoomDef
    <3>3. CASE q = p
      BY <2>2, <3>1, <3>3
    <3>4. CASE q # p /\ q = root.head[k]
      <4>1. pages[q].numFree > 0
        BY <2>3, <3>4, HeadHasRoom
      <4> QED BY <3>1, <3>2, <4>1
    <3>5. CASE q # p /\ q # root.head[k]
      BY <2>1, <2>7, <3>1, <3>2, <3>5
    <3> QED BY <3>3, <3>4, <3>5
  <2>10. ListedPagesHaveRoom'
    BY <2>9 DEF ListedPagesHaveRoom, OnFreeList
  <2>11. ListPc("commit", NoLocals, cache[t], root', pages')
    BY KnowsNothing
  <2> QED BY <2>1, <2>4, <2>8, <2>10, <2>11, ListRooted
<1> QED BY <1>1, <1>3, <1>4, <1>5 DEF PurgeStep

\* The first steps of the calls, the commit and the failures.
LEMMA ListCalls ==
  ASSUME TypeInv, TypeInv', LatchInv, ListInv, NEW t \in Threads
  PROVE  /\ \A trx \in Trx, data \in Data : InsertCall(t, trx, data) => ListInv'
         /\ \A p \in Pages, i \in RecIndexes, trx \in Trx :
              /\ PurgeInPlace(t, p, i, trx) => ListInv'
              /\ PurgeNeedsRoot(t, p, i, trx) => ListInv'
              /\ \A mark \in BOOLEAN : MarkDelete(t, p, i, trx, mark) => ListInv'
         /\ \A p \in Pages, i \in RecIndexes, data \in Data :
              Update(t, p, i, data) => ListInv'
         /\ \A p \in Pages : /\ Fetch(t, p) => ListInv'
                             /\ FetchForUpdate(t, p) => ListInv'
         /\ Commit(t) => ListInv'
         /\ InsertElsewhere(t) => ListInv'
         /\ LoadFails(t) => ListInv'
<1>0. /\ pages \in [Pages -> DataPageType]
      /\ pc = [pc EXCEPT ![t] = pc[t]]
      /\ loc = [loc EXCEPT ![t] = loc[t]]
      /\ cache = [cache EXCEPT ![t] = cache[t]]
  BY Typed
<1>1. ASSUME NEW l \in {"idle", "commit", "ins_root_s", "pur_root"},
             pc' = [pc EXCEPT ![t] = l], NEW v, loc' = [loc EXCEPT ![t] = v],
             NEW c, cache' = [cache EXCEPT ![t] = c], UNCHANGED <<root, used, pages>>
      PROVE  ListInv'
  <2>1. ListPc(l, v, c, root, pages)
    BY KnowsNothing
  <2> QED BY <1>1, <2>1, ListQuiet
<1>2. ASSUME NEW p \in Pages, ExclusiveFree(t, p),
             NEW pg, pages' = [pages EXCEPT ![p] = pg],
             pg.slot = pages[p].slot, pg.prevFree = pages[p].prevFree,
             pg.nextFree = pages[p].nextFree,
             pg.numFree \in {pages[p].numFree, pages[p].numFree + 1},
             Goto(t, "commit"), UNCHANGED <<root, used, cache, loc>>
      PROVE  ListInv'
  <2>1. ListPc("commit", loc[t], cache[t], root, pages')
    BY KnowsNothing
  <2>2. pc' = [pc EXCEPT ![t] = "commit"] /\ loc' = [loc EXCEPT ![t] = loc[t]]
    BY <1>0, <1>2 DEF Goto
  <2> QED BY <1>2, <2>1, <2>2, ListOnePage
<1>3. ASSUME NEW trx \in Trx, NEW data \in Data, InsertCall(t, trx, data)
      PROVE  ListInv'
  <2>1. PICK v : /\ loc' = [loc EXCEPT ![t] = v]
                 /\ pc' = [pc EXCEPT ![t] = "ins_root_s"]
                 /\ UNCHANGED <<root, used, pages, cache>>
    BY <1>3 DEF InsertCall, Goto
  <2>2. cache' = [cache EXCEPT ![t] = cache[t]]
    BY <1>0, <2>1
  <2> QED BY <1>1, <2>1, <2>2
<1>4. ASSUME NEW p \in Pages, NEW i \in RecIndexes, NEW trx \in Trx,
             PurgeNeedsRoot(t, p, i, trx)
      PROVE  ListInv'
  <2>1. PICK v : /\ loc' = [loc EXCEPT ![t] = v]
                 /\ pc' = [pc EXCEPT ![t] = "pur_root"]
                 /\ UNCHANGED <<root, used, pages, cache>>
    BY <1>4 DEF PurgeNeedsRoot, Goto
  <2>2. cache' = [cache EXCEPT ![t] = cache[t]]
    BY <1>0, <2>1
  <2> QED BY <1>1, <2>1, <2>2
<1>5. ASSUME NEW p \in Pages, NEW i \in RecIndexes, NEW trx \in Trx,
             PurgeInPlace(t, p, i, trx)
      PROVE  ListInv'
  <2>1. /\ ExclusiveFree(t, p) /\ Goto(t, "commit")
        /\ UNCHANGED <<root, used, cache, loc>>
    BY <1>5 DEF PurgeInPlace
  <2>2. CASE Purges(pages[p], i, trx)
    <3> DEFINE pg == PurgeRecord(pages[p], i)
    <3>1. pages' = [pages EXCEPT ![p] = pg]
      BY <1>5, <2>2 DEF PurgeInPlace
    <3>2. pg = PurgeRecord(pages[p], i)
      OBVIOUS
    <3> HIDE DEF pg
    <3>3. /\ pg.slot = pages[p].slot /\ pg.prevFree = pages[p].prevFree
          /\ pg.nextFree = pages[p].nextFree
          /\ pg.numFree \in {pages[p].numFree, pages[p].numFree + 1}
      BY <3>2, PurgedLinks
    <3> QED BY <1>2, <2>1, <3>1, <3>3
  <2>3. CASE ~ Purges(pages[p], i, trx)
    <3>1. pages' = [pages EXCEPT ![p] = pages[p]]
      BY <1>0, <1>5, <2>3 DEF PurgeInPlace
    <3> QED BY <1>2, <2>1, <3>1
  <2> QED BY <2>2, <2>3
<1>6. ASSUME NEW p \in Pages, NEW i \in RecIndexes, NEW trx \in Trx,
             NEW mark \in BOOLEAN, MarkDelete(t, p, i, trx, mark)
      PROVE  ListInv'
  <2> DEFINE pg == MarkRecord(pages[p], i, trx, mark)
  <2>1. /\ pages' = [pages EXCEPT ![p] = pg] /\ pages[p].recs[i] # FreeRec
        /\ ExclusiveFree(t, p) /\ Goto(t, "commit")
        /\ UNCHANGED <<root, used, cache, loc>>
    BY <1>6 DEF MarkDelete
  <2>2. /\ pg.slot = pages[p].slot /\ pg.prevFree = pages[p].prevFree
        /\ pg.nextFree = pages[p].nextFree
        /\ pg.numFree \in {pages[p].numFree, pages[p].numFree + 1}
    BY <1>0, <2>1, MarkRecordFacts
  <2> HIDE DEF pg
  <2> QED BY <1>2, <2>1, <2>2
<1>7. ASSUME NEW p \in Pages, NEW i \in RecIndexes, NEW data \in Data,
             Update(t, p, i, data)
      PROVE  ListInv'
  <2>0. /\ ExclusiveFree(t, p) /\ Goto(t, "commit")
        /\ UNCHANGED <<root, used, cache, loc>>
    BY <1>7 DEF Update
  <2>1. CASE pages[p].recs[i] = FreeRec
    <3>1. pages' = [pages EXCEPT ![p] = pages[p]]
      BY <1>0, <1>7, <2>1 DEF Update
    <3> QED BY <1>2, <2>0, <3>1
  <2>2. CASE pages[p].recs[i] # FreeRec
    <3> DEFINE pg == [pages[p] EXCEPT !.recs[i].data = data]
    <3>1. pages' = [pages EXCEPT ![p] = pg]
      BY <1>7, <2>2 DEF Update
    <3>2. /\ pg.slot = pages[p].slot /\ pg.prevFree = pages[p].prevFree
          /\ pg.nextFree = pages[p].nextFree
          /\ pg.numFree \in {pages[p].numFree, pages[p].numFree + 1}
      BY <1>0, <2>2, UpdateRecordFacts
    <3> HIDE DEF pg
    <3> QED BY <1>2, <2>0, <3>1, <3>2
  <2> QED BY <2>1, <2>2
<1>8. ASSUME NEW l \in {"idle", "commit"}, Goto(t, l),
             UNCHANGED <<root, used, pages, cache, loc>>
      PROVE  ListInv'
  <2>1. /\ pc' = [pc EXCEPT ![t] = l]
        /\ loc' = [loc EXCEPT ![t] = loc[t]]
        /\ cache' = [cache EXCEPT ![t] = cache[t]]
    BY <1>0, <1>8 DEF Goto
  <2> QED BY <1>1, <1>8, <2>1
<1>9. ASSUME NEW p \in Pages, Fetch(t, p) PROVE ListInv'
  BY <1>8, <1>9 DEF Fetch
<1>13. ASSUME NEW p \in Pages, FetchForUpdate(t, p) PROVE ListInv'
  BY <1>8, <1>13 DEF FetchForUpdate
<1>10. ASSUME Commit(t) PROVE ListInv'
  BY <1>8, <1>10 DEF Commit
<1>11. ASSUME InsertElsewhere(t) PROVE ListInv'
  <2>1. /\ cache' = [cache EXCEPT ![t] = NoCache] /\ pc[t] = "idle"
        /\ UNCHANGED <<root, used, pages, pc, loc>>
    BY <1>11 DEF InsertElsewhere
  <2>2. /\ pc' = [pc EXCEPT ![t] = "idle"] /\ loc' = [loc EXCEPT ![t] = loc[t]]
    BY <1>0, <2>1
  <2> QED BY <1>1, <2>1, <2>2
<1>12. ASSUME LoadFails(t) PROVE ListInv'
  <2>1. /\ pc' = [pc EXCEPT ![t] = "commit"]
        /\ loc' = [loc EXCEPT ![t] = NoLocals]
        /\ UNCHANGED <<root, used, pages, cache>>
    BY <1>12 DEF LoadFails, Return, Goto
  <2>2. cache' = [cache EXCEPT ![t] = cache[t]]
    BY <1>0, <2>1
  <2> QED BY <1>1, <2>1, <2>2
<1> QED BY <1>3, <1>4, <1>5, <1>6, <1>7, <1>9, <1>10, <1>11, <1>12, <1>13

\* ListInv is inductive relative to TypeInv and LatchInv.
LEMMA ListStep ==
  TypeInv /\ TypeInv' /\ LatchInv /\ ListInv /\ [Next]_vars => ListInv'
<1> SUFFICES ASSUME TypeInv, TypeInv', LatchInv, ListInv, [Next]_vars PROVE ListInv'
  OBVIOUS
<1>1. CASE UNCHANGED vars
  BY <1>1 DEF vars, ListInv, FreeListsLinked, ListedPagesHaveRoom, OnFreeList, ListPcs
<1>2. CASE Next
  BY <1>2, ListInsert, ListPurge, ListCalls DEF Next
<1> QED BY <1>1, <1>2

\* Every slot's free list stays doubly linked and headed by the root page, and
\* no page is on two lists, whatever inserts and purges race on it and
\* whichever of their page loads fail.
THEOREM ListsLinked == Spec => []FreeListsLinked
<1>1. TypeInv /\ LatchInv /\ ListInv /\ [Next]_vars => (TypeInv /\ LatchInv /\ ListInv)'
  BY TypeStep, LatchStep, ListStep
<1>2. ListInv => FreeListsLinked
  BY DEF ListInv
<1> QED BY <1>1, <1>2, TypeInit, LatchInit, ListInit, PTL DEF Spec

\* A page on a free list has a free record, so an insert that follows a slot
\* to a page finds room in it, and no counter of free records goes below
\* zero.
THEOREM ListedRoom == Spec => []ListedPagesHaveRoom
<1>1. TypeInv /\ LatchInv /\ ListInv /\ [Next]_vars => (TypeInv /\ LatchInv /\ ListInv)'
  BY TypeStep, LatchStep, ListStep
<1>2. ListInv => ListedPagesHaveRoom
  BY DEF ListInv
<1> QED BY <1>1, <1>2, TypeInit, LatchInit, ListInit, PTL DEF Spec

-------------------------------------------------------------------------------
(* The records.  Every step is one operation on one record, or leaves the   *)
(* records alone; the counters follow from that, and the refinement.        *)

\* The positions of a page that hold a record.
Stored(pg) == {i \in BitmapPositions : pg.recs[i] # FreeRec}

\* The counter of free records is what the stored records leave of MaxRecs, and
\* a page that is not allocated holds none.
RecordInv ==
  \A p \in Pages :
    /\ pages[p].numFree = MaxRecs - Cardinality(Stored(pages[p]))
    /\ p \notin used => Stored(pages[p]) = {}

\* What a step does to the records: page p now holds the records f and counts
\* n of them free, and the other pages hold what they held.
PageHolds(p, f, n) ==
  /\ p \in used
  /\ pages'[p].recs = f
  /\ pages'[p].numFree = n
  /\ \A q \in Pages \ {p} : /\ pages'[q].recs = pages[q].recs
                            /\ pages'[q].numFree = pages[q].numFree

SameRecords ==
  \A q \in Pages : /\ pages'[q].recs = pages[q].recs
                   /\ pages'[q].numFree = pages[q].numFree

Stores(p, i, x, d) ==
  /\ pages[p].recs[i] = FreeRec
  /\ PageHolds(p, [pages[p].recs EXCEPT ![i] =
                     [trx |-> x, data |-> d, marked |-> FALSE]],
               pages[p].numFree - 1)

Frees(p, i, x) ==
  /\ Purges(pages[p], i, x)
  /\ PageHolds(p, [pages[p].recs EXCEPT ![i] = FreeRec], pages[p].numFree + 1)

Marks(p, i, x, m) ==
  LET rec == pages[p].recs[i]
  IN  /\ rec # FreeRec
      /\ IF m THEN ~rec.marked ELSE rec.marked \/ rec.trx = x
      /\ PageHolds(p, [pages[p].recs EXCEPT ![i] =
                         [rec EXCEPT !.marked = m, !.trx = x]],
                   pages[p].numFree)

Writes(p, i, d) ==
  /\ pages[p].recs[i] # FreeRec
  /\ PageHolds(p, [pages[p].recs EXCEPT ![i] =
                     [pages[p].recs[i] EXCEPT !.data = d]],
               pages[p].numFree)

RecordStep ==
  \/ SameRecords
  \/ \E p \in Pages, i \in BitmapPositions, x \in Trx, d \in Data : Stores(p, i, x, d)
  \/ \E p \in Pages, i \in RecIndexes, x \in Trx : Frees(p, i, x)
  \/ \E p \in Pages, i \in RecIndexes, x \in Trx, m \in BOOLEAN : Marks(p, i, x, m)
  \/ \E p \in Pages, i \in RecIndexes, d \in Data : Writes(p, i, d)

-------------------------------------------------------------------------------

\* The bitmap has at least as many positions as the page has records.
LEMMA BitmapSize ==
  /\ IsFiniteSet(BitmapPositions)
  /\ Cardinality(BitmapPositions) \in Nat
  /\ Cardinality(BitmapPositions) >= MaxRecs
<1>1. /\ NumBitmapBytes * RecsPerByte \in Nat
      /\ NumBitmapBytes * RecsPerByte >= MaxRecs
  BY LayoutAssumption DEF NumBitmapBytes
<1> DEFINE n == NumBitmapBytes * RecsPerByte
<1>2. n \in Nat /\ n >= MaxRecs /\ 0 \in Int /\ n - 1 \in Int /\ MaxRecs >= 1 /\ MaxRecs \in Nat
  BY <1>1, RecLimits
<1>3. BitmapPositions = 0 .. (n - 1)
  BY DEF BitmapPositions
<1> HIDE DEF n
<1>4. IsFiniteSet(0 .. (n - 1)) /\ Cardinality(0 .. (n - 1)) = n
  <2>1. /\ IsFiniteSet(0 .. (n - 1))
        /\ Cardinality(0 .. (n - 1)) = IF 0 > n - 1 THEN 0 ELSE (n - 1) - 0 + 1
    BY <1>2, FS_Interval
  <2> QED BY <1>2, <2>1
<1> QED BY <1>2, <1>3, <1>4

\* The stored records of a page are finitely many.
LEMMA StoredFinite ==
  ASSUME NEW pg
  PROVE  /\ IsFiniteSet(Stored(pg)) /\ Cardinality(Stored(pg)) \in Nat
         /\ Stored(pg) \subseteq BitmapPositions
<1>1. Stored(pg) \subseteq BitmapPositions
  BY DEF Stored
<1>2. IsFiniteSet(Stored(pg))
  BY <1>1, BitmapSize, FS_Subset
<1> QED BY <1>1, <1>2, FS_CardinalityType

\* A page with room has a free position.
LEMMA RoomIsFree ==
  ASSUME NEW pg, pg.numFree = MaxRecs - Cardinality(Stored(pg)), pg.numFree > 0
  PROVE  FreePositions(pg) # {}
<1> SUFFICES ASSUME FreePositions(pg) = {} PROVE FALSE
  OBVIOUS
<1>1. Stored(pg) = BitmapPositions
  BY DEF FreePositions, Stored
<1> QED BY <1>1, BitmapSize, RecLimits

\* find_free_slot finds a free position when there is one.
LEMMA FindIsFree ==
  ASSUME NEW pg, NEW hint \in RecIndexes, FreePositions(pg) # {}
  PROVE  /\ FindFreeSlot(pg, hint) \in BitmapPositions
         /\ pg.recs[FindFreeSlot(pg, hint)] = FreeRec
<1> DEFINE F == FreePositions(pg)
           T == {i \in F : ByteOf(i) >= ByteOf(hint)}
<1>1. F \subseteq BitmapPositions /\ T \subseteq F /\ \A i \in F : pg.recs[i] = FreeRec
  BY DEF FreePositions
<1>2. (T # {} => Min(T) \in T) /\ Min(F) \in F
  <2>1. F \in SUBSET Nat /\ T \in SUBSET Nat /\ F # {}
    BY <1>1, BitmapCovers
  <2> HIDE DEF F, T
  <2> QED BY <2>1, MinNat
<1>3. \/ FindFreeSlot(pg, hint) = hint /\ pg.recs[hint] = FreeRec
      \/ T # {} /\ FindFreeSlot(pg, hint) = Min(T)
      \/ FindFreeSlot(pg, hint) = Min(F)
  BY DEF FindFreeSlot
<1> HIDE DEF F, T
<1> QED BY <1>1, <1>2, <1>3, BitmapCovers

\* InsertInto stores one record on a free position of its page.
LEMMA InsertIntoStores ==
  ASSUME TypeInv, RecordInv, NEW t \in Threads, NEW ps \in [Pages -> DataPageType],
         NEW p \in Pages, pc[t] \in InsertPcs, p \in used,
         InsertInto(t, ps, p, cache[t].hint),
         \A q \in Pages : /\ ps[q].recs = pages[q].recs
                          /\ ps[q].numFree = pages[q].numFree,
         pages[p].numFree > 0
  PROVE  RecordStep
<1> DEFINE h == cache[t].hint
           i == FindFreeSlot(ps[p], h)
           x == loc[t].trx
           d == loc[t].data
           rec == [trx |-> x, data |-> d, marked |-> FALSE]
<1>1. x \in Trx /\ d \in Data
  BY DEF TypeInv, CallsOK, CallOK
<1>2. h \in RecIndexes
  BY DEF TypeInv, TypeOK
<1>3. FreePositions(ps[p]) # {}
  <2>1. Stored(ps[p]) = Stored(pages[p])
    BY DEF Stored
  <2>2. ps[p].numFree = MaxRecs - Cardinality(Stored(ps[p])) /\ ps[p].numFree > 0
    BY <2>1 DEF RecordInv
  <2> QED BY <2>2, RoomIsFree
<1>4. i \in BitmapPositions /\ ps[p].recs[i] = FreeRec
  <2> HIDE DEF h
  <2> QED BY <1>2, <1>3, FindIsFree
<1>5. pages' = [ps EXCEPT ![p] = InsertRecord(ps[p], i, x, d)]
  BY DEF InsertInto
<1> HIDE DEF i, x, d, h
<1>6. /\ InsertRecord(ps[p], i, x, d).recs = [ps[p].recs EXCEPT ![i] = rec]
      /\ InsertRecord(ps[p], i, x, d).numFree = ps[p].numFree - 1
  <2> DEFINE pg == ps[p]
             new == [pg.recs EXCEPT ![i] = rec]
             n == pg.numFree - 1
  <2>1. pg \in DataPageType
    OBVIOUS
  <2>2. InsertRecord(pg, i, x, d) = [pg EXCEPT !.recs = new, !.numFree = n]
    BY DEF InsertRecord
  <2> SUFFICES InsertRecord(pg, i, x, d).recs = new /\ InsertRecord(pg, i, x, d).numFree = n
    OBVIOUS
  <2> HIDE DEF pg, new, n
  <2> QED BY <2>1, <2>2 DEF DataPageType
<1> HIDE DEF rec
<1>7. /\ pages'[p].recs = [pages[p].recs EXCEPT ![i] = rec]
      /\ pages'[p].numFree = pages[p].numFree - 1
      /\ \A q \in Pages \ {p} : /\ pages'[q].recs = pages[q].recs
                                /\ pages'[q].numFree = pages[q].numFree
  BY <1>5, <1>6
<1>8. pages[p].recs[i] = FreeRec
  BY <1>4
<1>9. Stores(p, i, x, d)
  BY <1>7, <1>8 DEF Stores, PageHolds, rec
<1> QED BY <1>1, <1>4, <1>9 DEF RecordStep

\* The steps of an insert store at most one record.
LEMMA RecordInsert ==
  ASSUME TypeInv, ListInv, RecordInv, NEW t \in Threads, InsertStep(t)
  PROVE  RecordStep
<1> DEFINE p == loc[t].page
           k == cache[t].slot
<1>0. /\ root \in RootType /\ root.cur \in 1 .. MaxSlots
      /\ used \subseteq Pages
      /\ pages \in [Pages -> DataPageType]
      /\ cache[t] \in CacheType
      /\ CallOK(pc[t], loc[t], cache[t], root.cur, used)
      /\ ListPc(pc[t], loc[t], cache[t], root, pages)
  BY Typed DEF ListInv, ListPcs
<1>1. CASE UNCHANGED pages
  BY <1>1 DEF RecordStep, SameRecords
<1>2. CASE InsertAllocate(t)
  <2>1. PICK q \in Pages \ used : pages' = [pages EXCEPT ![q] = FormattedPage]
    BY <1>2 DEF InsertAllocate
  <2>2. /\ Stored(pages[q]) = {}
        /\ pages[q].numFree = MaxRecs - Cardinality(Stored(pages[q]))
    BY <2>1 DEF RecordInv
  <2>3. pages[q].numFree = MaxRecs
    <3>1. Cardinality(Stored(pages[q])) = 0
      BY <2>2, FS_EmptySet
    <3> QED BY <2>2, <3>1, RecLimits
  <2>4. pages[q].recs \in [BitmapPositions -> Record \cup {FreeRec}]
    BY <1>0, PageFields
  <2>5. pages[q].recs = [i \in BitmapPositions |-> FreeRec]
    BY <2>2, <2>4 DEF Stored
  <2>6. FormattedPage.recs = pages[q].recs /\ FormattedPage.numFree = pages[q].numFree
    BY <2>3, <2>5 DEF FormattedPage
  <2>7. SameRecords
    <3> SUFFICES ASSUME NEW r \in Pages
                 PROVE  /\ pages'[r].recs = pages[r].recs
                        /\ pages'[r].numFree = pages[r].numFree
      BY DEF SameRecords
    <3>1. CASE r = q
      <4>1. pages'[r] = FormattedPage
        BY <1>0, <2>1, <3>1
      <4> QED BY <2>6, <3>1, <4>1
    <3>2. CASE r # q
      <4>1. pages'[r] = pages[r]
        BY <1>0, <2>1, <3>2
      <4> QED BY <4>1
    <3> QED BY <3>1, <3>2
  <2> QED BY <2>7 DEF RecordStep
<1>3. ASSUME pc[t] \in {"ins_page", "ins_load", "ins_unlink"}
      PROVE  /\ p \in used /\ p \in Pages /\ pages[p].numFree > 0
             /\ pc[t] \in InsertPcs
  <2>1. /\ p \in used /\ p \in Pages /\ k < root.cur /\ root.head[k] = p
        /\ k \in SlotNumbers \cup {INVALID_SLOT}
    BY <1>0, <1>3 DEF CallOK, ListPc, CacheType
  <2>2. k \in 0 .. (root.cur - 1)
    BY <1>0, <2>1, SlotBelow
  <2>3. pages[p].numFree > 0
    BY <2>1, <2>2, HeadHasRoom
  <2> QED BY <1>3, <2>1, <2>3 DEF InsertPcs
<1>4. ASSUME pc[t] \in {"ins_page", "ins_load"}, InsertInto(t, pages, p, cache[t].hint)
      PROVE  RecordStep
  BY <1>0, <1>3, <1>4, InsertIntoStores
<1>5. CASE InsertOptimistic(t) \/ InsertLoaded(t)
  BY <1>4, <1>5 DEF InsertOptimistic, InsertLoaded, At
<1>6. CASE InsertUnlink(t)
  <2> DEFINE st == RemoveFreePage(root, pages, p)
  <2>1. /\ p \in used /\ p \in Pages /\ pages[p].numFree > 0
        /\ pc[t] \in InsertPcs
    BY <1>3, <1>6 DEF InsertUnlink, At
  <2>2. /\ st.pages \in [Pages -> DataPageType]
        /\ \A q \in Pages : /\ st.pages[q].recs = pages[q].recs
                            /\ st.pages[q].numFree = pages[q].numFree
    <3> HIDE DEF p
    <3> QED BY <1>0, <2>1, RemoveFreePages
  <2>3. InsertInto(t, st.pages, p, cache[t].hint)
    BY <1>6 DEF InsertUnlink
  <2> HIDE DEF st, p
  <2> QED BY <2>1, <2>2, <2>3, InsertIntoStores
<1>7. CASE InsertNewPage(t)
  <2> DEFINE st == AddDataPage(root, pages, p)
             fr == IF HasLastFreeSlot(pages[p]) THEN st
                   ELSE AddFreePage(st.root, st.pages, p, k)
  <2>1. /\ p \in used /\ p \in Pages /\ k < root.cur
        /\ k \in SlotNumbers \cup {INVALID_SLOT}
        /\ pages[p].numFree >= 1 /\ pc[t] \in InsertPcs /\ pages[p].numFree \in Int
    BY <1>0, <1>7, PageFields DEF InsertNewPage, At, CallOK, ListPc, CacheType, InsertPcs
  <2>2. k \in 0 .. (root.cur - 1)
    BY <1>0, <2>1, SlotBelow
  <2>3. InsertInto(t, fr.pages, p, cache[t].hint)
    BY <1>7 DEF InsertNewPage
  <2>4. /\ st.root \in RootType /\ st.pages \in [Pages -> DataPageType]
        /\ st.root.cur = root.cur
        /\ \A q \in Pages : /\ st.pages[q].recs = pages[q].recs
                            /\ st.pages[q].numFree = pages[q].numFree
    <3> HIDE DEF p
    <3> QED BY <1>0, <2>1, AddDataFacts
  <2>5. /\ fr.pages \in [Pages -> DataPageType]
        /\ \A q \in Pages : /\ fr.pages[q].recs = pages[q].recs
                            /\ fr.pages[q].numFree = pages[q].numFree
    <3>1. CASE HasLastFreeSlot(pages[p])
      <4>1. fr = st
        BY <3>1
      <4> HIDE DEF fr, st
      <4> QED BY <2>4, <4>1
    <3>2. CASE ~ HasLastFreeSlot(pages[p])
      <4>1. fr = AddFreePage(st.root, st.pages, p, k)
        BY <3>2
      <4> DEFINE sr == st.root
                 sp == st.pages
      <4>2. /\ sr \in RootType /\ sp \in [Pages -> DataPageType] /\ sr.cur = root.cur
            /\ \A q \in Pages : /\ sp[q].recs = pages[q].recs
                                /\ sp[q].numFree = pages[q].numFree
            /\ fr = AddFreePage(sr, sp, p, k)
        BY <2>4, <4>1
      <4> HIDE DEF fr, st, sr, sp, p, k
      <4>3. LET a == AddFreePage(sr, sp, p, k)
            IN  /\ a.pages \in [Pages -> DataPageType]
                /\ \A q \in Pages : /\ a.pages[q].recs = sp[q].recs
                                    /\ a.pages[q].numFree = sp[q].numFree
        BY <2>1, <2>2, <4>2, AddFreePages
      <4> QED BY <4>2, <4>3
    <3> QED BY <3>1, <3>2
  <2>6. pages[p].numFree > 0
    BY <2>1
  <2> HIDE DEF fr, st, p, k
  <2> QED BY <2>1, <2>3, <2>5, <2>6, InsertIntoStores
<1> QED
  BY <1>1, <1>2, <1>5, <1>6, <1>7
  DEF InsertStep, InsertSelect, InsertFallBack, InsertSelectAgain, InsertNoSpace,
      InsertLoadedLast

\* A step that replaces one page.
LEMMA OnePageHolds ==
  ASSUME TypeInv, NEW p \in Pages, p \in used, NEW pg, pages' = [pages EXCEPT ![p] = pg]
  PROVE  PageHolds(p, pg.recs, pg.numFree)
BY DEF PageHolds, TypeInv, TypeOK

\* A purge frees one record, that its transaction wrote last.
LEMMA PurgeFrees ==
  ASSUME TypeInv, NEW p \in Pages, p \in used, NEW i \in RecIndexes, NEW x \in Trx,
         Purges(pages[p], i, x), NEW pg, pg = PurgeRecord(pages[p], i),
         pages' = [pages EXCEPT ![p] = pg]
  PROVE  RecordStep
<1>1. pages[p] \in DataPageType
  BY DEF TypeInv, TypeOK
<1>2. /\ pg.numFree = pages[p].numFree + 1
      /\ pg.recs = [pages[p].recs EXCEPT ![i] = FreeRec]
  <2> DEFINE old == pages[p]
  <2>1. old \in DataPageType /\ pg = PurgeRecord(old, i)
    BY <1>1
  <2> SUFFICES /\ pg.numFree = old.numFree + 1
               /\ pg.recs = [old.recs EXCEPT ![i] = FreeRec]
    OBVIOUS
  <2> HIDE DEF old
  <2> QED BY <2>1, PurgeRecordFacts
<1>3. Frees(p, i, x)
  BY <1>2, OnePageHolds DEF Frees
<1> QED BY <1>3 DEF RecordStep

\* The steps of a purge free at most one record.
LEMMA RecordPurge ==
  ASSUME TypeInv, NEW t \in Threads, PurgeStep(t)
  PROVE  RecordStep
<1> DEFINE p == loc[t].page
           i == loc[t].index
           x == loc[t].trx
<1>0. /\ root \in RootType /\ root.cur \in 1 .. MaxSlots
      /\ used \subseteq Pages /\ pages \in [Pages -> DataPageType]
      /\ loc[t] \in Locals
      /\ CallOK(pc[t], loc[t], cache[t], root.cur, used)
  BY Typed
<1>1. ASSUME pc[t] \in PurgePcs
      PROVE  p \in Pages /\ p \in used /\ x \in Trx /\ i \in RecIndexes
  BY <1>0, <1>1 DEF CallOK, Locals
<1>2. CASE PurgeLatchRoot(t)
  BY <1>2 DEF PurgeLatchRoot, RecordStep, SameRecords
<1>3. CASE PurgeReloaded(t) /\ ~ Purges(pages[p], i, x)
  <2>1. pages' = [pages EXCEPT ![p] = pages[p]]
    BY <1>3 DEF PurgeReloaded
  <2>2. pages' = pages
    BY <1>0, <2>1
  <2> QED BY <2>2 DEF RecordStep, SameRecords
<1>4. ASSUME pc[t] \in PurgePcs, Purges(pages[p], i, x),
             pages' = [pages EXCEPT ![p] = PurgeRecord(pages[p], i)]
      PROVE  RecordStep
  <2> HIDE DEF p, i, x
  <2> QED BY <1>1, <1>4, PurgeFrees
<1>5. CASE PurgeReloaded(t) /\ Purges(pages[p], i, x)
  BY <1>4, <1>5 DEF PurgeReloaded, At, PurgePcs
<1>6. CASE PurgeReloadedRelist(t)
  BY <1>4, <1>6 DEF PurgeReloadedRelist, At, PurgePcs
<1>7. CASE PurgeRelist(t)
  <2> DEFINE k == loc[t].slot
  <2>1. /\ p \in Pages /\ k \in 0 .. (root.cur - 1)
        /\ pages' = AddFreePage(root, pages, p, k).pages
    <3>1. pc[t] = "pur_slot" /\ pages' = AddFreePage(root, pages, p, k).pages
      BY <1>7 DEF PurgeRelist, At
    <3>2. p \in Pages /\ k < root.cur /\ k \in SlotNumbers \cup {INVALID_SLOT}
      BY <1>0, <1>1, <3>1 DEF CallOK, Locals, PurgePcs
    <3> QED BY <1>0, <3>1, <3>2, SlotBelow
  <2> HIDE DEF p, k
  <2>2. SameRecords
    BY <1>0, <2>1, AddFreePages DEF SameRecords
  <2> QED BY <2>2 DEF RecordStep
<1> QED BY <1>2, <1>3, <1>5, <1>6, <1>7 DEF PurgeStep

\* Marking and updating write one stored record.
LEMMA RecordCalls ==
  ASSUME TypeInv, NEW t \in Threads, NEW p \in Pages, NEW i \in RecIndexes
  PROVE  /\ \A x \in Trx : PurgeInPlace(t, p, i, x) => RecordStep
         /\ \A x \in Trx, m \in BOOLEAN : MarkDelete(t, p, i, x, m) => RecordStep
         /\ \A d \in Data : Update(t, p, i, d) => RecordStep
<1>0. /\ pages \in [Pages -> DataPageType]
      /\ i \in BitmapPositions
      /\ pages[p].recs[i] # FreeRec => pages[p].recs[i] \in Record
  <2>1. pages \in [Pages -> DataPageType] /\ i \in BitmapPositions
    BY BitmapCovers DEF TypeInv, TypeOK
  <2> QED BY <2>1, PageFields
<1>1. ASSUME UNCHANGED pages PROVE RecordStep
  BY <1>1 DEF RecordStep, SameRecords
<1>2. ASSUME NEW x \in Trx, PurgeInPlace(t, p, i, x) PROVE RecordStep
  <2>1. CASE Purges(pages[p], i, x)
    <3>1. p \in used /\ pages' = [pages EXCEPT ![p] = PurgeRecord(pages[p], i)]
      BY <1>2, <2>1 DEF PurgeInPlace
    <3> QED BY <2>1, <3>1, PurgeFrees
  <2>2. CASE ~ Purges(pages[p], i, x)
    BY <1>1, <1>2, <2>2 DEF PurgeInPlace
  <2> QED BY <2>1, <2>2
<1>3. ASSUME NEW x \in Trx, NEW m \in BOOLEAN, MarkDelete(t, p, i, x, m) PROVE RecordStep
  <2> DEFINE pg == MarkRecord(pages[p], i, x, m)
             rec == pages[p].recs[i]
  <2>1. /\ p \in used /\ rec # FreeRec /\ pages' = [pages EXCEPT ![p] = pg]
        /\ IF m THEN ~rec.marked ELSE rec.marked \/ rec.trx = x
    BY <1>3 DEF MarkDelete
  <2>2. /\ pg.numFree = pages[p].numFree
        /\ pg.recs = [pages[p].recs EXCEPT ![i] = [rec EXCEPT !.marked = m, !.trx = x]]
    <3> DEFINE old == pages[p]
    <3>1. old \in DataPageType /\ old.recs[i] \in Record
      BY <1>0, <2>1
    <3> SUFFICES /\ MarkRecord(old, i, x, m).numFree = old.numFree
                 /\ MarkRecord(old, i, x, m).recs
                      = [old.recs EXCEPT ![i] = [old.recs[i] EXCEPT !.marked = m, !.trx = x]]
      OBVIOUS
    <3> HIDE DEF old
    <3> QED BY <1>0, <3>1 DEF MarkRecord, DataPageType, Record
  <2>3. PageHolds(p, pg.recs, pg.numFree)
    <3> HIDE DEF pg
    <3> QED BY <2>1, OnePageHolds
  <2> HIDE DEF pg
  <2>4. Marks(p, i, x, m)
    BY <2>1, <2>2, <2>3 DEF Marks
  <2> QED BY <2>4 DEF RecordStep
<1>4. ASSUME NEW d \in Data, Update(t, p, i, d) PROVE RecordStep
  <2>1. CASE pages[p].recs[i] = FreeRec
    BY <1>1, <1>4, <2>1 DEF Update
  <2>2. CASE pages[p].recs[i] # FreeRec
    <3> DEFINE pg == [pages[p] EXCEPT !.recs[i].data = d]
               rec == pages[p].recs[i]
    <3>1. p \in used /\ pages' = [pages EXCEPT ![p] = pg]
      BY <1>4, <2>2 DEF Update
    <3>2. /\ pg.numFree = pages[p].numFree
          /\ pg.recs = [pages[p].recs EXCEPT ![i] = [rec EXCEPT !.data = d]]
      <4> DEFINE old == pages[p]
      <4>1. old \in DataPageType /\ old.recs[i] \in Record
        BY <1>0, <2>2
      <4> SUFFICES /\ [old EXCEPT !.recs[i].data = d].numFree = old.numFree
                   /\ [old EXCEPT !.recs[i].data = d].recs
                        = [old.recs EXCEPT ![i] = [old.recs[i] EXCEPT !.data = d]]
        OBVIOUS
      <4> HIDE DEF old
      <4> QED BY <1>0, <4>1 DEF DataPageType, Record
    <3> HIDE DEF pg
    <3>3. PageHolds(p, pg.recs, pg.numFree)
      BY <3>1, OnePageHolds
    <3>4. Writes(p, i, d)
      BY <2>2, <3>2, <3>3 DEF Writes
    <3> QED BY <3>4 DEF RecordStep
  <2> QED BY <2>1, <2>2
<1> QED BY <1>2, <1>3, <1>4

\* Every step is one operation on one record, or leaves the records alone.
LEMMA StepOnRecords ==
  ASSUME TypeInv, ListInv, RecordInv, [Next]_vars
  PROVE  RecordStep
<1>1. ASSUME UNCHANGED pages PROVE RecordStep
  BY <1>1 DEF RecordStep, SameRecords
<1>2. CASE UNCHANGED vars
  BY <1>1, <1>2 DEF vars
<1>3. CASE Next
  <2>1. PICK t \in Threads :
          \/ UNCHANGED pages
          \/ InsertStep(t)
          \/ PurgeStep(t)
          \/ \E p \in Pages, i \in RecIndexes :
               \/ \E x \in Trx : PurgeInPlace(t, p, i, x)
               \/ \E x \in Trx, m \in BOOLEAN : MarkDelete(t, p, i, x, m)
               \/ \E d \in Data : Update(t, p, i, d)
    BY <1>3 DEF Next, InsertCall, PurgeNeedsRoot, Fetch, FetchForUpdate, Commit,
                InsertElsewhere, LoadFails
  <2> QED BY <1>1, <2>1, RecordInsert, RecordPurge, RecordCalls
<1> QED BY <1>2, <1>3

\* No page is given back to the segment.
LEMMA UsedGrows ==
  ASSUME [Next]_vars PROVE used \subseteq used'
<1>1. CASE UNCHANGED vars
  BY <1>1 DEF vars
<1>2. ASSUME NEW t \in Threads, InsertStep(t) PROVE used \subseteq used'
  BY <1>2 DEF InsertStep, InsertSelect, InsertOptimistic, InsertFallBack,
              InsertSelectAgain, InsertAllocate, InsertNoSpace, InsertNewPage,
              InsertLoaded, InsertLoadedLast, InsertUnlink
<1>3. ASSUME NEW t \in Threads, PurgeStep(t) PROVE used' = used
  BY <1>3 DEF PurgeStep, PurgeLatchRoot, PurgeReloaded, PurgeReloadedRelist, PurgeRelist
<1>4. CASE Next
  <2>1. PICK t \in Threads :
          \/ InsertStep(t) \/ PurgeStep(t)
          \/ \E x \in Trx, d \in Data : InsertCall(t, x, d)
          \/ \E p \in Pages, i \in RecIndexes, x \in Trx :
               \/ PurgeInPlace(t, p, i, x) \/ PurgeNeedsRoot(t, p, i, x)
               \/ \E m \in BOOLEAN : MarkDelete(t, p, i, x, m)
          \/ \E p \in Pages, i \in RecIndexes, d \in Data : Update(t, p, i, d)
          \/ \E p \in Pages : Fetch(t, p) \/ FetchForUpdate(t, p)
          \/ Commit(t) \/ InsertElsewhere(t) \/ LoadFails(t)
    BY <1>4 DEF Next
  <2>2. used' = used \/ InsertStep(t) \/ PurgeStep(t)
    BY <2>1, Zenon
    DEF InsertCall, PurgeInPlace, PurgeNeedsRoot, MarkDelete, Update, Fetch,
        FetchForUpdate, Commit, InsertElsewhere, LoadFails
  <2> QED BY <1>2, <1>3, <2>2
<1> QED BY <1>1, <1>4

\* At first every page is formatted.
LEMMA RecordInit == Init => RecordInv
<1> SUFFICES ASSUME Init, NEW p \in Pages
             PROVE  /\ pages[p].numFree = MaxRecs - Cardinality(Stored(pages[p]))
                    /\ Stored(pages[p]) = {}
  BY DEF RecordInv
<1>1. pages[p] = FormattedPage
  BY DEF Init
<1>2. Stored(pages[p]) = {} /\ pages[p].numFree = MaxRecs
  BY <1>1 DEF FormattedPage, Stored
<1>3. Cardinality(Stored(pages[p])) = 0
  BY <1>2, FS_EmptySet
<1> QED BY <1>2, <1>3, RecLimits

\* The count after one record of page p became rec.
LEMMA CountAfter ==
  ASSUME TypeInv, RecordInv, NEW p \in Pages, NEW i \in BitmapPositions,
         NEW rec \in Record \cup {FreeRec}, NEW n \in Int,
         PageHolds(p, [pages[p].recs EXCEPT ![i] = rec], n),
         n = pages[p].numFree
               + (IF pages[p].recs[i] = FreeRec THEN 0 ELSE 1)
               - (IF rec = FreeRec THEN 0 ELSE 1)
             ,
         used \subseteq used'
  PROVE  RecordInv'
<1> SUFFICES ASSUME NEW q \in Pages
             PROVE  /\ pages'[q].numFree = MaxRecs - Cardinality(Stored(pages'[q]))
                    /\ q \notin used' => Stored(pages'[q]) = {}
  BY DEF RecordInv
<1>1. CASE q # p
  <2>1. pages'[q].recs = pages[q].recs /\ pages'[q].numFree = pages[q].numFree
    BY <1>1 DEF PageHolds
  <2>2. Stored(pages'[q]) = Stored(pages[q])
    BY <2>1 DEF Stored
  <2> QED BY <2>1, <2>2 DEF RecordInv
<1>2. CASE q = p
  <2> DEFINE S == Stored(pages[p])
             A == Stored(pages'[p])
  <2>0. pages[p].recs \in [BitmapPositions -> Record \cup {FreeRec}]
    BY PageFields DEF TypeInv, TypeOK
  <2>1. A = IF rec = FreeRec THEN S \ {i} ELSE S \cup {i}
    <3>1. pages'[p].recs = [pages[p].recs EXCEPT ![i] = rec]
      BY DEF PageHolds
    <3> QED BY <2>0, <3>1, Zenon DEF Stored
  <2>2. i \in S <=> pages[p].recs[i] # FreeRec
    BY DEF Stored
  <2>3. /\ pages[p].numFree = MaxRecs - Cardinality(S)
        /\ pages'[p].numFree = n /\ p \in used'
    BY DEF RecordInv, PageHolds
  <2>4. IsFiniteSet(S) /\ Cardinality(S) \in Nat
    BY StoredFinite
  <2> HIDE DEF S, A
  <2>5. CASE rec = FreeRec
    <3>1. Cardinality(A) = IF i \in S THEN Cardinality(S) - 1 ELSE Cardinality(S)
      BY <2>1, <2>4, <2>5, FS_RemoveElement
    <3> QED BY <1>2, <2>2, <2>3, <2>4, <2>5, <3>1, RecLimits DEF A
  <2>6. CASE rec # FreeRec
    <3>1. Cardinality(A) = IF i \in S THEN Cardinality(S) ELSE Cardinality(S) + 1
      BY <2>1, <2>4, <2>6, FS_AddElement
    <3> QED BY <1>2, <2>2, <2>3, <2>4, <2>6, <3>1, RecLimits DEF A
  <2> QED BY <2>5, <2>6
<1> QED BY <1>1, <1>2

\* What an insert writes is a record, and not a free one.
LEMMA WrittenRecord ==
  ASSUME NEW x \in Trx, NEW d \in Data
  PROVE  LET rec == [trx |-> x, data |-> d, marked |-> FALSE]
         IN  rec \in Record /\ rec # FreeRec
<1> DEFINE rec == [trx |-> x, data |-> d, marked |-> FALSE]
<1>1. rec \in Record
  BY DEF Record
<1> HIDE DEF rec
<1>2. rec # FreeRec
  BY <1>1, RecordAssumption DEF Record
<1> QED BY <1>1, <1>2 DEF rec

\* What is stored is a record.
LEMMA StoredRecord ==
  ASSUME TypeInv, NEW p \in Pages, NEW i \in BitmapPositions,
         pages[p].recs[i] # FreeRec
  PROVE  pages[p].recs[i] \in Record
<1>1. pages[p].recs \in [BitmapPositions -> Record \cup {FreeRec}]
  BY PageFields DEF TypeInv, TypeOK
<1> QED BY <1>1

\* RecordInv is inductive relative to TypeInv and ListInv.
LEMMA RecordInvStep ==
  TypeInv /\ ListInv /\ RecordInv /\ [Next]_vars => RecordInv'
<1> SUFFICES ASSUME TypeInv, ListInv, RecordInv, [Next]_vars PROVE RecordInv'
  OBVIOUS
<1>0. /\ used \subseteq used'
      /\ \A p \in Pages : pages[p].numFree \in Int
      /\ RecIndexes \subseteq BitmapPositions
  BY UsedGrows, PageFields, BitmapCovers DEF TypeInv, TypeOK
<1>1. CASE SameRecords
  BY <1>0, <1>1 DEF RecordInv, SameRecords, Stored
<1>2. ASSUME NEW p \in Pages, NEW i \in BitmapPositions, NEW x \in Trx, NEW d \in Data,
             Stores(p, i, x, d)
      PROVE  RecordInv'
  <2> DEFINE rec == [trx |-> x, data |-> d, marked |-> FALSE]
             n == pages[p].numFree - 1
  <2>1. rec \in Record \cup {FreeRec} /\ rec # FreeRec
    BY WrittenRecord
  <2>2. /\ pages[p].recs[i] = FreeRec /\ n \in Int
        /\ PageHolds(p, [pages[p].recs EXCEPT ![i] = rec], n)
    BY <1>0, <1>2 DEF Stores
  <2>3. n = pages[p].numFree + (IF pages[p].recs[i] = FreeRec THEN 0 ELSE 1)
              - (IF rec = FreeRec THEN 0 ELSE 1)
    BY <1>0, <2>1, <2>2
  <2> HIDE DEF rec, n
  <2> QED BY <1>0, <2>1, <2>2, <2>3, CountAfter
<1>3. ASSUME NEW p \in Pages, NEW i \in RecIndexes, NEW x \in Trx, Frees(p, i, x)
      PROVE  RecordInv'
  <2> DEFINE n == pages[p].numFree + 1
  <2>1. /\ pages[p].recs[i] # FreeRec /\ n \in Int
        /\ PageHolds(p, [pages[p].recs EXCEPT ![i] = FreeRec], n)
    BY <1>0, <1>3 DEF Frees, Purges
  <2>2. n = pages[p].numFree + (IF pages[p].recs[i] = FreeRec THEN 0 ELSE 1)
              - (IF FreeRec = FreeRec THEN 0 ELSE 1)
    BY <1>0, <2>1
  <2> HIDE DEF n
  <2> QED BY <1>0, <2>1, <2>2, CountAfter
<1>4. ASSUME NEW p \in Pages, NEW i \in BitmapPositions, NEW rec \in Record,
             pages[p].recs[i] # FreeRec,
             PageHolds(p, [pages[p].recs EXCEPT ![i] = rec], pages[p].numFree)
      PROVE  RecordInv'
  <2> DEFINE n == pages[p].numFree
  <2>1. rec # FreeRec
    BY RecordAssumption DEF Record
  <2>2. /\ n \in Int /\ PageHolds(p, [pages[p].recs EXCEPT ![i] = rec], n)
        /\ n = pages[p].numFree + (IF pages[p].recs[i] = FreeRec THEN 0 ELSE 1)
                 - (IF rec = FreeRec THEN 0 ELSE 1)
    BY <1>0, <1>4, <2>1
  <2> HIDE DEF n
  <2> QED BY <1>0, <1>4, <2>2, CountAfter
<1>5. ASSUME NEW p \in Pages, NEW i \in RecIndexes, NEW x \in Trx, NEW m \in BOOLEAN,
             Marks(p, i, x, m)
      PROVE  RecordInv'
  <2> DEFINE rec == [pages[p].recs[i] EXCEPT !.marked = m, !.trx = x]
  <2>1. /\ pages[p].recs[i] # FreeRec
        /\ PageHolds(p, [pages[p].recs EXCEPT ![i] = rec], pages[p].numFree)
    BY <1>5 DEF Marks
  <2>2. rec \in Record
    <3>1. pages[p].recs[i] \in Record
      BY <1>0, <2>1, StoredRecord
    <3> QED BY <3>1 DEF Record
  <2> HIDE DEF rec
  <2> QED BY <1>0, <1>4, <2>1, <2>2
<1>6. ASSUME NEW p \in Pages, NEW i \in RecIndexes, NEW d \in Data, Writes(p, i, d)
      PROVE  RecordInv'
  <2> DEFINE rec == [pages[p].recs[i] EXCEPT !.data = d]
  <2>1. /\ pages[p].recs[i] # FreeRec
        /\ PageHolds(p, [pages[p].recs EXCEPT ![i] = rec], pages[p].numFree)
    BY <1>6 DEF Writes
  <2>2. rec \in Record
    <3>1. pages[p].recs[i] \in Record
      BY <1>0, <2>1, StoredRecord
    <3> QED BY <3>1 DEF Record
  <2> HIDE DEF rec
  <2> QED BY <1>0, <1>4, <2>1, <2>2
<1> QED BY <1>1, <1>2, <1>3, <1>5, <1>6, StepOnRecords DEF RecordStep

-------------------------------------------------------------------------------
(* The theorems about the records.                                         *)

\* The last byte of the bitmap has no padding.
WholeBytes == MaxRecs % RecsPerByte = 0

\* Without padding the positions of the bitmap are the records of the page.
LEMMA NoPadding ==
  ASSUME WholeBytes PROVE BitmapPositions = RecIndexes
<1> DEFINE m == MaxRecs
           r == RecsPerByte
           q == m \div r
<1>1. m \in Nat /\ r \in Nat \ {0} /\ m % r = 0
  BY LayoutAssumption DEF WholeBytes
<1>2. q \in Nat /\ m = r * q
  BY <1>1
<1>3. (m + r - 1) \div r = q
  <2> HIDE DEF q
  <2>1. m + r - 1 = r * q + (r - 1) /\ r - 1 \in 0 .. (r - 1)
    BY <1>1, <1>2
  <2> QED BY <1>1, <1>2, <2>1
<1>4. NumBitmapBytes * RecsPerByte = MaxRecs
  <2>1. NumBitmapBytes = q
    BY <1>3 DEF NumBitmapBytes
  <2> QED BY <1>1, <1>2, <2>1
<1> QED BY <1>4 DEF BitmapPositions, RecIndexes

\* The counter of free records of a page and the records stored on it always
\* add up to MaxRecs, wherever in the bitmap the records lie.
CountsStored ==
  \A p \in Pages : pages[p].numFree = MaxRecs - Cardinality(Stored(pages[p]))

\* The invariants of the store together.
StoreInv == TypeInv /\ LatchInv /\ ListInv /\ RecordInv

LEMMA StoreInvariant == Spec => []StoreInv
<1>1. Init => StoreInv
  BY TypeInit, LatchInit, ListInit, RecordInit DEF StoreInv
<1>2. StoreInv /\ [Next]_vars => StoreInv'
  BY TypeStep, LatchStep, ListStep, RecordInvStep DEF StoreInv
<1> QED BY <1>1, <1>2, PTL DEF Spec

\* Whatever mix of inserts, purges, re-attempted purges and failing loads runs on
\* a page, its counter of free records and the records stored on it add up to
\* MaxRecs: DataPage::insert and DataPage::purge never count a record twice and
\* never write over one.
THEOREM StoredCounted == Spec => []CountsStored
<1>1. StoreInv => CountsStored
  BY DEF StoreInv, RecordInv, CountsStored
<1> QED BY <1>1, StoreInvariant, PTL

\* On a page whose bitmap has no padding the counter of free records is the
\* number of its free records.
THEOREM FreeCounted ==
  ASSUME WholeBytes PROVE Spec => []FreeCountExact
<1>1. StoreInv => FreeCountExact
  <2> SUFFICES ASSUME StoreInv, NEW p \in Pages
               PROVE  pages[p].numFree
                        = Cardinality({i \in RecIndexes : pages[p].recs[i] = FreeRec})
    BY DEF FreeCountExact
  <2> DEFINE S == Stored(pages[p])
             F == {i \in RecIndexes : pages[p].recs[i] = FreeRec}
  <2>1. F = RecIndexes \ S /\ S \subseteq RecIndexes /\ S \cap RecIndexes = S
    BY NoPadding DEF Stored
  <2>2. IsFiniteSet(RecIndexes) /\ Cardinality(RecIndexes) = MaxRecs
    <3>1. /\ IsFiniteSet(0 .. (MaxRecs - 1))
          /\ Cardinality(0 .. (MaxRecs - 1))
               = IF 0 > MaxRecs - 1 THEN 0 ELSE (MaxRecs - 1) - 0 + 1
      BY RecLimits, FS_Interval
    <3> QED BY <3>1, RecLimits DEF RecIndexes
  <2>3. pages[p].numFree = MaxRecs - Cardinality(S)
    BY DEF StoreInv, RecordInv
  <2> HIDE DEF S, F
  <2>4. Cardinality(RecIndexes \ S)
          = Cardinality(RecIndexes) - Cardinality(RecIndexes \cap S)
    BY <2>2, FS_Difference
  <2>5. RecIndexes \cap S = S
    BY <2>1
  <2> QED BY <2>1, <2>2, <2>3, <2>4, <2>5 DEF F
<1> QED BY <1>1, StoreInvariant, PTL

-------------------------------------------------------------------------------
(* The store implements the map of RecordStore.                            *)

\* The record under each reference after the record at <<p, i>> became rec.
LEMMA RefAfter ==
  ASSUME TypeInv, NEW p \in Pages, NEW i \in BitmapPositions, NEW rec, NEW n,
         PageHolds(p, [pages[p].recs EXCEPT ![i] = rec], n)
  PROVE  \A r \in Pages \X BitmapPositions :
           pages'[r[1]].recs[r[2]]
             = IF r = <<p, i>> THEN rec ELSE pages[r[1]].recs[r[2]]
<1> SUFFICES ASSUME NEW q \in Pages, NEW j \in BitmapPositions
             PROVE  pages'[q].recs[j]
                      = IF q = p /\ j = i THEN rec ELSE pages[q].recs[j]
  OBVIOUS
<1>1. pages[p].recs \in [BitmapPositions -> Record \cup {FreeRec}]
  BY PageFields DEF TypeInv, TypeOK
<1>2. CASE q = p
  <2>1. pages'[q].recs = [pages[p].recs EXCEPT ![i] = rec]
    BY <1>2 DEF PageHolds
  <2> QED BY <1>1, <1>2, <2>1
<1>3. CASE q # p
  <2>1. pages'[q].recs = pages[q].recs
    BY <1>3 DEF PageHolds
  <2> QED BY <1>3, <2>1
<1> QED BY <1>2, <1>3

\* The map before and after a step.
LEMMA MapOf ==
  /\ DOMAIN LiveRecords = LiveRefs
  /\ LiveRefs = {r \in Pages \X BitmapPositions : pages[r[1]].recs[r[2]] # FreeRec}
  /\ \A r \in LiveRefs : LiveRecords[r] = pages[r[1]].recs[r[2]]
  /\ LiveRecords' = [r \in LiveRefs' |-> pages'[r[1]].recs[r[2]]]
  /\ LiveRefs' = {r \in Pages \X BitmapPositions : pages'[r[1]].recs[r[2]] # FreeRec}
BY DEF LiveRecords, LiveRefs

\* The map is empty at first.
LEMMA MapInit == Init => Promise!Init
<1> SUFFICES ASSUME Init PROVE LiveRecords = [r \in {} |-> {}]
  BY DEF Promise!Init
<1>1. LiveRefs = {}
  BY DEF LiveRefs, Init, FormattedPage
<1> QED BY <1>1 DEF LiveRecords

\* Each operation on a record is the operation of the same name on the map.
LEMMA MapStep ==
  ASSUME WholeBytes, TypeInv, RecordStep
  PROVE  Promise!Next \/ UNCHANGED LiveRecords
<1>0. Refs = Pages \X BitmapPositions /\ RecIndexes \subseteq BitmapPositions
  BY NoPadding DEF Refs
<1>1. CASE SameRecords
  <2>1. \A r \in Pages \X BitmapPositions :
          pages'[r[1]].recs[r[2]] = pages[r[1]].recs[r[2]]
    BY <1>1 DEF SameRecords
  <2>2. LiveRefs' = LiveRefs
    BY <2>1, MapOf
  <2>3. LiveRecords' = LiveRecords
    BY <2>1, <2>2, MapOf DEF LiveRecords
  <2> QED BY <2>3
<1>2. ASSUME NEW p \in Pages, NEW i \in BitmapPositions, NEW x \in Trx, NEW d \in Data,
             Stores(p, i, x, d)
      PROVE  Promise!Next
  <2> DEFINE rec == [trx |-> x, data |-> d, marked |-> FALSE]
             ref == <<p, i>>
  <2>1. rec # FreeRec
    BY WrittenRecord
  <2>2. \A r \in Pages \X BitmapPositions :
          pages'[r[1]].recs[r[2]]
            = IF r = ref THEN rec ELSE pages[r[1]].recs[r[2]]
    <3> HIDE DEF rec
    <3>1. PICK n : PageHolds(p, [pages[p].recs EXCEPT ![i] = rec], n)
      BY <1>2 DEF Stores, rec
    <3> QED BY <3>1, RefAfter
  <2>3. ref \in Refs /\ ref \notin LiveRefs
    BY <1>0, <1>2, MapOf DEF Stores
  <2> HIDE DEF rec, ref
  <2>4. LiveRefs' = LiveRefs \cup {ref}
    BY <1>0, <2>1, <2>2, <2>3, MapOf
  <2>5. LiveRecords' = [r \in LiveRefs \cup {ref} |->
                          IF r = ref THEN rec ELSE LiveRecords[r]]
    BY <1>0, <2>2, <2>3, <2>4, MapOf
  <2>6. Promise!Insert(ref, x, d)
    BY <2>3, <2>5, MapOf DEF Promise!Insert, rec
  <2> QED BY <2>3, <2>6 DEF Promise!Next
<1>3. ASSUME NEW p \in Pages, NEW i \in RecIndexes, NEW x \in Trx, Frees(p, i, x)
      PROVE  Promise!Next
  <2> DEFINE ref == <<p, i>>
  <2>1. \A r \in Pages \X BitmapPositions :
          pages'[r[1]].recs[r[2]]
            = IF r = ref THEN FreeRec ELSE pages[r[1]].recs[r[2]]
    <3>1. PICK n : PageHolds(p, [pages[p].recs EXCEPT ![i] = FreeRec], n)
      BY <1>3 DEF Frees
    <3> QED BY <1>0, <3>1, RefAfter
  <2>2. ref \in LiveRefs /\ LiveRecords[ref].trx = x
    BY <1>0, <1>3, MapOf DEF Frees, Purges
  <2> HIDE DEF ref
  <2>3. LiveRefs' = LiveRefs \ {ref}
    BY <2>1, MapOf
  <2>4. LiveRecords' = [r \in LiveRefs \ {ref} |-> LiveRecords[r]]
    BY <2>1, <2>3, MapOf
  <2>5. Promise!Purge(ref, x)
    BY <2>2, <2>4, MapOf DEF Promise!Purge
  <2> QED BY <2>2, <2>5, MapOf DEF Promise!Next
<1>4. ASSUME NEW p \in Pages, NEW i \in BitmapPositions, NEW rec, NEW n,
             rec # FreeRec, pages[p].recs[i] # FreeRec,
             PageHolds(p, [pages[p].recs EXCEPT ![i] = rec], n)
      PROVE  /\ <<p, i>> \in LiveRefs
             /\ LiveRecords[<<p, i>>] = pages[p].recs[i]
             /\ LiveRecords' = [LiveRecords EXCEPT ![<<p, i>>] = rec]
  <2> DEFINE ref == <<p, i>>
  <2>1. \A r \in Pages \X BitmapPositions :
          pages'[r[1]].recs[r[2]]
            = IF r = ref THEN rec ELSE pages[r[1]].recs[r[2]]
    BY <1>4, RefAfter
  <2>2. ref \in LiveRefs /\ LiveRecords[ref] = pages[p].recs[i]
    BY <1>4, MapOf
  <2> HIDE DEF ref
  <2>3. LiveRefs' = LiveRefs
    BY <1>4, <2>1, <2>2, MapOf
  <2>4. LiveRecords' = [r \in LiveRefs |-> IF r = ref THEN rec ELSE LiveRecords[r]]
    BY <2>1, <2>3, MapOf
  <2>5. LiveRecords' = [LiveRecords EXCEPT ![ref] = rec]
    BY <2>2, <2>4, MapOf
  <2> QED BY <2>2, <2>5 DEF ref
<1>5. ASSUME NEW p \in Pages, NEW i \in RecIndexes, NEW x \in Trx, NEW m \in BOOLEAN,
             Marks(p, i, x, m)
      PROVE  Promise!Next
  <2> DEFINE ref == <<p, i>>
             old == pages[p].recs[i]
             rec == [old EXCEPT !.marked = m, !.trx = x]
  <2>1. /\ old # FreeRec
        /\ IF m THEN ~old.marked ELSE old.marked \/ old.trx = x
        /\ PageHolds(p, [pages[p].recs EXCEPT ![i] = rec], pages[p].numFree)
        /\ i \in BitmapPositions
    BY <1>0, <1>5 DEF Marks
  <2>2. rec # FreeRec
    <3>1. old \in Record
      BY <2>1, StoredRecord
    <3> HIDE DEF old
    <3>2. rec \in Record
      BY <3>1 DEF Record
    <3> HIDE DEF rec
    <3> QED BY <3>2, RecordAssumption DEF Record
  <2>3. /\ ref \in LiveRefs /\ LiveRecords[ref] = old
        /\ LiveRecords' = [LiveRecords EXCEPT ![ref] = rec]
    <3> HIDE DEF rec
    <3> QED BY <1>4, <2>1, <2>2
  <2> HIDE DEF ref, old
  <2>4. LiveRecords' = [LiveRecords EXCEPT ![ref].marked = m, ![ref].trx = x]
    BY <2>3, MapOf
  <2>5. Promise!MarkDelete(ref, x, m)
    BY <2>1, <2>3, <2>4, Zenon DEF Promise!MarkDelete
  <2> QED BY <2>3, <2>5, MapOf DEF Promise!Next
<1>6. ASSUME NEW p \in Pages, NEW i \in RecIndexes, NEW d \in Data, Writes(p, i, d)
      PROVE  Promise!Next
  <2> DEFINE ref == <<p, i>>
             old == pages[p].recs[i]
             rec == [old EXCEPT !.data = d]
  <2>1. /\ old # FreeRec
        /\ PageHolds(p, [pages[p].recs EXCEPT ![i] = rec], pages[p].numFree)
        /\ i \in BitmapPositions
    BY <1>0, <1>6 DEF Writes
  <2>2. rec # FreeRec
    <3>1. old \in Record
      BY <2>1, StoredRecord
    <3> HIDE DEF old
    <3>2. rec \in Record
      BY <3>1 DEF Record
    <3> HIDE DEF rec
    <3> QED BY <3>2, RecordAssumption DEF Record
  <2>3. /\ ref \in LiveRefs /\ LiveRecords[ref] = old
        /\ LiveRecords' = [LiveRecords EXCEPT ![ref] = rec]
    <3> HIDE DEF rec
    <3> QED BY <1>4, <2>1, <2>2
  <2> HIDE DEF ref, old
  <2>4. LiveRecords' = [LiveRecords EXCEPT ![ref].data = d]
    BY <2>3
  <2>5. Promise!Update(ref, d)
    BY <2>4 DEF Promise!Update
  <2> QED BY <2>3, <2>5, MapOf DEF Promise!Next
<1> QED BY <1>1, <1>2, <1>3, <1>5, <1>6 DEF RecordStep

\* On pages whose bitmap has no padding the store implements the map of records
\* it promises: an insert stores under a reference no live record has, a purge
\* removes only what its transaction wrote last, and no step of any call, failed
\* or not, loses, overwrites or revives a record.
THEOREM RecordsImplemented ==
  ASSUME WholeBytes PROVE Spec => ImplementsRecordStore
<1>1. StoreInv /\ [Next]_vars => [Promise!Next]_LiveRecords
  BY StepOnRecords, MapStep DEF StoreInv
<1> QED BY <1>1, MapInit, StoreInvariant, PTL
        DEF Spec, ImplementsRecordStore, Promise!Spec

-------------------------------------------------------------------------------
(* Walks along linked pages.                                               *)

\* One step along the links, and the walks of n steps.
Along(nxt, x) == IF x = NullRef THEN NullRef ELSE nxt[x]

Place(first, nxt, w, n) == IF n = 0 THEN first ELSE Along(nxt, w[n - 1])

IsWalk(first, nxt, n, w) == w = [k \in 0 .. n |-> Place(first, nxt, w, k)]

LEMMA WalkExists ==
  ASSUME NEW first, NEW nxt, NEW n \in Nat
  PROVE  \E w : IsWalk(first, nxt, n, w)
<1> DEFINE P == {m \in Nat : \E w : IsWalk(first, nxt, m, w)}
<1>1. 0 \in P
  <2> DEFINE w == [k \in 0 .. 0 |-> first]
  <2>1. IsWalk(first, nxt, 0, w)
    BY DEF IsWalk, Place
  <2> HIDE DEF w
  <2> QED BY <2>1
<1>2. ASSUME NEW m \in 0 .. n, m < n, m \in P
      PROVE  m + 1 \in P
  <2>1. PICK w : IsWalk(first, nxt, m, w)
    BY <1>2
  <2> DEFINE v == [k \in 0 .. (m + 1) |-> IF k = m + 1 THEN Along(nxt, w[m]) ELSE w[k]]
  <2>2. ASSUME NEW k \in 0 .. (m + 1)
        PROVE  v[k] = Place(first, nxt, v, k)
    <3>1. CASE k = m + 1
      BY <3>1 DEF Place
    <3>2. CASE k = 0
      BY <2>1, <3>2 DEF IsWalk, Place
    <3>3. CASE k # m + 1 /\ k # 0
      <4>1. k \in 0 .. m /\ k - 1 \in 0 .. m /\ k - 1 # m + 1
        BY <3>3
      <4>2. v[k] = w[k] /\ v[k - 1] = w[k - 1]
        BY <3>3, <4>1
      <4>3. w[k] = Place(first, nxt, w, k)
        BY <2>1, <4>1 DEF IsWalk
      <4> QED BY <3>3, <4>2, <4>3 DEF Place
    <3> QED BY <3>1, <3>2, <3>3
  <2>3. IsWalk(first, nxt, m + 1, v)
    BY <2>2 DEF IsWalk
  <2>4. m + 1 \in Nat
    BY <1>2
  <2> HIDE DEF v
  <2> QED BY <2>3, <2>4
<1> HIDE DEF P
<1>3. n \in P
  BY <1>1, <1>2, InductionUpTo
<1> QED BY <1>3 DEF P

\* Walk obeys its definition.
LEMMA WalkDef ==
  ASSUME NEW first, NEW nxt
  PROVE  LET w == Walk(first, nxt)
             N == Cardinality(Pages)
         IN  /\ N \in Nat
             /\ DOMAIN w = 0 .. N
             /\ w[0] = first
             /\ \A n \in 0 .. N : n < N => w[n + 1] = Along(nxt, w[n])
<1> DEFINE w == Walk(first, nxt)
           N == Cardinality(Pages)
<1>1. N \in Nat
  BY PageAssumption, FS_CardinalityType
<1>2. IsWalk(first, nxt, N, w)
  <2>1. w = CHOOSE v : IsWalk(first, nxt, N, v)
    BY DEF Walk, IsWalk, Place, Along
  <2> QED BY <1>1, <2>1, WalkExists, Zenon
<1> HIDE DEF w, N
<1>3. DOMAIN w = 0 .. N /\ \A n \in 0 .. N : w[n] = Place(first, nxt, w, n)
  BY <1>2 DEF IsWalk
<1>4. w[0] = first
  <2>1. w[0] = Place(first, nxt, w, 0)
    BY <1>1, <1>3
  <2> QED BY <2>1, Zenon DEF Place
<1>5. ASSUME NEW n \in 0 .. N, n < N PROVE w[n + 1] = Along(nxt, w[n])
  <2>1. n + 1 \in 0 .. N /\ n + 1 # 0 /\ (n + 1) - 1 = n
    BY <1>1, <1>5
  <2>2. w[n + 1] = Place(first, nxt, w, n + 1)
    BY <1>3, <2>1
  <2> QED BY <2>1, <2>2 DEF Place
<1> QED BY <1>1, <1>3, <1>4, <1>5 DEF w, N

\* The pages D are a list from first along nxt: no link leads out of D, every
\* page but the first is the successor of another, and there is no cycle, since
\* rank grows along the links.
IsList(first, nxt, D, rank) ==
  /\ first \in D \cup {NullRef}
  /\ \A p \in D : /\ nxt[p] \in D \cup {NullRef}
                  /\ nxt[p] # NullRef => rank[p] < rank[nxt[p]]
                  /\ p # first => \E q \in D : nxt[q] = p

\* A walk along a list ends and meets exactly the pages of the list.
LEMMA WalkOfList ==
  ASSUME NEW first, NEW nxt, NEW D \in SUBSET Pages, NEW rank \in [Pages -> Nat],
         IsList(first, nxt, D, rank)
  PROVE  /\ Ends(Walk(first, nxt))
         /\ PagesOf(Walk(first, nxt)) = D
<1> DEFINE w == Walk(first, nxt)
           N == Cardinality(Pages)
<1>1. /\ N \in Nat /\ DOMAIN w = 0 .. N /\ w[0] = first
      /\ \A n \in 0 .. N : n < N => w[n + 1] = Along(nxt, w[n])
  BY WalkDef
<1>0. NullRef \notin Pages /\ IsFiniteSet(Pages)
  BY PageAssumption
<1>a. \A S \in SUBSET Pages : IsFiniteSet(S) /\ Cardinality(S) \in Nat /\ Cardinality(S) <= N
  <2> SUFFICES ASSUME NEW S \in SUBSET Pages
               PROVE  IsFiniteSet(S) /\ Cardinality(S) \in Nat /\ Cardinality(S) <= N
    OBVIOUS
  <2> QED BY <1>0, FS_Subset, FS_CardinalityType
<1> HIDE DEF w, N
<1>2. \A n \in 0 .. N : w[n] \in D \cup {NullRef}
  <2> DEFINE P == {n \in 0 .. N : w[n] \in D \cup {NullRef}}
  <2>1. 0 \in P
    BY <1>1 DEF IsList
  <2>2. ASSUME NEW k \in 0 .. N, k < N, k \in P PROVE k + 1 \in P
    <3>1. w[k + 1] = Along(nxt, w[k]) /\ k + 1 \in 0 .. N
      BY <1>1, <2>2
    <3> QED BY <2>2, <3>1 DEF Along, IsList
  <2> HIDE DEF P
  <2>3. \A n \in 0 .. N : n \in P
    BY <1>1, <2>1, <2>2, InductionUpTo
  <2> QED BY <2>3 DEF P
<1> DEFINE seen(n) == {w[i] : i \in 0 .. n}
<1>3. ASSUME NEW n \in 0 .. N, w[n] # NullRef
      PROVE  /\ seen(n) \subseteq D /\ Cardinality(seen(n)) >= n + 1
             /\ \A x \in seen(n) : rank[x] <= rank[w[n]]
  <2> DEFINE Q(k) == /\ seen(k) \subseteq D /\ Cardinality(seen(k)) >= k + 1
                     /\ \A x \in seen(k) : rank[x] <= rank[w[k]]
             P == {k \in 0 .. N : w[k] # NullRef => Q(k)}
  <2>1. 0 \in P
    <3>1. ASSUME w[0] # NullRef PROVE Q(0)
      <4>1. seen(0) = {w[0]}
        <5>1. 0 .. 0 = {0}
          OBVIOUS
        <5> QED BY <5>1
      <4>2. w[0] \in D /\ rank[w[0]] \in Nat
        BY <1>1, <1>2, <3>1
      <4>3. Cardinality({w[0]}) = 1
        BY FS_Singleton
      <4> HIDE DEF seen
      <4> QED BY <4>1, <4>2, <4>3
    <3> HIDE DEF Q
    <3> QED BY <1>1, <3>1
  <2>2. ASSUME NEW k \in 0 .. N, k < N, k \in P PROVE k + 1 \in P
    <3>1. w[k + 1] = Along(nxt, w[k]) /\ k + 1 \in 0 .. N
      BY <1>1, <2>2
    <3>2. ASSUME w[k + 1] # NullRef PROVE Q(k + 1)
      <4>1. w[k] # NullRef /\ w[k + 1] = nxt[w[k]]
        BY <3>1, <3>2 DEF Along
      <4>2. Q(k)
        <5> HIDE DEF Q
        <5> QED BY <2>2, <4>1
      <4>3. w[k] \in D /\ w[k + 1] \in D /\ rank[w[k]] < rank[w[k + 1]]
        BY <1>2, <3>1, <3>2, <4>1 DEF IsList
      <4>4. seen(k + 1) = seen(k) \cup {w[k + 1]}
        <5>1. 0 .. (k + 1) = (0 .. k) \cup {k + 1}
          BY <2>2
        <5> QED BY <5>1
      <4>5. \A x \in seen(k) : rank[x] \in Nat /\ rank[x] < rank[w[k + 1]]
        <5> HIDE DEF seen
        <5> QED BY <4>2, <4>3
      <4> HIDE DEF seen
      <4>6. w[k + 1] \notin seen(k)
        BY <4>5
      <4>7. IsFiniteSet(seen(k)) /\ Cardinality(seen(k)) \in Nat
        BY <1>a, <4>2
      <4>8. Cardinality(seen(k) \cup {w[k + 1]}) = Cardinality(seen(k)) + 1
        BY <4>6, <4>7, FS_AddElement
      <4>9. Cardinality(seen(k + 1)) >= (k + 1) + 1
        BY <2>2, <4>2, <4>4, <4>7, <4>8
      <4>10. \A x \in seen(k + 1) : rank[x] <= rank[w[k + 1]]
        BY <4>3, <4>4, <4>5
      <4> QED BY <4>2, <4>3, <4>4, <4>9, <4>10
    <3> HIDE DEF Q
    <3> QED BY <3>1, <3>2
  <2>3. \A k \in 0 .. N : k \in P
    <3> HIDE DEF P
    <3> QED BY <1>1, <2>1, <2>2, InductionUpTo
  <2>4. Q(n)
    <3> HIDE DEF Q
    <3> QED BY <1>3, <2>3
  <2> QED BY <2>4
<1>4. w[N] = NullRef
  <2> SUFFICES ASSUME w[N] # NullRef PROVE FALSE
    OBVIOUS
  <2>1. N \in 0 .. N
    BY <1>1
  <2>2. seen(N) \subseteq D /\ Cardinality(seen(N)) >= N + 1
    BY <1>3, <2>1
  <2> HIDE DEF seen
  <2>3. seen(N) \in SUBSET Pages
    BY <2>2
  <2> QED BY <1>1, <1>a, <2>2, <2>3
<1> DEFINE M == {w[n] : n \in 0 .. N} \ {NullRef}
<1>5. M \subseteq D
  BY <1>2
<1>6. D \subseteq M
  <2> SUFFICES ASSUME NEW z \in D, z \notin M PROVE FALSE
    OBVIOUS
  <2> DEFINE T == {rank[p] : p \in D \ M}
             m == Min(T)
  <2>1. m \in T /\ \A y \in T : m <= y
    <3>1. T \in SUBSET Nat /\ T # {}
      OBVIOUS
    <3> HIDE DEF T
    <3> QED BY <3>1, MinNat
  <2> HIDE DEF m
  <2>2. PICK p \in D \ M : m = rank[p]
    BY <2>1
  <2>3. CASE p = first
    <3>1. w[0] = p /\ 0 \in 0 .. N /\ p # NullRef
      BY <1>0, <1>1, <2>3
    <3> QED BY <2>2, <3>1
  <2>4. CASE p # first
    <3>1. PICK q \in D : nxt[q] = p
      BY <2>2, <2>4 DEF IsList
    <3>2. rank[q] < rank[p] /\ rank[q] \in Nat /\ rank[p] \in Nat
      BY <1>0, <2>2, <3>1 DEF IsList
    <3>3. q \in M
      <4> SUFFICES ASSUME q \notin M PROVE FALSE
        OBVIOUS
      <4>1. rank[q] \in T
        BY <3>1
      <4> QED BY <2>1, <2>2, <3>2, <4>1
    <3>4. PICK n \in 0 .. N : w[n] = q
      BY <3>3
    <3>5. q # NullRef /\ n # N
      BY <1>0, <1>4, <3>1, <3>4
    <3>6. n < N /\ n + 1 \in 0 .. N
      BY <1>1, <3>5
    <3>7. w[n + 1] = p
      BY <1>1, <3>1, <3>4, <3>5, <3>6 DEF Along
    <3>8. p # NullRef
      BY <1>0, <2>2
    <3> QED BY <2>2, <3>6, <3>7, <3>8
  <2> QED BY <2>3, <2>4
<1>7. Ends(w)
  BY <1>4 DEF Ends, N
<1>8. PagesOf(w) = M
  BY <1>1 DEF PagesOf
<1> QED BY <1>5, <1>6, <1>7, <1>8 DEF w

-------------------------------------------------------------------------------
(* What a step does to the links and the totals.                           *)

\* add_free_page counts one free page and leaves the list of all pages alone.
LEMMA AddFreeTotals ==
  ASSUME NEW r \in RootType, NEW ps \in [Pages -> DataPageType],
         NEW p \in Pages, NEW k \in 0 .. (r.cur - 1)
  PROVE  LET st == AddFreePage(r, ps, p, k)
         IN  /\ st.root.totalFree = r.totalFree + 1
             /\ st.root.dataHead = r.dataHead
             /\ st.root.dataTail = r.dataTail
             /\ st.root.totalData = r.totalData
             /\ \A q \in Pages : /\ st.pages[q].prev = ps[q].prev
                                 /\ st.pages[q].next = ps[q].next
<1> DEFINE st == AddFreePage(r, ps, p, k)
           old == r.head[k]
           new == [r.head EXCEPT ![k] = p]
<1>1. /\ st.root = [r EXCEPT !.head = new, !.totalFree = r.totalFree + 1]
      /\ st.pages = [q \in Pages |->
                       IF q = p
                       THEN [ps[p] EXCEPT !.prevFree = RootRef,
                                          !.nextFree = old, !.slot = k]
                       ELSE IF q = old THEN [ps[q] EXCEPT !.prevFree = p]
                       ELSE ps[q]]
  BY DEF AddFreePage
<1> HIDE DEF st, old, new
<1>2. /\ st.root.totalFree = r.totalFree + 1 /\ st.root.dataHead = r.dataHead
      /\ st.root.dataTail = r.dataTail /\ st.root.totalData = r.totalData
  BY <1>1, RootFields
<1>3. ASSUME NEW q \in Pages
      PROVE  st.pages[q].prev = ps[q].prev /\ st.pages[q].next = ps[q].next
  <2> DEFINE pg == ps[q]
  <2>1. pg \in DataPageType
    OBVIOUS
  <2>2. \/ st.pages[q] = [pg EXCEPT !.prevFree = RootRef, !.nextFree = old, !.slot = k]
        \/ st.pages[q] = [pg EXCEPT !.prevFree = p]
        \/ st.pages[q] = pg
    BY <1>1
  <2> SUFFICES st.pages[q].prev = pg.prev /\ st.pages[q].next = pg.next
    OBVIOUS
  <2> HIDE DEF pg
  <2> QED BY <2>1, <2>2 DEF DataPageType
<1> QED BY <1>2, <1>3 DEF st

\* remove_free_page counts one free page less.
LEMMA RemoveFreeTotals ==
  ASSUME NEW r \in RootType, NEW ps \in [Pages -> DataPageType], NEW p \in Pages
  PROVE  LET st == RemoveFreePage(r, ps, p)
         IN  /\ st.root.totalFree = r.totalFree - 1
             /\ st.root.dataHead = r.dataHead
             /\ st.root.dataTail = r.dataTail
             /\ st.root.totalData = r.totalData
             /\ \A q \in Pages : /\ st.pages[q].prev = ps[q].prev
                                 /\ st.pages[q].next = ps[q].next
<1> DEFINE st == RemoveFreePage(r, ps, p)
           prv == ps[p].prevFree
           nxt == ps[p].nextFree
           new == IF prv = RootRef THEN [r.head EXCEPT ![ps[p].slot] = nxt] ELSE r.head
           n(q) == IF q = prv THEN nxt ELSE ps[q].nextFree
           v(q) == IF q = nxt THEN prv ELSE ps[q].prevFree
<1>1. /\ st.root = [r EXCEPT !.head = new, !.totalFree = r.totalFree - 1]
      /\ st.pages = [q \in Pages |->
                       IF q = p
                       THEN [ps[p] EXCEPT !.prevFree = NullRef, !.nextFree = NullRef]
                       ELSE [ps[q] EXCEPT !.nextFree = n(q), !.prevFree = v(q)]]
  BY DEF RemoveFreePage
<1> HIDE DEF st, prv, nxt, new, n, v
<1>2. /\ st.root.totalFree = r.totalFree - 1 /\ st.root.dataHead = r.dataHead
      /\ st.root.dataTail = r.dataTail /\ st.root.totalData = r.totalData
  <2>1. st.root = [cur |-> r.cur, head |-> new, dataHead |-> r.dataHead,
                   dataTail |-> r.dataTail, totalData |-> r.totalData,
                   totalFree |-> r.totalFree - 1]
    BY <1>1, RootFields
  <2> QED BY <2>1
<1>3. ASSUME NEW q \in Pages
      PROVE  st.pages[q].prev = ps[q].prev /\ st.pages[q].next = ps[q].next
  <2> DEFINE pg == ps[q]
  <2>1. pg \in DataPageType
    OBVIOUS
  <2>2. \/ st.pages[q] = [pg EXCEPT !.prevFree = NullRef, !.nextFree = NullRef]
        \/ st.pages[q] = [pg EXCEPT !.nextFree = n(q), !.prevFree = v(q)]
    BY <1>1
  <2> SUFFICES st.pages[q].prev = pg.prev /\ st.pages[q].next = pg.next
    OBVIOUS
  <2> HIDE DEF pg
  <2> QED BY <2>1, <2>2 DEF DataPageType
<1> QED BY <1>2, <1>3 DEF st

\* add_data_page puts a page in front of the list of all pages.
LEMMA AddDataTotals ==
  ASSUME NEW r \in RootType, NEW ps \in [Pages -> DataPageType], NEW p \in Pages
  PROVE  LET st == AddDataPage(r, ps, p)
         IN  /\ st.root.totalFree = r.totalFree
             /\ st.root.dataHead = p
             /\ st.root.dataTail = IF r.dataHead = NullRef THEN p ELSE r.dataTail
             /\ st.root.totalData = r.totalData + 1
             /\ \A q \in Pages :
                  /\ st.pages[q].prev = IF q = p THEN NullRef
                                        ELSE IF q = r.dataHead THEN p ELSE ps[q].prev
                  /\ st.pages[q].next = IF q = p THEN r.dataHead ELSE ps[q].next
<1> DEFINE st == AddDataPage(r, ps, p)
           old == r.dataHead
           tail == IF old = NullRef THEN p ELSE r.dataTail
<1>1. /\ st.root = [r EXCEPT !.dataHead = p, !.dataTail = tail,
                             !.totalData = r.totalData + 1]
      /\ st.pages = [q \in Pages |->
                       IF q = p THEN [ps[p] EXCEPT !.prev = NullRef, !.next = old]
                       ELSE IF q = old THEN [ps[q] EXCEPT !.prev = p]
                       ELSE ps[q]]
  BY DEF AddDataPage
<1> HIDE DEF st, old, tail
<1>2. /\ st.root.totalFree = r.totalFree /\ st.root.dataHead = p
      /\ st.root.dataTail = tail /\ st.root.totalData = r.totalData + 1
  BY <1>1, RootFields
<1>3. ASSUME NEW q \in Pages
      PROVE  /\ st.pages[q].prev = IF q = p THEN NullRef
                                   ELSE IF q = old THEN p ELSE ps[q].prev
             /\ st.pages[q].next = IF q = p THEN old ELSE ps[q].next
  <2> DEFINE pg == ps[q]
  <2>1. pg \in DataPageType
    OBVIOUS
  <2>2. /\ q = p => st.pages[q] = [pg EXCEPT !.prev = NullRef, !.next = old]
        /\ q # p /\ q = old => st.pages[q] = [pg EXCEPT !.prev = p]
        /\ q # p /\ q # old => st.pages[q] = pg
    BY <1>1
  <2> SUFFICES /\ st.pages[q].prev = IF q = p THEN NullRef
                                     ELSE IF q = old THEN p ELSE pg.prev
               /\ st.pages[q].next = IF q = p THEN old ELSE pg.next
    OBVIOUS
  <2> HIDE DEF pg
  <2>3. CASE q = p
    BY <2>1, <2>2, <2>3 DEF DataPageType
  <2>4. CASE q # p /\ q = old
    BY <2>1, <2>2, <2>4 DEF DataPageType
  <2>5. CASE q # p /\ q # old
    BY <2>2, <2>5
  <2> QED BY <2>3, <2>4, <2>5
<1> QED BY <1>2, <1>3, Zenon DEF st, tail, old

\* grow_free_slots writes the slot array only.
LEMMA GrowTotals ==
  ASSUME NEW r \in RootType
  PROVE  LET g == GrowFreeSlots(r)
         IN  /\ g.totalFree = r.totalFree
             /\ g.dataHead = r.dataHead
             /\ g.dataTail = r.dataTail
             /\ g.totalData = r.totalData
<1> DEFINE new == Min({r.cur + Min({r.cur, GrowStep}), MaxSlots})
           h == [k \in 0 .. (new - 1) |-> IF k < r.cur THEN r.head[k] ELSE NullRef]
<1>1. GrowFreeSlots(r) = [r EXCEPT !.cur = new, !.head = h]
  BY Zenon DEF GrowFreeSlots
<1> HIDE DEF new, h
<1> QED BY <1>1, RootFields

\* The writes to the records of a page leave its links.
SameLinks(pg, qg) ==
  /\ qg.prev = pg.prev /\ qg.next = pg.next
  /\ qg.prevFree = pg.prevFree /\ qg.nextFree = pg.nextFree

LEMMA RecordWritesKeepLinks ==
  ASSUME NEW pg \in DataPageType, NEW i \in BitmapPositions
  PROVE  /\ \A x, d : SameLinks(pg, InsertRecord(pg, i, x, d))
         /\ SameLinks(pg, PurgeRecord(pg, i))
         /\ \A x, m : SameLinks(pg, MarkRecord(pg, i, x, m))
         /\ \A d : SameLinks(pg, [pg EXCEPT !.recs[i].data = d])
<1>3. ASSUME NEW x, NEW d PROVE SameLinks(pg, InsertRecord(pg, i, x, d))
  <2> DEFINE f == [pg.recs EXCEPT ![i] = [trx |-> x, data |-> d, marked |-> FALSE]]
             n == pg.numFree - 1
  <2>1. InsertRecord(pg, i, x, d) = [pg EXCEPT !.recs = f, !.numFree = n]
    BY DEF InsertRecord
  <2> HIDE DEF f, n
  <2> QED BY <2>1 DEF SameLinks, DataPageType
<1>4. SameLinks(pg, PurgeRecord(pg, i))
  <2> DEFINE f == [pg.recs EXCEPT ![i] = FreeRec]
             n == pg.numFree + 1
  <2>1. PurgeRecord(pg, i) = [pg EXCEPT !.recs = f, !.numFree = n]
    BY DEF PurgeRecord
  <2> HIDE DEF f, n
  <2> QED BY <2>1 DEF SameLinks, DataPageType
<1>5. ASSUME NEW x, NEW m PROVE SameLinks(pg, MarkRecord(pg, i, x, m))
  BY DEF MarkRecord, SameLinks, DataPageType
<1>6. ASSUME NEW d PROVE SameLinks(pg, [pg EXCEPT !.recs[i].data = d])
  BY DEF SameLinks, DataPageType
<1> QED BY <1>3, <1>4, <1>5, <1>6

\* So does an insert that is done with the lists.
LEMMA InsertIntoLinks ==
  ASSUME TypeInv, NEW t \in Threads, NEW ps \in [Pages -> DataPageType],
         NEW p \in Pages, InsertInto(t, ps, p, cache[t].hint)
  PROVE  \A q \in Pages : SameLinks(ps[q], pages'[q])
<1> DEFINE h == cache[t].hint
           i == FindFreeSlot(ps[p], h)
           x == loc[t].trx
           d == loc[t].data
<1>1. i \in BitmapPositions
  <2>1. h \in RecIndexes
    BY DEF TypeInv, TypeOK
  <2> HIDE DEF h
  <2> QED BY <2>1, FindInBitmap
<1>2. pages' = [ps EXCEPT ![p] = InsertRecord(ps[p], i, x, d)]
  BY DEF InsertInto
<1> HIDE DEF i, x, d
<1>3. SameLinks(ps[p], InsertRecord(ps[p], i, x, d))
  BY <1>1, RecordWritesKeepLinks
<1>4. ASSUME NEW q \in Pages, q # p PROVE SameLinks(ps[q], pages'[q])
  BY <1>2, <1>4 DEF SameLinks
<1>5. SameLinks(ps[p], pages'[p])
  BY <1>2, <1>3
<1> QED BY <1>4, <1>5

\* The free lists: a step leaves them, adds a page that no link led to, or takes
\* one out.
SameFree ==
  /\ root'.totalFree = root.totalFree
  /\ \A q \in Pages : /\ pages'[q].prevFree = pages[q].prevFree
                      /\ pages'[q].nextFree = pages[q].nextFree

AddsFree(p) ==
  /\ root'.totalFree = root.totalFree + 1
  /\ pages[p].prevFree = NullRef /\ pages'[p].prevFree # NullRef
  /\ pages'[p].nextFree # p
  /\ \A q \in Pages : pages[q].nextFree # p
  /\ \A q \in Pages \ {p} :
       /\ pages'[q].nextFree = pages[q].nextFree
       /\ (pages'[q].prevFree = NullRef) <=> (pages[q].prevFree = NullRef)

RemovesFree(p) ==
  /\ root'.totalFree = root.totalFree - 1
  /\ pages[p].prevFree # NullRef /\ pages'[p].prevFree = NullRef
  /\ pages'[p].nextFree = NullRef
  /\ \A q \in Pages \ {p} :
       /\ pages'[q].nextFree = IF q = pages[p].prevFree THEN pages[p].nextFree
                               ELSE pages[q].nextFree
       /\ (pages'[q].prevFree = NullRef) <=> (pages[q].prevFree = NullRef)

FreeEffect == SameFree \/ \E p \in Pages : AddsFree(p) \/ RemovesFree(p)

\* The pages that have to be on the list of all pages: those with a record, those
\* on a free list and those about to be put on one.
HasData(p) ==
  \/ Stored(pages[p]) # {}
  \/ pages[p].prevFree # NullRef
  \/ \E t \in Threads : pc[t] = "pur_slot" /\ loc[t].page = p

\* The list of all pages: a step leaves it, or puts the page of an insert at
\* ins_head in front of it.
SameData ==
  /\ root'.dataHead = root.dataHead
  /\ root'.dataTail = root.dataTail
  /\ root'.totalData = root.totalData
  /\ \A q \in used : pages'[q].prev = pages[q].prev /\ pages'[q].next = pages[q].next

KeepsData ==
  /\ SameData
  /\ \A p \in Pages : HasData(p)' => HasData(p)
  /\ \A u \in Threads : pc'[u] = "ins_head" =>
       \/ pc[u] = "ins_head" /\ loc'[u].page = loc[u].page
       \/ loc'[u].page \notin used

AddsData(t) ==
  LET p == loc[t].page
  IN  /\ pc[t] = "ins_head" /\ p \in used
      /\ root'.dataHead = p
      /\ root'.dataTail = IF root.dataHead = NullRef THEN p ELSE root.dataTail
      /\ root'.totalData = root.totalData + 1
      /\ \A q \in Pages :
           /\ pages'[q].prev = IF q = p THEN NullRef
                               ELSE IF q = root.dataHead THEN p ELSE pages[q].prev
           /\ pages'[q].next = IF q = p THEN root.dataHead ELSE pages[q].next
      /\ \A q \in Pages : HasData(q)' => HasData(q) \/ q = p
      /\ \A u \in Threads : pc'[u] # "ins_head"

DataEffect == KeepsData \/ \E t \in Threads : AddsData(t)

\* A step of t that leaves the list of all pages.
LEMMA StepKeepsData ==
  ASSUME TypeInv, NEW t \in Threads, SameData,
         \A q \in Pages : /\ Stored(pages'[q]) # {} => HasData(q)
                          /\ pages'[q].prevFree # NullRef => HasData(q),
         NEW l, pc' = [pc EXCEPT ![t] = l],
         NEW v, loc' = [loc EXCEPT ![t] = v],
         l = "pur_slot" => HasData(v.page),
         l = "ins_head" => v.page \notin used
  PROVE  DataEffect
<1>0. /\ pc'[t] = l /\ loc'[t] = v
      /\ \A u \in Threads \ {t} : pc'[u] = pc[u] /\ loc'[u] = loc[u]
  BY DEF TypeInv, TypeOK
<1>1. ASSUME NEW q \in Pages, HasData(q)' PROVE HasData(q)
  <2>1. CASE Stored(pages'[q]) # {} \/ pages'[q].prevFree # NullRef
    BY <2>1
  <2>2. CASE \E u \in Threads : pc'[u] = "pur_slot" /\ loc'[u].page = q
    <3>1. PICK u \in Threads : pc'[u] = "pur_slot" /\ loc'[u].page = q
      BY <2>2
    <3>2. CASE u = t
      BY <1>0, <3>1, <3>2
    <3>3. CASE u # t
      BY <1>0, <3>1, <3>3 DEF HasData
    <3> QED BY <3>2, <3>3
  <2> QED BY <1>1, <2>1, <2>2 DEF HasData
<1>2. ASSUME NEW u \in Threads, pc'[u] = "ins_head"
      PROVE  \/ pc[u] = "ins_head" /\ loc'[u].page = loc[u].page
             \/ loc'[u].page \notin used
  BY <1>0, <1>2
<1> QED BY <1>1, <1>2 DEF DataEffect, KeepsData

\* A step of t that writes no page, and of the root page at most the slots.
LEMMA QuietEffect ==
  ASSUME TypeInv, NEW t \in Threads, UNCHANGED pages,
         root' = root \/ root' = PessimisticRoot(t),
         NEW l, pc' = [pc EXCEPT ![t] = l], l \notin {"pur_slot", "ins_head"},
         NEW v, loc' = [loc EXCEPT ![t] = v]
  PROVE  FreeEffect /\ DataEffect
<1>1. /\ root'.totalFree = root.totalFree /\ root'.dataHead = root.dataHead
      /\ root'.dataTail = root.dataTail /\ root'.totalData = root.totalData
  <2>1. CASE root' = root
    BY <2>1
  <2>2. CASE root' = GrowFreeSlots(root)
    BY <2>2, GrowTotals DEF TypeInv, TypeOK
  <2> QED BY <2>1, <2>2 DEF PessimisticRoot
<1>2. SameFree /\ SameData
  BY <1>1 DEF SameFree, SameData
<1>3. \A q \in Pages : /\ Stored(pages'[q]) # {} => HasData(q)
                       /\ pages'[q].prevFree # NullRef => HasData(q)
  BY DEF HasData
<1>4. DataEffect
  BY <1>2, <1>3, StepKeepsData
<1> QED BY <1>2, <1>4 DEF FreeEffect

\* A step of t that writes records of a page on the list of all pages.
LEMMA WriteEffect ==
  ASSUME TypeInv, NEW t \in Threads, UNCHANGED root, NEW p \in Pages, HasData(p),
         \A q \in Pages : SameLinks(pages[q], pages'[q]),
         \A q \in Pages \ {p} : pages'[q] = pages[q],
         NEW l, pc' = [pc EXCEPT ![t] = l], l # "ins_head",
         NEW v, loc' = [loc EXCEPT ![t] = v], l = "pur_slot" => v.page = p
  PROVE  FreeEffect /\ DataEffect
<1>1. SameFree /\ SameData
  BY DEF SameFree, SameData, SameLinks, TypeInv, TypeOK
<1>2. \A q \in Pages : /\ Stored(pages'[q]) # {} => HasData(q)
                       /\ pages'[q].prevFree # NullRef => HasData(q)
  BY DEF HasData, SameLinks
<1>3. DataEffect
  BY <1>1, <1>2, StepKeepsData
<1> QED BY <1>1, <1>3 DEF FreeEffect

\* A page without slot number, put in front of the list of slot k.
LEMMA AddEffect ==
  ASSUME TypeInv, ListInv, NEW p \in Pages, NEW k \in 0 .. (root.cur - 1),
         pages[p].slot = INVALID_SLOT,
         root'.totalFree = root.totalFree + 1,
         \A q \in Pages :
           /\ pages'[q].nextFree = IF q = p THEN root.head[k] ELSE pages[q].nextFree
           /\ pages'[q].prevFree = IF q = p THEN RootRef
                                   ELSE IF q = root.head[k] THEN p ELSE pages[q].prevFree
  PROVE  FreeEffect
<1>1. /\ Linked(root, pages, used) /\ root \in RootType
      /\ pages \in [Pages -> DataPageType]
  BY LinkedDef DEF ListInv, TypeInv, TypeOK
<1>2. /\ pages[p].prevFree = NullRef
      /\ root.head[k] # p
      /\ \A q \in Pages : pages[q].nextFree # p
  BY <1>1, UnlistedPage
<1>3. \A q \in Pages : q = root.head[k] => pages[q].prevFree = RootRef
  BY <1>1, PageAssumption DEF Linked
<1>4. AddsFree(p)
  BY <1>2, <1>3, PageAssumption DEF AddsFree
<1> QED BY <1>4 DEF FreeEffect

\* The page at the front of a slot, taken out of the list.
LEMMA RemoveEffect ==
  ASSUME TypeInv, ListInv, NEW p \in Pages, pages[p].prevFree # NullRef,
         root'.totalFree = root.totalFree - 1,
         \A q \in Pages :
           /\ pages'[q].nextFree = IF q = p THEN NullRef
                                   ELSE IF q = pages[p].prevFree THEN pages[p].nextFree
                                   ELSE pages[q].nextFree
           /\ pages'[q].prevFree = IF q = p THEN NullRef
                                   ELSE IF q = pages[p].nextFree THEN pages[p].prevFree
                                   ELSE pages[q].prevFree
  PROVE  FreeEffect
<1>1. Linked(root, pages, used)
  BY LinkedDef DEF ListInv
<1>2. \A q \in Pages : q = pages[p].nextFree => pages[q].prevFree = p
  BY <1>1 DEF Linked
<1>3. \A q \in Pages \ {p} : (pages'[q].prevFree = NullRef) <=> (pages[q].prevFree = NullRef)
  BY <1>2, PageAssumption
<1>4. RemovesFree(p)
  BY <1>3 DEF RemovesFree
<1> QED BY <1>4 DEF FreeEffect

\* A call that has returned waits for no list.
LEMMA CommitLabel == "commit" # "pur_slot" /\ "commit" # "ins_head"
OBVIOUS

\* The steps of an insert.
LEMMA EffectInsert ==
  ASSUME TypeInv, LatchInv, ListInv, RecordInv, NEW t \in Threads, InsertStep(t)
  PROVE  FreeEffect /\ DataEffect
<1> DEFINE p == loc[t].page
           k == cache[t].slot
<1>0. /\ root \in RootType /\ root.cur \in 1 .. MaxSlots
      /\ used \subseteq Pages
      /\ pages \in [Pages -> DataPageType]
      /\ cache[t] \in CacheType /\ loc[t] \in Locals
      /\ loc = [loc EXCEPT ![t] = loc[t]]
      /\ CallOK(pc[t], loc[t], cache[t], root.cur, used)
      /\ LatchShape(pc[t], held[t], p)
      /\ ListPc(pc[t], loc[t], cache[t], root, pages)
      /\ Linked(root, pages, used)
  BY Typed, LinkedDef DEF LatchInv, LatchShapes, ListInv, ListPcs
<1>1. CASE InsertSelect(t)
  <2>0. PICK l \in {"ins_page", "ins_root_x"} :
          /\ pc' = [pc EXCEPT ![t] = l]
          /\ \E v : loc' = [loc EXCEPT ![t] = v]
    BY <1>1 DEF InsertSelect, Goto
  <2>1. PICK v : pc' = [pc EXCEPT ![t] = l] /\ loc' = [loc EXCEPT ![t] = v]
    BY <2>0
  <2>2. UNCHANGED <<root, pages>>
    BY <1>1 DEF InsertSelect
  <2> QED BY <2>1, <2>2, QuietEffect
<1>2. CASE InsertFallBack(t)
  <2>1. PICK v : /\ pc' = [pc EXCEPT ![t] = "ins_root_x"] /\ loc' = [loc EXCEPT ![t] = v]
                 /\ UNCHANGED <<root, pages>>
    BY <1>2 DEF InsertFallBack, Goto
  <2> QED BY <2>1, QuietEffect
<1>3. CASE InsertSelectAgain(t)
  <2>1. PICK v : loc' = [loc EXCEPT ![t] = v]
    BY <1>3 DEF InsertSelectAgain
  <2>2. /\ pc' = [pc EXCEPT ![t] = "ins_load"] /\ UNCHANGED pages
        /\ root' = PessimisticRoot(t)
    BY <1>3 DEF InsertSelectAgain, Goto
  <2> QED BY <2>1, <2>2, QuietEffect
<1>4. CASE InsertNoSpace(t)
  <2>1. /\ pc' = [pc EXCEPT ![t] = "commit"] /\ UNCHANGED pages
        /\ loc' = [loc EXCEPT ![t] = NoLocals]
        /\ root' = PessimisticRoot(t)
    BY <1>4 DEF InsertNoSpace, Return, Goto
  <2> QED BY <2>1, QuietEffect
<1>5. CASE InsertLoadedLast(t)
  <2>1. /\ pc' = [pc EXCEPT ![t] = "ins_unlink"] /\ UNCHANGED <<root, pages>>
        /\ loc' = [loc EXCEPT ![t] = loc[t]]
    BY <1>0, <1>5 DEF InsertLoadedLast, Goto
  <2> QED BY <2>1, QuietEffect
<1>6. CASE InsertAllocate(t)
  <2>1. PICK n \in Pages \ used :
          /\ pages' = [pages EXCEPT ![n] = FormattedPage]
          /\ loc' = [loc EXCEPT ![t] = [loc[t] EXCEPT !.page = n, !.grow = FALSE]]
    BY <1>6 DEF InsertAllocate
  <2> DEFINE v == [loc[t] EXCEPT !.page = n, !.grow = FALSE]
  <2>2. pc' = [pc EXCEPT ![t] = "ins_head"] /\ root' = PessimisticRoot(t)
    BY <1>6 DEF InsertAllocate, Goto
  <2>3. v.page = n /\ loc' = [loc EXCEPT ![t] = v]
    BY <1>0, <2>1 DEF Locals
  <2> HIDE DEF v
  <2>4. pages[n].prevFree = NullRef /\ pages[n].nextFree = NullRef
    BY <1>0, <2>1, UnlistedPage
  <2>5. /\ pages'[n] = FormattedPage
        /\ \A q \in Pages \ {n} : pages'[q] = pages[q]
    BY <1>0, <2>1
  <2>6. /\ FormattedPage.prevFree = NullRef /\ FormattedPage.nextFree = NullRef
        /\ Stored(FormattedPage) = {}
    BY DEF FormattedPage, Stored
  <2>7. /\ root'.totalFree = root.totalFree /\ root'.dataHead = root.dataHead
        /\ root'.dataTail = root.dataTail /\ root'.totalData = root.totalData
    <3>1. CASE root' = root
      BY <3>1
    <3>2. CASE root' = GrowFreeSlots(root)
      BY <1>0, <3>2, GrowTotals
    <3> QED BY <2>2, <3>1, <3>2 DEF PessimisticRoot
  <2>8. SameFree
    BY <2>4, <2>5, <2>6, <2>7 DEF SameFree
  <2>9. SameData
    BY <1>0, <2>1, <2>5, <2>7 DEF SameData
  <2>10. \A q \in Pages : /\ Stored(pages'[q]) # {} => HasData(q)
                          /\ pages'[q].prevFree # NullRef => HasData(q)
    BY <2>5, <2>6 DEF HasData
  <2>11. "ins_head" # "pur_slot" /\ v.page \notin used
    BY <2>1, <2>3
  <2>12. DataEffect
    BY <2>2, <2>3, <2>9, <2>10, <2>11, StepKeepsData
  <2> QED BY <2>8, <2>12 DEF FreeEffect
<1>7. ASSUME pc[t] \in {"ins_page", "ins_load", "ins_unlink"}
      PROVE  p \in Pages /\ pages[p].prevFree # NullRef /\ HasData(p)
  <2>1. /\ p \in used /\ p \in Pages /\ k < root.cur /\ root.head[k] = p
        /\ k \in SlotNumbers \cup {INVALID_SLOT}
    BY <1>0, <1>7 DEF CallOK, ListPc, CacheType
  <2>2. k \in 0 .. (root.cur - 1)
    BY <1>0, <2>1, SlotBelow
  <2>3. pages[p].prevFree = RootRef
    BY <2>1, <2>2, HeadHasRoom
  <2> QED BY <2>1, <2>3, PageAssumption DEF HasData
<1>8. ASSUME NEW ps \in [Pages -> DataPageType], p \in Pages,
             InsertInto(t, ps, p, cache[t].hint)
      PROVE  /\ \A q \in Pages : SameLinks(ps[q], pages'[q])
             /\ \A q \in Pages \ {p} : pages'[q] = ps[q]
             /\ pc' = [pc EXCEPT ![t] = "commit"]
             /\ loc' = [loc EXCEPT ![t] = NoLocals]
  <2>1. \A q \in Pages : SameLinks(ps[q], pages'[q])
    BY <1>8, InsertIntoLinks
  <2>2. \A q \in Pages \ {p} : pages'[q] = ps[q]
    BY <1>8 DEF InsertInto
  <2> QED BY <1>8, <2>1, <2>2 DEF InsertInto, Return, Goto
<1>9. CASE InsertOptimistic(t) \/ InsertLoaded(t)
  <2>1. /\ pc[t] \in {"ins_page", "ins_load"} /\ UNCHANGED root
        /\ InsertInto(t, pages, p, cache[t].hint)
    BY <1>9 DEF InsertOptimistic, InsertLoaded, At
  <2>2. p \in Pages /\ HasData(p)
    BY <1>7, <2>1
  <2>3. /\ \A q \in Pages : SameLinks(pages[q], pages'[q])
        /\ \A q \in Pages \ {p} : pages'[q] = pages[q]
        /\ pc' = [pc EXCEPT ![t] = "commit"]
        /\ loc' = [loc EXCEPT ![t] = NoLocals]
    BY <1>0, <1>8, <2>1, <2>2
  <2> HIDE DEF p
  <2> QED BY <2>1, <2>2, <2>3, CommitLabel, WriteEffect
<1>10. CASE InsertUnlink(t)
  <2> DEFINE st == RemoveFreePage(root, pages, p)
  <2>1. /\ pc[t] = "ins_unlink" /\ root' = st.root
        /\ InsertInto(t, st.pages, p, cache[t].hint)
    BY <1>10 DEF InsertUnlink, At
  <2>2. p \in Pages /\ pages[p].prevFree # NullRef /\ HasData(p)
    BY <1>7, <2>1
  <2> HIDE DEF p
  <2>3. /\ st.pages \in [Pages -> DataPageType]
        /\ \A q \in Pages :
             /\ st.pages[q].recs = pages[q].recs
             /\ st.pages[q].nextFree = IF q = p THEN NullRef
                                       ELSE IF q = pages[p].prevFree THEN pages[p].nextFree
                                       ELSE pages[q].nextFree
             /\ st.pages[q].prevFree = IF q = p THEN NullRef
                                       ELSE IF q = pages[p].nextFree THEN pages[p].prevFree
                                       ELSE pages[q].prevFree
    BY <1>0, <2>2, RemoveFreePages
  <2>4. /\ st.root.totalFree = root.totalFree - 1
        /\ st.root.dataHead = root.dataHead
        /\ st.root.dataTail = root.dataTail
        /\ st.root.totalData = root.totalData
        /\ \A q \in Pages : /\ st.pages[q].prev = pages[q].prev
                            /\ st.pages[q].next = pages[q].next
    BY <1>0, <2>2, RemoveFreeTotals
  <2> HIDE DEF st
  <2>5. /\ \A q \in Pages : SameLinks(st.pages[q], pages'[q])
        /\ \A q \in Pages \ {p} : pages'[q] = st.pages[q]
        /\ pc' = [pc EXCEPT ![t] = "commit"]
        /\ loc' = [loc EXCEPT ![t] = NoLocals]
    BY <1>8, <2>1, <2>2, <2>3 DEF p
  <2>6. \A q \in Pages :
          /\ pages'[q].nextFree = st.pages[q].nextFree
          /\ pages'[q].prevFree = st.pages[q].prevFree
          /\ pages'[q].prev = pages[q].prev /\ pages'[q].next = pages[q].next
    BY <2>4, <2>5 DEF SameLinks
  <2>7. FreeEffect
    <3>1. \A q \in Pages :
            /\ pages'[q].nextFree = IF q = p THEN NullRef
                                    ELSE IF q = pages[p].prevFree THEN pages[p].nextFree
                                    ELSE pages[q].nextFree
            /\ pages'[q].prevFree = IF q = p THEN NullRef
                                    ELSE IF q = pages[p].nextFree THEN pages[p].prevFree
                                    ELSE pages[q].prevFree
      BY <2>3, <2>6
    <3>2. root'.totalFree = root.totalFree - 1
      BY <2>1, <2>4
    <3> QED BY <2>2, <3>1, <3>2, RemoveEffect
  <2>8. SameData
    BY <1>0, <2>1, <2>4, <2>6 DEF SameData
  <2>9. ASSUME NEW q \in Pages
        PROVE  /\ Stored(pages'[q]) # {} => HasData(q)
               /\ pages'[q].prevFree # NullRef => HasData(q)
    <3>1. CASE q = p
      BY <2>2, <3>1
    <3>2. CASE q # p
      <4>1. pages'[q].recs = pages[q].recs
        BY <2>3, <2>5, <3>2
      <4>2. Stored(pages'[q]) = Stored(pages[q])
        BY <4>1 DEF Stored
      <4>3. pages'[q].prevFree # NullRef => pages[q].prevFree # NullRef
        <5>1. q = pages[p].nextFree => pages[q].prevFree = p
          BY <1>0, <2>2 DEF Linked
        <5> QED BY <2>2, <2>3, <2>6, <3>2, <5>1, PageAssumption
      <4> QED BY <4>2, <4>3 DEF HasData
    <3> QED BY <3>1, <3>2
  <2>10. DataEffect
    BY <2>5, <2>8, <2>9, CommitLabel, StepKeepsData
  <2> QED BY <2>7, <2>10
<1>11. CASE InsertNewPage(t)
  <2> DEFINE st == AddDataPage(root, pages, p)
             last == HasLastFreeSlot(pages[p])
             fr == IF last THEN st ELSE AddFreePage(st.root, st.pages, p, k)
  <2>1. /\ pc[t] = "ins_head" /\ root' = fr.root
        /\ InsertInto(t, fr.pages, p, cache[t].hint)
    BY <1>11 DEF InsertNewPage, At
  <2>2. /\ p \in used /\ p \in Pages /\ k < root.cur
        /\ k \in SlotNumbers \cup {INVALID_SLOT} /\ pages[p].slot = INVALID_SLOT
    BY <1>0, <2>1 DEF CallOK, ListPc, CacheType
  <2>3. k \in 0 .. (root.cur - 1)
    BY <1>0, <2>2, SlotBelow
  <2> HIDE DEF p, k
  <2>4. /\ st.root \in RootType /\ st.pages \in [Pages -> DataPageType]
        /\ st.root.cur = root.cur /\ st.root.head = root.head
        /\ \A q \in Pages : /\ st.pages[q].recs = pages[q].recs
                            /\ st.pages[q].nextFree = pages[q].nextFree
                            /\ st.pages[q].prevFree = pages[q].prevFree
    BY <1>0, <2>2, AddDataFacts
  <2>5. /\ st.root.totalFree = root.totalFree
        /\ st.root.dataHead = p
        /\ st.root.dataTail = IF root.dataHead = NullRef THEN p ELSE root.dataTail
        /\ st.root.totalData = root.totalData + 1
        /\ \A q \in Pages :
             /\ st.pages[q].prev = IF q = p THEN NullRef
                                   ELSE IF q = root.dataHead THEN p ELSE pages[q].prev
             /\ st.pages[q].next = IF q = p THEN root.dataHead ELSE pages[q].next
    BY <1>0, <2>2, AddDataTotals
  <2> DEFINE sr == st.root
             sp == st.pages
             af == AddFreePage(sr, sp, p, k)
  <2>6. /\ af.pages \in [Pages -> DataPageType]
        /\ \A q \in Pages :
             /\ af.pages[q].recs = sp[q].recs
             /\ af.pages[q].nextFree = IF q = p THEN sr.head[k] ELSE sp[q].nextFree
             /\ af.pages[q].prevFree = IF q = p THEN RootRef
                                       ELSE IF q = sr.head[k] THEN p ELSE sp[q].prevFree
    <3>1. sr \in RootType /\ sp \in [Pages -> DataPageType] /\ k \in 0 .. (sr.cur - 1)
      BY <2>3, <2>4
    <3> HIDE DEF sr, sp, st
    <3> QED BY <2>2, <3>1, AddFreePages
  <2>7. /\ af.root.totalFree = sr.totalFree + 1
        /\ af.root.dataHead = sr.dataHead
        /\ af.root.dataTail = sr.dataTail
        /\ af.root.totalData = sr.totalData
        /\ \A q \in Pages : /\ af.pages[q].prev = sp[q].prev
                            /\ af.pages[q].next = sp[q].next
    <3>1. sr \in RootType /\ sp \in [Pages -> DataPageType] /\ k \in 0 .. (sr.cur - 1)
      BY <2>3, <2>4
    <3> HIDE DEF sr, sp, st
    <3> QED BY <2>2, <3>1, AddFreeTotals
  <2>8. (last => fr = st) /\ (~last => fr = af)
    OBVIOUS
  <2> HIDE DEF fr, af, st, last
  <2>9. /\ fr.pages \in [Pages -> DataPageType]
        /\ \A q \in Pages : fr.pages[q].recs = pages[q].recs
    BY <2>4, <2>6, <2>8
  <2>10. /\ \A q \in Pages : SameLinks(fr.pages[q], pages'[q])
         /\ \A q \in Pages \ {p} : pages'[q] = fr.pages[q]
         /\ pc' = [pc EXCEPT ![t] = "commit"]
         /\ loc' = [loc EXCEPT ![t] = NoLocals]
    BY <1>8, <2>1, <2>2, <2>9 DEF p
  <2>11. \A q \in Pages :
           /\ pages'[q].nextFree = fr.pages[q].nextFree
           /\ pages'[q].prevFree = fr.pages[q].prevFree
           /\ pages'[q].prev = fr.pages[q].prev
           /\ pages'[q].next = fr.pages[q].next
    BY <2>10 DEF SameLinks
  <2>12. FreeEffect
    <3>1. CASE last
      <4>1. SameFree
        BY <2>1, <2>4, <2>5, <2>8, <2>11, <3>1 DEF SameFree
      <4> QED BY <4>1 DEF FreeEffect
    <3>2. CASE ~last
      <4>1. root'.totalFree = root.totalFree + 1
        BY <2>1, <2>5, <2>7, <2>8, <3>2
      <4>2. \A q \in Pages :
              /\ pages'[q].nextFree = IF q = p THEN root.head[k] ELSE pages[q].nextFree
              /\ pages'[q].prevFree = IF q = p THEN RootRef
                                      ELSE IF q = root.head[k] THEN p ELSE pages[q].prevFree
        BY <2>4, <2>6, <2>8, <2>11, <3>2
      <4> QED BY <2>2, <2>3, <4>1, <4>2, AddEffect
    <3> QED BY <3>1, <3>2
  <2>13. /\ root'.dataHead = p
         /\ root'.dataTail = IF root.dataHead = NullRef THEN p ELSE root.dataTail
         /\ root'.totalData = root.totalData + 1
         /\ \A q \in Pages :
              /\ pages'[q].prev = IF q = p THEN NullRef
                                  ELSE IF q = root.dataHead THEN p ELSE pages[q].prev
              /\ pages'[q].next = IF q = p THEN root.dataHead ELSE pages[q].next
    BY <2>1, <2>5, <2>7, <2>8, <2>11
  <2>14. \A u \in Threads \ {t} : pc'[u] = pc[u] /\ loc'[u] = loc[u] /\ pc[u] # "ins_head"
    <3>1. \A u \in Threads \ {t} : pc'[u] = pc[u] /\ loc'[u] = loc[u]
      BY <2>10 DEF TypeInv, TypeOK
    <3>2. held[t][RootRef] = "X" /\ RootRef \in Latchable
      BY <1>0, <2>1 DEF LatchShape, RootAndPagePcs, Latchable
    <3>3. \A u \in Threads \ {t} : held[u][RootRef] = "none"
      BY <3>2 DEF LatchInv, LatchesExclude
    <3>4. \A u \in Threads : pc[u] = "ins_head" => held[u][RootRef] = "X"
      BY DEF LatchInv, LatchShapes, LatchShape, RootAndPagePcs
    <3> QED BY <3>1, <3>3, <3>4
  <2>15. pc'[t] = "commit"
    BY <2>10 DEF TypeInv, TypeOK
  <2>16. ASSUME NEW q \in Pages, q # p, HasData(q)' PROVE HasData(q)
    <3>1. CASE Stored(pages'[q]) # {}
      <4>1. pages'[q].recs = pages[q].recs
        BY <2>9, <2>10, <2>16
      <4> QED BY <3>1, <4>1 DEF HasData, Stored
    <3>2. CASE pages'[q].prevFree # NullRef
      <4>1. pages[q].prevFree # NullRef
        <5>1. q = root.head[k] => pages[q].prevFree = RootRef
          BY <1>0, <2>3, PageAssumption DEF Linked
        <5>2. CASE last
          BY <2>4, <2>8, <2>11, <3>2, <5>2
        <5>3. CASE ~last
          BY <2>4, <2>6, <2>8, <2>11, <2>16, <3>2, <5>1, <5>3, PageAssumption
        <5> QED BY <5>2, <5>3
      <4> QED BY <4>1 DEF HasData
    <3>3. CASE \E u \in Threads : pc'[u] = "pur_slot" /\ loc'[u].page = q
      BY <2>14, <2>15, <3>3 DEF HasData
    <3> QED BY <2>16, <3>1, <3>2, <3>3 DEF HasData
  <2>17. AddsData(t)
    <3>1. \A q \in Pages : HasData(q)' => HasData(q) \/ q = p
      BY <2>16
    <3>2. \A u \in Threads : pc'[u] # "ins_head"
      BY <2>14, <2>15
    <3> QED BY <2>1, <2>2, <2>13, <3>1, <3>2 DEF AddsData, p
  <2> QED BY <2>12, <2>17 DEF DataEffect
<1> QED BY <1>1, <1>2, <1>3, <1>4, <1>5, <1>6, <1>9, <1>10, <1>11 DEF InsertStep

\* A page that holds a record is on the list of all pages.
LEMMA StoredHasData ==
  ASSUME NEW p \in Pages, NEW i \in RecIndexes, pages[p].recs[i] # FreeRec
  PROVE  HasData(p)
BY BitmapCovers DEF HasData, Stored

\* A step that writes records of one page.
LEMMA OneWriteEffect ==
  ASSUME TypeInv, NEW t \in Threads, UNCHANGED root, NEW p \in Pages, HasData(p),
         NEW pg, SameLinks(pages[p], pg), pages' = [pages EXCEPT ![p] = pg],
         NEW l, pc' = [pc EXCEPT ![t] = l], l # "ins_head",
         NEW v, loc' = [loc EXCEPT ![t] = v], l = "pur_slot" => v.page = p
  PROVE  FreeEffect /\ DataEffect
<1>1. pages'[p] = pg /\ \A q \in Pages \ {p} : pages'[q] = pages[q]
  BY DEF TypeInv, TypeOK
<1>2. \A q \in Pages : SameLinks(pages[q], pages'[q])
  BY <1>1 DEF SameLinks
<1> QED BY <1>1, <1>2, WriteEffect

\* The steps of a purge.
LEMMA EffectPurge ==
  ASSUME TypeInv, ListInv, NEW t \in Threads, PurgeStep(t)
  PROVE  FreeEffect /\ DataEffect
<1> DEFINE p == loc[t].page
           i == loc[t].index
           x == loc[t].trx
<1>0. /\ root \in RootType /\ root.cur \in 1 .. MaxSlots
      /\ used \subseteq Pages /\ pages \in [Pages -> DataPageType]
      /\ loc[t] \in Locals /\ loc = [loc EXCEPT ![t] = loc[t]]
      /\ CallOK(pc[t], loc[t], cache[t], root.cur, used)
      /\ ListPc(pc[t], loc[t], cache[t], root, pages)
      /\ Linked(root, pages, used)
  BY Typed, LinkedDef DEF ListInv, ListPcs
<1>1. ASSUME pc[t] \in PurgePcs
      PROVE  p \in Pages /\ p \in used /\ i \in RecIndexes /\ i \in BitmapPositions
  BY <1>0, <1>1, BitmapCovers DEF CallOK, Locals
<1>2. CASE PurgeLatchRoot(t)
  <2>1. /\ pc' = [pc EXCEPT ![t] = "pur_reload"] /\ UNCHANGED <<root, pages>>
        /\ loc' = [loc EXCEPT ![t] = loc[t]]
    BY <1>0, <1>2 DEF PurgeLatchRoot, Goto
  <2> QED BY <2>1, QuietEffect
<1>3. CASE PurgeReloaded(t)
  <2>1. /\ pc[t] \in PurgePcs /\ UNCHANGED root
        /\ pc' = [pc EXCEPT ![t] = "commit"] /\ loc' = [loc EXCEPT ![t] = NoLocals]
    BY <1>3 DEF PurgeReloaded, At, PurgePcs, Return, Goto
  <2>2. CASE Purges(pages[p], i, x)
    <3>1. pages' = [pages EXCEPT ![p] = PurgeRecord(pages[p], i)]
      BY <1>3, <2>2 DEF PurgeReloaded
    <3>2. HasData(p) /\ p \in Pages
      BY <1>1, <2>1, <2>2, StoredHasData DEF Purges
    <3>3. SameLinks(pages[p], PurgeRecord(pages[p], i))
      BY <1>0, <1>1, <2>1, RecordWritesKeepLinks
    <3> HIDE DEF p, i, x
    <3> QED BY <2>1, <3>1, <3>2, <3>3, CommitLabel, OneWriteEffect
  <2>3. CASE ~ Purges(pages[p], i, x)
    <3>1. pages' = [pages EXCEPT ![p] = pages[p]]
      BY <1>3, <2>3 DEF PurgeReloaded
    <3>2. UNCHANGED pages
      BY <1>0, <3>1
    <3> QED BY <2>1, <3>2, QuietEffect
  <2> QED BY <2>2, <2>3
<1>4. CASE PurgeReloadedRelist(t)
  <2>1. /\ pc[t] \in PurgePcs /\ UNCHANGED root /\ Purges(pages[p], i, x)
        /\ pc' = [pc EXCEPT ![t] = "pur_slot"]
        /\ pages' = [pages EXCEPT ![p] = PurgeRecord(pages[p], i)]
    BY <1>4 DEF PurgeReloadedRelist, At, PurgePcs, Goto
  <2>2. PICK k : loc' = [loc EXCEPT ![t] = [loc[t] EXCEPT !.slot = k]]
    BY <1>4 DEF PurgeReloadedRelist
  <2> DEFINE v == [loc[t] EXCEPT !.slot = k]
  <2>3. v.page = p /\ loc' = [loc EXCEPT ![t] = v]
    BY <1>0, <2>2 DEF Locals
  <2> HIDE DEF v
  <2>4. HasData(p) /\ p \in Pages
    BY <1>1, <2>1, StoredHasData DEF Purges
  <2>5. SameLinks(pages[p], PurgeRecord(pages[p], i))
    BY <1>0, <1>1, <2>1, RecordWritesKeepLinks
  <2> HIDE DEF p, i, x
  <2> QED BY <2>1, <2>3, <2>4, <2>5, OneWriteEffect
<1>5. CASE PurgeRelist(t)
  <2> DEFINE k == loc[t].slot
             st == AddFreePage(root, pages, p, k)
  <2>1. /\ pc[t] = "pur_slot" /\ root' = st.root /\ pages' = st.pages
        /\ pc' = [pc EXCEPT ![t] = "commit"] /\ loc' = [loc EXCEPT ![t] = NoLocals]
    BY <1>5 DEF PurgeRelist, At, Return, Goto
  <2>2. /\ p \in Pages /\ k < root.cur /\ k \in SlotNumbers \cup {INVALID_SLOT}
        /\ pages[p].slot = INVALID_SLOT /\ HasData(p)
    BY <1>0, <1>1, <2>1 DEF CallOK, Locals, PurgePcs, ListPc, HasData
  <2>3. k \in 0 .. (root.cur - 1)
    BY <1>0, <2>2, SlotBelow
  <2> HIDE DEF p, k
  <2>4. \A q \in Pages :
          /\ st.pages[q].recs = pages[q].recs
          /\ st.pages[q].nextFree = IF q = p THEN root.head[k] ELSE pages[q].nextFree
          /\ st.pages[q].prevFree = IF q = p THEN RootRef
                                    ELSE IF q = root.head[k] THEN p ELSE pages[q].prevFree
    BY <1>0, <2>2, <2>3, AddFreePages
  <2>5. /\ st.root.totalFree = root.totalFree + 1
        /\ st.root.dataHead = root.dataHead
        /\ st.root.dataTail = root.dataTail
        /\ st.root.totalData = root.totalData
        /\ \A q \in Pages : st.pages[q].prev = pages[q].prev /\ st.pages[q].next = pages[q].next
    BY <1>0, <2>2, <2>3, AddFreeTotals
  <2> HIDE DEF st
  <2>6. FreeEffect
    BY <2>1, <2>2, <2>3, <2>4, <2>5, AddEffect
  <2>7. SameData
    BY <1>0, <2>1, <2>5 DEF SameData
  <2>8. ASSUME NEW q \in Pages
        PROVE  /\ Stored(pages'[q]) # {} => HasData(q)
               /\ pages'[q].prevFree # NullRef => HasData(q)
    <3>1. Stored(pages'[q]) = Stored(pages[q])
      BY <2>1, <2>4 DEF Stored
    <3>2. q = root.head[k] => pages[q].prevFree = RootRef
      BY <1>0, <2>3, PageAssumption DEF Linked
    <3>3. pages'[q].prevFree # NullRef => q = p \/ pages[q].prevFree # NullRef
      BY <2>1, <2>4, <3>2, PageAssumption
    <3> QED BY <2>2, <3>1, <3>3 DEF HasData
  <2>9. DataEffect
    BY <2>1, <2>7, <2>8, CommitLabel, StepKeepsData
  <2> QED BY <2>6, <2>9
<1> QED BY <1>2, <1>3, <1>4, <1>5 DEF PurgeStep

\* Every step.
LEMMA StepOnLists ==
  ASSUME TypeInv, LatchInv, ListInv, RecordInv, [Next]_vars
  PROVE  FreeEffect /\ DataEffect
<1>1. CASE UNCHANGED vars
  <2>1. SameFree /\ KeepsData
    BY <1>1 DEF vars, SameFree, KeepsData, SameData, HasData
  <2> QED BY <2>1 DEF FreeEffect, DataEffect
<1>2. ASSUME NEW t \in Threads, NEW l \in {"idle", "commit", "ins_root_s", "pur_root"},
             pc' = [pc EXCEPT ![t] = l], NEW v, loc' = [loc EXCEPT ![t] = v],
             UNCHANGED <<root, pages>>
      PROVE  FreeEffect /\ DataEffect
  BY <1>2, QuietEffect
<1>3. \A t \in Threads : loc = [loc EXCEPT ![t] = loc[t]] /\ pc = [pc EXCEPT ![t] = pc[t]]
  BY Typed
<1>4. ASSUME NEW t \in Threads, NEW p \in Pages, NEW i \in RecIndexes,
             pages[p].recs[i] # FreeRec, NEW pg, SameLinks(pages[p], pg),
             pages' = [pages EXCEPT ![p] = pg], Goto(t, "commit"), UNCHANGED <<root, loc>>
      PROVE  FreeEffect /\ DataEffect
  <2>1. HasData(p) /\ pc' = [pc EXCEPT ![t] = "commit"] /\ loc' = [loc EXCEPT ![t] = loc[t]]
    BY <1>3, <1>4, StoredHasData DEF Goto
  <2> QED BY <1>4, <2>1, CommitLabel, OneWriteEffect
<1>5. ASSUME NEW t \in Threads, NEW p \in Pages, NEW i \in RecIndexes
      PROVE  /\ pages[p] \in DataPageType /\ i \in BitmapPositions
             /\ SameLinks(pages[p], PurgeRecord(pages[p], i))
             /\ \A x, m : SameLinks(pages[p], MarkRecord(pages[p], i, x, m))
             /\ \A d : SameLinks(pages[p], [pages[p] EXCEPT !.recs[i].data = d])
  <2>1. pages[p] \in DataPageType /\ i \in BitmapPositions
    BY BitmapCovers DEF TypeInv, TypeOK
  <2> QED BY <2>1, RecordWritesKeepLinks
<1>6. ASSUME NEW t \in Threads, NEW x \in Trx, NEW d \in Data, InsertCall(t, x, d)
      PROVE  FreeEffect /\ DataEffect
  <2>1. PICK v : /\ pc' = [pc EXCEPT ![t] = "ins_root_s"] /\ loc' = [loc EXCEPT ![t] = v]
                 /\ UNCHANGED <<root, pages>>
    BY <1>6 DEF InsertCall, Goto
  <2> QED BY <1>2, <2>1
<1>7. ASSUME NEW t \in Threads, NEW p \in Pages, NEW i \in RecIndexes, NEW x \in Trx,
             PurgeInPlace(t, p, i, x)
      PROVE  FreeEffect /\ DataEffect
  <2>1. Goto(t, "commit") /\ UNCHANGED <<root, loc>>
    BY <1>7 DEF PurgeInPlace
  <2>2. CASE Purges(pages[p], i, x)
    <3>1. pages' = [pages EXCEPT ![p] = PurgeRecord(pages[p], i)]
      BY <1>7, <2>2 DEF PurgeInPlace
    <3>2. pages[p].recs[i] # FreeRec
      BY <2>2 DEF Purges
    <3> QED BY <1>4, <1>5, <2>1, <3>1, <3>2
  <2>3. CASE ~ Purges(pages[p], i, x)
    <3>1. /\ UNCHANGED <<root, pages>> /\ pc' = [pc EXCEPT ![t] = "commit"]
          /\ loc' = [loc EXCEPT ![t] = loc[t]]
      BY <1>3, <1>7, <2>1, <2>3 DEF PurgeInPlace, Goto
    <3> QED BY <1>2, <3>1
  <2> QED BY <2>2, <2>3
<1>8. ASSUME NEW t \in Threads, NEW p \in Pages, NEW i \in RecIndexes, NEW x \in Trx,
             PurgeNeedsRoot(t, p, i, x)
      PROVE  FreeEffect /\ DataEffect
  <2>1. PICK v : /\ pc' = [pc EXCEPT ![t] = "pur_root"] /\ loc' = [loc EXCEPT ![t] = v]
                 /\ UNCHANGED <<root, pages>>
    BY <1>8 DEF PurgeNeedsRoot, Goto
  <2> QED BY <1>2, <2>1
<1>9. ASSUME NEW t \in Threads, NEW p \in Pages, NEW i \in RecIndexes, NEW x \in Trx,
             NEW m \in BOOLEAN, MarkDelete(t, p, i, x, m)
      PROVE  FreeEffect /\ DataEffect
  <2>1. /\ Goto(t, "commit") /\ UNCHANGED <<root, loc>> /\ pages[p].recs[i] # FreeRec
        /\ pages' = [pages EXCEPT ![p] = MarkRecord(pages[p], i, x, m)]
    BY <1>9 DEF MarkDelete
  <2> QED BY <1>4, <1>5, <2>1
<1>10. ASSUME NEW t \in Threads, NEW p \in Pages, NEW i \in RecIndexes, NEW d \in Data,
              Update(t, p, i, d)
       PROVE  FreeEffect /\ DataEffect
  <2>1. Goto(t, "commit") /\ UNCHANGED <<root, loc>>
    BY <1>10 DEF Update
  <2>2. CASE pages[p].recs[i] # FreeRec
    <3>1. pages' = [pages EXCEPT ![p] = [pages[p] EXCEPT !.recs[i].data = d]]
      BY <1>10, <2>2 DEF Update
    <3>2. SameLinks(pages[p], [pages[p] EXCEPT !.recs[i].data = d])
      BY <1>5
    <3> QED BY <1>4, <2>1, <2>2, <3>1, <3>2
  <2>3. CASE pages[p].recs[i] = FreeRec
    <3>1. /\ UNCHANGED <<root, pages>> /\ pc' = [pc EXCEPT ![t] = "commit"]
          /\ loc' = [loc EXCEPT ![t] = loc[t]]
      BY <1>3, <1>10, <2>1, <2>3 DEF Update, Goto
    <3> QED BY <1>2, <3>1
  <2> QED BY <2>2, <2>3
<1>11. ASSUME NEW t \in Threads,
              \/ \E p \in Pages : Fetch(t, p) \/ FetchForUpdate(t, p)
              \/ Commit(t) \/ InsertElsewhere(t) \/ LoadFails(t)
       PROVE  FreeEffect /\ DataEffect
  <2>0. PICK l \in {"idle", "commit"} :
          /\ pc' = [pc EXCEPT ![t] = l]
          /\ \E v : loc' = [loc EXCEPT ![t] = v]
          /\ UNCHANGED <<root, pages>>
    <3>1. CASE \E p \in Pages : Fetch(t, p) \/ FetchForUpdate(t, p)
      BY <1>3, <3>1 DEF Fetch, FetchForUpdate, Goto
    <3>2. CASE Commit(t)
      BY <1>3, <3>2 DEF Commit, Goto
    <3>3. CASE InsertElsewhere(t)
      BY <1>3, <3>3 DEF InsertElsewhere
    <3>4. CASE LoadFails(t)
      BY <1>3, <3>4 DEF LoadFails, Return, Goto
    <3> QED BY <1>11, <3>1, <3>2, <3>3, <3>4
  <2>1. PICK v :
          /\ pc' = [pc EXCEPT ![t] = l] /\ loc' = [loc EXCEPT ![t] = v]
          /\ UNCHANGED <<root, pages>>
    BY <2>0
  <2> QED BY <1>2, <2>1
<1>12. CASE Next
  BY <1>6, <1>7, <1>8, <1>9, <1>10, <1>11, <1>12, EffectInsert, EffectPurge, Zenon DEF Next
<1> QED BY <1>1, <1>12

-------------------------------------------------------------------------------
(* The invariants of the lists.                                            *)

\* There is no circle of free pages, and the root page counts them.
FreeOrder(rank) ==
  \A p \in Pages : pages[p].nextFree # NullRef => rank[p] < rank[pages[p].nextFree]

FreePages == {p \in Pages : pages[p].prevFree # NullRef}

FreeInv ==
  /\ \E rank \in [Pages -> Nat] : FreeOrder(rank)
  /\ root.totalFree = Cardinality(FreePages)

\* D are the pages on the list of all pages: linked both ways without a circle,
\* between the recorded ends, counted, and all that have data.
DataList(D, rank) ==
  /\ root.dataHead \in D \cup {NullRef}
  /\ D # {} => root.dataHead \in D /\ root.dataTail \in D
  /\ \A p \in D :
       /\ pages[p].next \in D \cup {NullRef}
       /\ pages[p].next # NullRef => rank[p] < rank[pages[p].next]
       /\ (p = root.dataHead) <=> (pages[p].prev = NullRef)
       /\ (p = root.dataTail) <=> (pages[p].next = NullRef)
       /\ p # root.dataHead => pages[p].prev \in D /\ pages[pages[p].prev].next = p
  /\ root.totalData = Cardinality(D)
  /\ \A p \in Pages : HasData(p) => p \in D
  /\ \A t \in Threads : pc[t] = "ins_head" => loc[t].page \notin D

DataInv == \E D \in SUBSET used, rank \in [Pages -> Nat] : DataList(D, rank)

LEMMA FreeInvStep ==
  ASSUME TypeInv, TypeInv', ListInv, FreeInv, FreeEffect
  PROVE  FreeInv'
<1>0. /\ IsFiniteSet(FreePages) /\ Cardinality(FreePages) \in Nat
      /\ NullRef \notin Pages
      /\ \A q \in Pages : /\ pages[q].nextFree \in Pages \cup {NullRef}
                          /\ pages'[q].nextFree \in Pages \cup {NullRef}
  <2>1. IsFiniteSet(FreePages)
    BY PageAssumption, FS_Subset DEF FreePages
  <2>2. \A q \in Pages : /\ pages[q].nextFree \in Pages \cup {NullRef}
                         /\ pages'[q].nextFree \in Pages \cup {NullRef}
    <3>1. pages \in [Pages -> DataPageType] /\ pages' \in [Pages -> DataPageType]
      BY DEF TypeInv, TypeOK
    <3> QED BY <3>1, PageFields
  <2> QED BY <2>1, <2>2, FS_CardinalityType, PageAssumption
<1>1. PICK rank \in [Pages -> Nat] : FreeOrder(rank)
  BY DEF FreeInv
<1>2. FreePages' = {p \in Pages : pages'[p].prevFree # NullRef}
  BY DEF FreePages
<1>3. CASE SameFree
  <2>1. FreeOrder(rank)' /\ FreePages' = FreePages
    BY <1>1, <1>3 DEF SameFree, FreeOrder, FreePages
  <2> QED BY <1>3, <2>1 DEF FreeInv, SameFree
<1>4. ASSUME NEW p \in Pages, AddsFree(p) PROVE FreeInv'
  <2> DEFINE up == [q \in Pages |-> IF q = p THEN 0 ELSE rank[q] + 1]
  <2>1. up \in [Pages -> Nat]
    OBVIOUS
  <2>2. ASSUME NEW q \in Pages, pages'[q].nextFree # NullRef
        PROVE  up[q] < up[pages'[q].nextFree]
    <3>1. pages'[q].nextFree \in Pages
      BY <1>0, <2>2
    <3>2. CASE q = p
      <4>1. pages'[q].nextFree # p
        BY <1>4, <3>2 DEF AddsFree
      <4> QED BY <3>1, <3>2, <4>1
    <3>3. CASE q # p
      <4>1. pages'[q].nextFree = pages[q].nextFree /\ pages[q].nextFree # p
        BY <1>4, <3>3 DEF AddsFree
      <4>2. rank[q] < rank[pages[q].nextFree]
        BY <1>1, <2>2, <4>1 DEF FreeOrder
      <4> QED BY <3>1, <3>3, <4>1, <4>2
    <3> QED BY <3>2, <3>3
  <2>3. FreeOrder(up)'
    <3> HIDE DEF up
    <3> QED BY <2>2 DEF FreeOrder, up
  <2>4. FreePages' = FreePages \cup {p} /\ p \notin FreePages
    BY <1>2, <1>4 DEF AddsFree, FreePages
  <2>5. Cardinality(FreePages') = Cardinality(FreePages) + 1
    BY <1>0, <2>4, FS_AddElement
  <2>6. root'.totalFree = Cardinality(FreePages')
    BY <1>4, <2>5 DEF AddsFree, FreeInv
  <2> HIDE DEF up
  <2> QED BY <2>1, <2>3, <2>6 DEF FreeInv
<1>5. ASSUME NEW p \in Pages, RemovesFree(p) PROVE FreeInv'
  <2>1. ASSUME NEW q \in Pages, pages'[q].nextFree # NullRef
        PROVE  rank[q] < rank[pages'[q].nextFree]
    <3>1. q # p
      BY <1>5, <2>1 DEF RemovesFree
    <3>2. CASE q = pages[p].prevFree
      <4>1. pages'[q].nextFree = pages[p].nextFree
        BY <1>5, <3>1, <3>2 DEF RemovesFree
      <4>2. pages[q].nextFree = p
        BY <3>2 DEF ListInv, FreeListsLinked
      <4>3. rank[q] < rank[p] /\ rank[p] < rank[pages[p].nextFree]
        BY <1>0, <1>1, <2>1, <4>1, <4>2 DEF FreeOrder
      <4>4. pages[p].nextFree \in Pages
        BY <1>0, <2>1, <4>1
      <4> QED BY <4>1, <4>3, <4>4
    <3>3. CASE q # pages[p].prevFree
      <4>1. pages'[q].nextFree = pages[q].nextFree
        BY <1>5, <3>1, <3>3 DEF RemovesFree
      <4> QED BY <1>1, <2>1, <4>1 DEF FreeOrder
    <3> QED BY <3>2, <3>3
  <2>2. FreeOrder(rank)'
    BY <2>1 DEF FreeOrder
  <2>3. FreePages' = FreePages \ {p} /\ p \in FreePages
    BY <1>2, <1>5 DEF RemovesFree, FreePages
  <2>4. Cardinality(FreePages') = Cardinality(FreePages) - 1
    BY <1>0, <2>3, FS_RemoveElement
  <2>5. root'.totalFree = Cardinality(FreePages')
    BY <1>5, <2>4 DEF RemovesFree, FreeInv
  <2> QED BY <2>2, <2>5 DEF FreeInv
<1> QED BY <1>3, <1>4, <1>5 DEF FreeEffect

LEMMA DataInvStep ==
  ASSUME TypeInv, DataInv, DataEffect, used \subseteq used'
  PROVE  DataInv'
<1>0. used \subseteq Pages /\ IsFiniteSet(Pages) /\ NullRef \notin Pages
  BY PageAssumption DEF TypeInv, TypeOK
<1>1. PICK D \in SUBSET used, rank \in [Pages -> Nat] : DataList(D, rank)
  BY DEF DataInv
<1>2. CASE KeepsData
  <2>1. /\ root'.dataHead = root.dataHead /\ root'.dataTail = root.dataTail
        /\ root'.totalData = root.totalData
        /\ \A q \in D : pages'[q].prev = pages[q].prev /\ pages'[q].next = pages[q].next
    BY <1>1, <1>2 DEF KeepsData, SameData
  <2>2. \A p \in Pages : HasData(p)' => p \in D
    BY <1>1, <1>2 DEF KeepsData, DataList
  <2>3. \A t \in Threads : pc'[t] = "ins_head" => loc'[t].page \notin D
    BY <1>1, <1>2 DEF KeepsData, DataList
  <2>4. \A p \in D :
          /\ pages'[p].next \in D \cup {NullRef}
          /\ pages'[p].next # NullRef => rank[p] < rank[pages'[p].next]
          /\ (p = root'.dataHead) <=> (pages'[p].prev = NullRef)
          /\ (p = root'.dataTail) <=> (pages'[p].next = NullRef)
          /\ p # root'.dataHead => pages'[p].prev \in D /\ pages'[pages'[p].prev].next = p
    BY <1>1, <2>1 DEF DataList
  <2>5. /\ root'.dataHead \in D \cup {NullRef}
        /\ D # {} => root'.dataHead \in D /\ root'.dataTail \in D
        /\ root'.totalData = Cardinality(D)
    BY <1>1, <2>1 DEF DataList
  <2>6. DataList(D, rank)'
    BY <2>2, <2>3, <2>4, <2>5, Zenon DEF DataList
  <2> QED BY <2>6 DEF DataInv
<1>3. ASSUME NEW t \in Threads, AddsData(t) PROVE DataInv'
  <2>a. PICK p, old : p = loc[t].page /\ old = root.dataHead
    OBVIOUS
  <2>b. PICK E, up : /\ E = D \cup {p}
                     /\ up = [q \in Pages |-> IF q = p THEN 0 ELSE rank[q] + 1]
    OBVIOUS
  <2>1. /\ p \in used /\ p \notin D /\ p \in Pages
    BY <1>0, <1>1, <1>3, <2>a DEF AddsData, DataList
  <2>2. /\ root'.dataHead = p
        /\ root'.dataTail = IF old = NullRef THEN p ELSE root.dataTail
        /\ root'.totalData = root.totalData + 1
        /\ \A q \in Pages :
             /\ pages'[q].prev = IF q = p THEN NullRef ELSE IF q = old THEN p ELSE pages[q].prev
             /\ pages'[q].next = IF q = p THEN old ELSE pages[q].next
    BY <1>3, <2>a DEF AddsData
  <2>3. \A q \in Pages : HasData(q)' => q \in E
    BY <1>1, <1>3, <2>a, <2>b DEF AddsData, DataList
  <2>4. \A u \in Threads : pc'[u] = "ins_head" => loc'[u].page \notin E
    BY <1>3, <2>a, <2>b DEF AddsData
  <2>5. old \in D \cup {NullRef} /\ (D # {} => old \in D /\ root.dataTail \in D)
    BY <1>1, <2>a DEF DataList
  <2>6. E \in SUBSET used' /\ up \in [Pages -> Nat]
    BY <1>1, <2>1, <2>b
  <2>7. ASSUME NEW q \in E
        PROVE  /\ pages'[q].next \in E \cup {NullRef}
               /\ pages'[q].next # NullRef => up[q] < up[pages'[q].next]
    <3>1. CASE q = p
      <4>1. pages'[q].next = old
        BY <2>1, <2>2, <3>1
      <4>2. old # NullRef => old \in D /\ old \in Pages /\ old # p
        BY <1>0, <1>1, <2>1, <2>5
      <4>3. old # NullRef => up[q] < up[old]
        BY <2>b, <2>1, <3>1, <4>2
      <4> QED BY <2>b, <4>1, <4>2, <4>3
    <3>2. CASE q # p
      <4>1. q \in D /\ q \in Pages
        BY <1>0, <1>1, <2>b, <3>2
      <4>2. pages'[q].next = pages[q].next
        BY <2>2, <3>2, <4>1
      <4>3. /\ pages[q].next \in D \cup {NullRef}
            /\ pages[q].next # NullRef => rank[q] < rank[pages[q].next]
        BY <1>1, <4>1 DEF DataList
      <4>4. pages[q].next # NullRef => pages[q].next \in Pages /\ pages[q].next # p
        BY <1>0, <1>1, <2>1, <4>3
      <4>5. pages[q].next # NullRef => up[q] < up[pages[q].next]
        BY <2>b, <3>2, <4>1, <4>3, <4>4
      <4> QED BY <2>b, <4>2, <4>3, <4>5
    <3> QED BY <3>1, <3>2
  <2>8. ASSUME NEW q \in E
        PROVE  /\ (q = root'.dataHead) <=> (pages'[q].prev = NullRef)
               /\ (q = root'.dataTail) <=> (pages'[q].next = NullRef)
               /\ q # root'.dataHead => pages'[q].prev \in E /\ pages'[pages'[q].prev].next = q
    <3>1. CASE q = p
      <4>1. pages'[q].prev = NullRef /\ pages'[q].next = old
        BY <2>1, <2>2, <3>1
      <4>2. (q = root'.dataTail) <=> (old = NullRef)
        BY <1>0, <1>1, <2>1, <2>2, <2>5, <3>1
      <4> QED BY <2>2, <3>1, <4>1, <4>2
    <3>2. CASE q # p /\ q = old
      <4>1. q \in D /\ q \in Pages /\ old # NullRef
        BY <1>0, <1>1, <2>b, <3>2
      <4>2. pages'[q].prev = p /\ pages'[q].next = pages[q].next /\ pages'[p].next = q
        BY <2>1, <2>2, <3>2, <4>1
      <4>3. (q = root.dataTail) <=> (pages[q].next = NullRef)
        BY <1>1, <4>1 DEF DataList
      <4> QED BY <1>0, <2>b, <2>1, <2>2, <3>2, <4>1, <4>2, <4>3
    <3>3. CASE q # p /\ q # old
      <4>1. q \in D /\ q \in Pages /\ old # NullRef
        BY <1>0, <1>1, <2>b, <2>5, <3>3
      <4>2. pages'[q].prev = pages[q].prev /\ pages'[q].next = pages[q].next
        BY <2>2, <3>3, <4>1
      <4>3. /\ pages[q].prev # NullRef
            /\ (q = root.dataTail) <=> (pages[q].next = NullRef)
            /\ pages[q].prev \in D /\ pages[pages[q].prev].next = q
        BY <1>1, <2>a, <3>3, <4>1 DEF DataList
      <4>4. pages[q].prev # p /\ pages[q].prev \in Pages
        BY <1>0, <1>1, <2>1, <4>3
      <4>5. pages'[pages[q].prev].next = q
        BY <2>2, <4>3, <4>4
      <4> QED BY <2>b, <2>2, <3>3, <4>1, <4>2, <4>3, <4>5
    <3> QED BY <3>1, <3>2, <3>3
  <2>9. IsFiniteSet(D) /\ Cardinality(D) \in Nat /\ root.totalData = Cardinality(D)
    <3>1. IsFiniteSet(D)
      BY <1>0, <1>1, FS_Subset
    <3> QED BY <1>1, <3>1, FS_CardinalityType DEF DataList
  <2>10. root'.totalData = Cardinality(E)
    <3>1. Cardinality(D \cup {p}) = Cardinality(D) + 1
      BY <2>1, <2>9, FS_AddElement
    <3> QED BY <2>b, <2>2, <2>9, <3>1
  <2>11. /\ root'.dataHead \in E /\ root'.dataTail \in E
    BY <2>b, <2>2, <2>5, <1>0
  <2>12. DataList(E, up)'
    BY <2>3, <2>4, <2>7, <2>8, <2>10, <2>11, Zenon DEF DataList
  <2> QED BY <2>6, <2>12 DEF DataInv
<1> QED BY <1>2, <1>3 DEF DataEffect

LEMMA FreeInvInit == Init => FreeInv
<1> SUFFICES ASSUME Init PROVE FreeInv
  OBVIOUS
<1>1. /\ \A p \in Pages : pages[p].prevFree = NullRef /\ pages[p].nextFree = NullRef
      /\ root.totalFree = 0
  BY DEF Init, FormattedPage, FormattedRoot
<1>2. FreeOrder([p \in Pages |-> 0])
  BY <1>1 DEF FreeOrder
<1>3. FreePages = {}
  BY <1>1 DEF FreePages
<1>4. root.totalFree = Cardinality(FreePages)
  BY <1>1, <1>3, FS_EmptySet
<1>5. [p \in Pages |-> 0] \in [Pages -> Nat]
  OBVIOUS
<1> QED BY <1>2, <1>4, <1>5 DEF FreeInv

LEMMA DataInvInit == Init => DataInv
<1> SUFFICES ASSUME Init PROVE DataInv
  OBVIOUS
<1>1. /\ \A p \in Pages : pages[p] = FormattedPage
      /\ root.dataHead = NullRef /\ root.totalData = 0
      /\ \A t \in Threads : pc[t] = "idle"
  BY DEF Init, FormattedRoot
<1>2. \A p \in Pages : pages[p].prevFree = NullRef /\ Stored(pages[p]) = {}
  BY <1>1 DEF FormattedPage, Stored
<1>3. \A p \in Pages : ~HasData(p)
  BY <1>1, <1>2 DEF HasData
<1>4. Cardinality({}) = 0
  BY FS_EmptySet
<1>5. DataList({}, [p \in Pages |-> 0])
  BY <1>1, <1>3, <1>4 DEF DataList
<1>6. [p \in Pages |-> 0] \in [Pages -> Nat] /\ {} \in SUBSET used
  OBVIOUS
<1> QED BY <1>5, <1>6 DEF DataInv

LEMMA ListsInvariant == Spec => [](StoreInv /\ FreeInv /\ DataInv)
<1>1. Init => StoreInv /\ FreeInv /\ DataInv
  BY TypeInit, LatchInit, ListInit, RecordInit, FreeInvInit, DataInvInit DEF StoreInv
<1>2. StoreInv /\ FreeInv /\ DataInv /\ [Next]_vars => (StoreInv /\ FreeInv /\ DataInv)'
  <2> SUFFICES ASSUME StoreInv, FreeInv, DataInv, [Next]_vars
               PROVE  StoreInv' /\ FreeInv' /\ DataInv'
    OBVIOUS
  <2>1. StoreInv'
    BY TypeStep, LatchStep, ListStep, RecordInvStep DEF StoreInv
  <2>2. TypeInv /\ TypeInv' /\ LatchInv /\ ListInv /\ RecordInv
    BY <2>1 DEF StoreInv
  <2>3. FreeEffect /\ DataEffect
    BY <2>2, StepOnLists
  <2>4. FreeInv'
    BY <2>2, <2>3, FreeInvStep
  <2>5. DataInv'
    BY <2>2, <2>3, UsedGrows, DataInvStep
  <2> QED BY <2>1, <2>4, <2>5
<1> QED BY <1>1, <1>2, PTL DEF Spec

-------------------------------------------------------------------------------
(* Walking the lists.                                                      *)

\* The walk from slot k's head ends and meets the free pages of slot k.
LEMMA SlotWalk ==
  ASSUME StoreInv, FreeInv, NEW k \in 0 .. (root.cur - 1)
  PROVE  LET walk == Walk(root.head[k], [p \in Pages |-> pages[p].nextFree])
         IN  /\ Ends(walk)
             /\ PagesOf(walk) = {p \in FreePages : pages[p].slot = k}
<1> DEFINE nxt == [p \in Pages |-> pages[p].nextFree]
           D == {p \in FreePages : pages[p].slot = k}
           first == root.head[k]
<1>0. /\ NullRef \notin Pages /\ RootRef \notin Pages /\ RootRef # NullRef
      /\ pages \in [Pages -> DataPageType] /\ root \in RootType
      /\ FreeListsLinked
  BY PageAssumption DEF StoreInv, TypeInv, TypeOK, ListInv
<1>1. PICK rank \in [Pages -> Nat] : FreeOrder(rank)
  BY DEF FreeInv
<1>2. first \in D \cup {NullRef}
  <2>1. first \in Pages \cup {NullRef}
    BY <1>0, RootFields
  <2> QED BY <1>0, <2>1 DEF FreeListsLinked, FreePages
<1>3. ASSUME NEW p \in D
      PROVE  /\ nxt[p] \in D \cup {NullRef}
             /\ nxt[p] # NullRef => rank[p] < rank[nxt[p]]
             /\ p # first => \E q \in D : nxt[q] = p
  <2>1. /\ p \in Pages /\ pages[p].prevFree # NullRef /\ pages[p].slot = k
        /\ nxt[p] = pages[p].nextFree
    BY DEF FreePages
  <2>2. /\ pages[p].nextFree \in Pages \cup {NullRef}
        /\ pages[p].prevFree \in Pages \cup {RootRef, NullRef}
    BY <1>0, <2>1, PageFields
  <2>3. pages[p].nextFree # NullRef =>
          /\ pages[pages[p].nextFree].prevFree = p
          /\ pages[pages[p].nextFree].slot = k
    BY <1>0, <2>1, <2>2 DEF FreeListsLinked, OnFreeList
  <2>4. nxt[p] \in D \cup {NullRef}
    BY <1>0, <2>1, <2>2, <2>3 DEF FreePages
  <2>5. nxt[p] # NullRef => rank[p] < rank[nxt[p]]
    BY <1>1, <2>1 DEF FreeOrder
  <2>6. ASSUME p # first PROVE \E q \in D : nxt[q] = p
    <3> DEFINE q == pages[p].prevFree
    <3>1. q \in Pages
      BY <1>0, <2>1, <2>2, <2>6 DEF FreeListsLinked
    <3>2. pages[q].nextFree = p /\ pages[q].slot = k
      BY <1>0, <2>1, <3>1 DEF FreeListsLinked
    <3>3. pages[q].prevFree # NullRef
      BY <1>0, <2>1, <3>1, <3>2 DEF FreeListsLinked, OnFreeList
    <3> HIDE DEF q
    <3>4. q \in D /\ nxt[q] = p
      BY <3>1, <3>2, <3>3 DEF FreePages
    <3> QED BY <3>4
  <2> QED BY <2>4, <2>5, <2>6
<1>4. D \in SUBSET Pages
  BY DEF FreePages
<1> HIDE DEF nxt, D, first
<1>5. IsList(first, nxt, D, rank)
  BY <1>2, <1>3 DEF IsList
<1>6. Ends(Walk(first, nxt)) /\ PagesOf(Walk(first, nxt)) = D
  BY <1>1, <1>4, <1>5, WalkOfList
<1> QED BY <1>6 DEF nxt, D, first

\* Every free list ends, whatever pages were added to it and taken out of it and
\* by which threads; the lists together hold every page that is linked into one;
\* and the root page's counter is their number.  RootPage::remove_free_page
\* never cuts the rest of a list off, and no list runs in a circle.
THEOREM FreeListsWhole == Spec => []FreeListsComplete
<1>1. StoreInv /\ FreeInv => FreeListsComplete
  <2> SUFFICES ASSUME StoreInv, FreeInv PROVE FreeListsComplete
    OBVIOUS
  <2> DEFINE slots == 0 .. (root.cur - 1)
             walk(k) == Walk(root.head[k], [p \in Pages |-> pages[p].nextFree])
             F == {p \in Pages : OnFreeList(p)}
  <2>1. \A k \in slots : /\ Ends(walk(k))
                         /\ PagesOf(walk(k)) = {p \in FreePages : pages[p].slot = k}
    BY SlotWalk
  <2>2. F = FreePages
    BY DEF FreePages, OnFreeList
  <2>3. \A p \in F : pages[p].slot \in slots
    <3> SUFFICES ASSUME NEW p \in F PROVE pages[p].slot \in slots
      OBVIOUS
    <3>1. /\ pages \in [Pages -> DataPageType] /\ root \in RootType
          /\ FreeListsLinked
      BY DEF StoreInv, TypeInv, TypeOK, ListInv
    <3>2. pages[p].slot \in SlotNumbers \cup {INVALID_SLOT} /\ root.cur \in 1 .. MaxSlots
      BY <3>1, PageFields, RootFields
    <3>3. pages[p].slot < root.cur
      BY <3>1 DEF FreeListsLinked
    <3>4. pages[p].slot \in Int /\ pages[p].slot >= 0 /\ root.cur \in Int
      BY <3>2, LayoutAssumption DEF SlotNumbers, INVALID_SLOT
    <3> QED BY <3>3, <3>4
  <2>4. root.totalFree = Cardinality(F)
    BY <2>2 DEF FreeInv
  <2> HIDE DEF slots, walk
  <2>5. UNION {PagesOf(walk(k)) : k \in slots} = F
    BY <2>1, <2>2, <2>3
  <2> QED BY <2>1, <2>4, <2>5 DEF FreeListsComplete, slots, walk
<1> QED BY <1>1, ListsInvariant, PTL

\* The list of all data pages is linked both ways between the two ends the root
\* page records, ends, and is counted by the root page; every page that holds a
\* record is on it.  RootPage::add_data_page keeps this through concurrent
\* inserts, so whoever follows next from the head meets every stored record.
THEOREM DataListWhole == Spec => []DataListComplete
<1>1. StoreInv /\ DataInv => DataListComplete
  <2> SUFFICES ASSUME StoreInv, DataInv PROVE DataListComplete
    OBVIOUS
  <2> DEFINE nxt == [p \in Pages |-> pages[p].next]
             walk == Walk(root.dataHead, nxt)
  <2>1. PICK D \in SUBSET used, rank \in [Pages -> Nat] : DataList(D, rank)
    BY DEF DataInv
  <2>2. D \in SUBSET Pages
    BY <2>1 DEF StoreInv, TypeInv, TypeOK
  <2>3. \A p \in D : nxt[p] = pages[p].next
    BY <2>2
  <2> HIDE DEF nxt
  <2>4. IsList(root.dataHead, nxt, D, rank)
    BY <2>1, <2>3 DEF IsList, DataList
  <2>5. Ends(walk) /\ PagesOf(walk) = D
    BY <2>1, <2>2, <2>4, WalkOfList
  <2>6. ASSUME NEW p \in Pages, NEW i \in BitmapPositions, pages[p].recs[i] # FreeRec
        PROVE  p \in D
    <3>1. HasData(p)
      BY <2>6 DEF HasData, Stored
    <3> QED BY <2>1, <3>1 DEF DataList
  <2>7. /\ root.totalData = Cardinality(D)
        /\ \A p \in D :
             /\ (p = root.dataHead) <=> (pages[p].prev = NullRef)
             /\ (p = root.dataTail) <=> (pages[p].next = NullRef)
             /\ p # root.dataHead => pages[pages[p].prev].next = p
    BY <2>1 DEF DataList
  <2>8. \A p \in Pages : (\E i \in BitmapPositions : pages[p].recs[i] # FreeRec) => p \in D
    BY <2>6
  <2> QED BY <2>5, <2>7, <2>8 DEF DataListComplete, nxt
<1> QED BY <1>1, ListsInvariant, PTL
===============================================================================
