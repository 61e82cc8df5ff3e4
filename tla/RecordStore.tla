------------------------------ MODULE RecordStore ------------------------------
(***************************************************************************)
(* What a column store promises its callers: a map from column references  *)
(* to records.  An insert returns a reference no live record has, a purge  *)
(* removes the record only for the transaction that wrote it last, and a   *)
(* record changes only by update and by mark_delete, which marks an        *)
(* unmarked record or unmarks a marked one.                                *)
(***************************************************************************)
CONSTANTS Refs, Trx, Data

VARIABLE recs

Init == recs = [r \in {} |-> {}]

Insert(r, trx, data) ==
  /\ r \in Refs \ DOMAIN recs
  /\ recs' = [x \in DOMAIN recs \cup {r} |->
                IF x = r THEN [trx |-> trx, data |-> data, marked |-> FALSE]
                ELSE recs[x]]

MarkDelete(r, trx, mark) ==
  /\ IF mark THEN ~recs[r].marked ELSE recs[r].marked \/ recs[r].trx = trx
  /\ recs' = [recs EXCEPT ![r].marked = mark, ![r].trx = trx]

Update(r, data) == recs' = [recs EXCEPT ![r].data = data]

Purge(r, trx) ==
  /\ recs[r].trx = trx
  /\ recs' = [x \in DOMAIN recs \ {r} |-> recs[x]]

Next ==
  \/ \E r \in Refs, trx \in Trx, data \in Data : Insert(r, trx, data)
  \/ \E r \in DOMAIN recs, trx \in Trx :
       \/ Purge(r, trx)
       \/ \E mark \in BOOLEAN : MarkDelete(r, trx, mark)
  \/ \E r \in DOMAIN recs, data \in Data : Update(r, data)

Spec == Init /\ [][Next]_recs
===============================================================================
