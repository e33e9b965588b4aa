---------------------------- MODULE RecordStore ----------------------------
(***************************************************************************)
(* What a table promises the statements that use it, without its pages: a  *)
(* list of rows in the order of their ids, and the id the next row gets.   *)
(* A row becomes visible to scans all at once, at the end of the list, and *)
(* its id is used up by a step that follows; no row leaves the list but by *)
(* being deleted, and the ids of deleted rows are not given out again.     *)
(***************************************************************************)
EXTENDS Integers, Sequences, SequencesExt

VARIABLES rows, next_row_id

INITIAL_ROW_ID == 1

(* The row of an insert that has not returned yet is the last one.         *)
Pending == rows # << >> /\ Last(rows) = next_row_id

Init == rows = << >> /\ next_row_id = INITIAL_ROW_ID

Insert ==
  /\ ~ Pending
  /\ rows' = Append(rows, next_row_id)
  /\ UNCHANGED next_row_id

Acknowledge ==
  /\ Pending
  /\ next_row_id' = next_row_id + 1
  /\ UNCHANGED rows

Delete ==
  /\ ~ Pending
  /\ \E i \in DOMAIN rows : rows' = RemoveAt(rows, i)
  /\ UNCHANGED next_row_id

Next == Insert \/ Acknowledge \/ Delete

Spec == Init /\ [][Next]_<<rows, next_row_id>>
=============================================================================
