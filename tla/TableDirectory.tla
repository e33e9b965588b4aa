--------------------------- MODULE TableDirectory ---------------------------
(***************************************************************************)
(* What CREATE TABLE, DROP TABLE and CREATE INDEX promise when nothing     *)
(* interrupts them: a directory of tables, each with its columns.          *)
(***************************************************************************)
EXTENDS Integers, Sequences

CONSTANTS Names, Columns, Definitions

VARIABLE definition     \* table name -> its columns, in order

Init == definition = << >>

(* CREATE TABLE of a name that is free. *)
Create(name, columns) ==
  /\ name \notin DOMAIN definition
  /\ definition' = [n \in DOMAIN definition \union {name} |->
                      IF n # name THEN definition[n]
                      ELSE [i \in DOMAIN columns |-> [column |-> columns[i], unique |-> FALSE]]]

(* DROP TABLE leaves the other tables alone. *)
Drop(name) ==
  /\ name \in DOMAIN definition
  /\ definition' = [n \in DOMAIN definition \ {name} |-> definition[n]]

(* CREATE INDEX on the first column of that name. *)
MakeUnique(name, column) ==
  /\ name \in DOMAIN definition
  /\ \E i \in DOMAIN definition[name] :
       /\ definition[name][i].column = column
       /\ \A j \in 1..i-1 : definition[name][j].column # column
       /\ definition' = [definition EXCEPT ![name][i].unique = TRUE]

Next ==
  \E name \in Names :
    \/ \E columns \in Definitions : Create(name, columns)
    \/ Drop(name)
    \/ \E column \in Columns : MakeUnique(name, column)

Spec == Init /\ [][Next]_definition
=============================================================================
