---------------------------- MODULE MCStatements ----------------------------
(* TLC instances of Statements: small tables, and the statements on them.  *)
EXTENDS Statements

Column(name, type, not_null, key) ==
  [name |-> name, type |-> type, not_null |-> not_null, unique |-> key]

KeyAndText == <<Column("key", "INT", FALSE, TRUE), Column("text", "TEXT", TRUE, FALSE)>>
TextAndKey == <<Column("text", "TEXT", TRUE, FALSE), Column("key", "DATE", FALSE, FALSE)>>

(* Two columns of one name. *)
Twins == <<Column("twin", "TEXT", FALSE, FALSE), Column("twin", "SMALLINT", TRUE, FALSE)>>

NullOneTwo == {NULL, 1, 2}
NullOneTwoLong == {NULL, 1, 2, 251}

Whole == {<< >>}
Partial == {<<"text">>, <<"key", "text">>}
=============================================================================
