---------------------------- MODULE MCTablePages ----------------------------
(* TLC instances of TablePages: one Table object per statement, as for the *)
(* tables users create, or two that outlive each other's statements.       *)
EXTENDS TablePages

CONSTANTS Statement, SchemaColumns

JustStatements == {Statement}
BothHandles == {Statement, SchemaColumns}
OnlySchema == {SchemaColumns}
=============================================================================
