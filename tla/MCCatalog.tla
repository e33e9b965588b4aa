------------------------------ MODULE MCCatalog ------------------------------
EXTENDS Catalog

CONSTANTS t1, t2, a, b, c

TwoNames == {t1, t2}
OneAndSchemaTable == {t1, "davisbase_columns"}
ThreeColumns == {a, b, c}

(* Definitions of one and three columns, and one that names a column twice. *)
WithTwins == {<<c>>, <<a, a, b>>}
OneAndThree == {<<c>>, <<a, b, c>>}

(* Fewer than the 5 and 7 there are, but more than a leaf has room for. *)
OneAndTwo == [davisbase_tables |-> <<"table_name">>,
              davisbase_columns |-> <<"table_name", "column_name">>]
=============================================================================
