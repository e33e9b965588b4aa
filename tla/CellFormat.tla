----------------------------- MODULE CellFormat -----------------------------
(***************************************************************************)
(* How the values of a row are laid out in a cell: one byte with the type  *)
(* code of each, then their bytes one after the other                      *)
(* (src/sdl/table_leaf_page.cpp, with the types of src/common.hpp).        *)
(*                                                                         *)
(* A field is a value as the layout sees it, its type and its length.  The *)
(* values after it are found by adding lengths up, so a row reads back as  *)
(* it was written when each of its fields does.                            *)
(***************************************************************************)
EXTENDS Integers

(* SerialTypeCode, UNUSED (9) left out. *)
TypeCode == [NULL_TYPE |-> 0, TINYINT |-> 1, SMALLINT |-> 2, INT |-> 3, BIGINT |-> 4,
             FLOAT |-> 5, YEAR |-> 6, TIME |-> 8, DATETIME |-> 10, DATE |-> 11, TEXT |-> 12]

(* The bytes of the underlying types; a TEXT has as many as it is long. *)
Width == [NULL_TYPE |-> 0, TINYINT |-> 1, SMALLINT |-> 2, INT |-> 4, BIGINT |-> 8,
          FLOAT |-> 8, YEAR |-> 1, TIME |-> 4, DATETIME |-> 8, DATE |-> 8]

ColumnTypes == DOMAIN TypeCode \ {"NULL_TYPE"}

Field == {[type |-> type, length |-> Width[type]] : type \in DOMAIN Width}
           \union [type : {"TEXT"}, length : Nat]

(* writeTo adds the length of a TEXT to its code, in one byte. *)
CodeOf(field) == IF field.type = "TEXT" THEN (TypeCode.TEXT + field.length) % 256
                 ELSE TypeCode[field.type]

(* readFrom throws at any other code below that of TEXT. *)
FixedCodes == {TypeCode[type] : type \in DOMAIN Width}
IsTypeCode(code) == code < TypeCode.TEXT => code \in FixedCodes

(* Mutant: the lengths of TEXT begin with 1. *)
FieldOfNonempty(code) ==
  IF code >= TypeCode.TEXT THEN [type |-> "TEXT", length |-> code - TypeCode.TEXT + 1]
  ELSE LET type == CHOOSE t \in DOMAIN Width : TypeCode[t] = code
       IN  [type |-> type, length |-> Width[type]]

FieldOf(code) ==
  IF code >= TypeCode.TEXT THEN [type |-> "TEXT", length |-> code - TypeCode.TEXT]
  ELSE LET type == CHOOSE t \in DOMAIN Width : TypeCode[t] = code
       IN  [type |-> type, length |-> Width[type]]
=============================================================================
