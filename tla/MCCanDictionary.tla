-------------------------- MODULE MCCanDictionary --------------------------
(***************************************************************************)
(* An instance of CanDictionary for TLC: every file of two definitions     *)
(* whose members are among five, with three names between them.  The first *)
(* definition has up to three members, so that an array can shrink at any  *)
(* place, and the second up to two; its CAN ID is that of the first, that  *)
(* of the first cut to 11 bits, or another.                                *)
(***************************************************************************)
EXTENDS CanDictionary

Mem(name, pos, offs, len, type, elements, array, typeIsFirst) ==
  [name |-> name, POS |-> pos, OFFS |-> offs, LEN |-> len, TYPE |-> type,
   SET_DATA |-> [elements |-> elements, array |-> array], typeIsFirst |-> typeIsFirst]

(* A number; a table of numbers; texts in a field that is out of range; a  *)
(* table before its type; and a table for a type that has none.            *)
Members == {
  Mem("a", 1, 0, 4, "uint8_t", "none", << >>, TRUE),
  Mem("a", 2, 3, 1, "ENABLE-1", "int", <<0, 1>>, TRUE),
  Mem("b", 3, -1, 13, "string", "string", <<"NOTSET", "on">>, TRUE),
  Mem("b", 1, 2, 2, "bool", "int", <<0, 1>>, FALSE),
  Mem("c", 2, 0, 3, "float", "int", <<5>>, TRUE)}

Sequences(n) == UNION {[1..k -> Members] : k \in 0..n}

Def(key, kind, isArray, data) ==
  [key |-> key, kind |-> kind, dataIsArray |-> isArray, data |-> data]

MCFiles ==
  {<<Def(1, k1, TRUE, s1), d2>> :
     k1 \in Kinds, s1 \in Sequences(3),
     d2 \in {Def(id, "CAN_KIND_SEND", TRUE, s2) : id \in {1, 2, 9}, s2 \in Sequences(2)}
              \cup {Def(2, "CAN_KIND_READONLY", FALSE, << >>)}}
  \cup
  {<<Def(1, k1, FALSE, << >>), Def(1, "CAN_KIND_READONLY", TRUE, s2)>> :
     k1 \in Kinds, s2 \in Sequences(2)}
=============================================================================
