--------------------------- MODULE MCSubscription ---------------------------
(***************************************************************************)
(* Instances of Subscription for TLC.  Of the properties, "speed" is a     *)
(* number and "door" a text with a NOTSET entry, both on CAN ID 1; "gear"  *)
(* is a multi-property of two ENABLE1_T entries; "beam" and "horn" are     *)
(* switches; "zone" is a multi-property whose second table is shorter than *)
(* its bit field.  Integers of 8, 16 and 32 bits have M8, M16 and M32      *)
(* values.                                                                 *)
(***************************************************************************)
EXTENDS Subscription, TLC

CONSTANTS c1, c2

Clients == {c1, c2}
Symmetry == Permutations(Clients)

MCCanIdOf == [p \in Property |->
  CASE p = "speed" -> 1 [] p = "gear" -> 2 [] p = "door" -> 1 [] p = "beam" -> 3 [] p = "horn" -> 4
  [] p = "zone" -> 5]

Plain(type, mask) == [type |-> type, mask |-> mask, conv |-> << >>]
Table(type, mask, conv) == [type |-> type, mask |-> mask, conv |-> conv]

MCChain == [p \in Property |->
  CASE p = "speed" -> <<Plain("UINT8_T", 3)>>
    [] p = "gear"  -> <<Table("ENABLE1_T", 1, <<0, 1>>), Table("ENABLE1_T", 1, <<0, 2>>)>>
    [] p = "door"  -> <<Table("STRING_T", 3, <<"NOTSET", "open", "ajar">>)>>
    [] p = "zone"  -> <<Table("INT_T", 1, <<0, 1>>), Table("INT_T", 3, <<0, 2>>)>>
    [] p \in {"beam", "horn"} -> <<Plain("BOOL_T", 1)>>]

=============================================================================
