--------------------------- MODULE PropertyValue ---------------------------
(***************************************************************************)
(* How the raw number cut out of a CAN frame becomes the current value of  *)
(* a property (canid_info.c), and what JSON value a client is shown for it *)
(* (can_json.c).                                                           *)
(*                                                                         *)
(* A property entry (struct can_bit_t) is a record with the fields         *)
(*   type - its var_type;                                                  *)
(*   mask - the largest raw number its bit field can carry (can_mask64);   *)
(*   conv - its SET-DATA table dataconv[0..nconv-1], << >> when dataconv   *)
(*          is NULL: texts for STRING_T, integers for every other type.    *)
(* A current value is an integer.  For STRING_T, whose curValue is a       *)
(* pointer into the table, it is the position pointed at, 0 for NULL: the  *)
(* code compares pointers, so two entries with one text stay distinct.     *)
(* M8, M16 and M32 are the number of values of an 8, 16 and 32 bit         *)
(* integer; a model may scale them down.                                   *)
(***************************************************************************)
EXTENDS Integers, Sequences

CONSTANTS M8, M16, M32

ASSUME WidthAssumption ==
  /\ M8 \in Nat /\ M16 \in Nat /\ M32 \in Nat
  /\ 1 < M8 /\ M8 <= M16 /\ M16 <= M32

IntTypes == {"INT8_T", "INT16_T", "INT_T", "INT32_T",
             "UINT8_T", "UINT16_T", "UINT_T", "UINT32_T"}
NoValueTypes == {"INT64_T", "UINT64_T", "ARRAY_T"}
VarType == IntTypes \cup NoValueTypes
             \cup {"VOID_T", "STRING_T", "BOOL_T", "ENABLE1_T"}

(* The types create_convert_tables builds a SET-DATA table for. *)
ConvTypes == IntTypes \cup {"STRING_T", "BOOL_T", "ENABLE1_T"}

(* The entries the configuration loader can build. *)
IsEntry(e) ==
  /\ e.type \in VarType
  /\ e.mask \in 0..(M32 - 1)
  /\ IF e.type = "STRING_T" THEN e.conv \in Seq(STRING) ELSE e.conv \in Seq(Int)
  /\ e.conv # << >> => e.type \in ConvTypes

-----------------------------------------------------------------------------
(* C conversions to an unsigned and to a signed integer of m values. *)

Unsigned(m, y) == y % m

Signed(m, y) == IF 2 * (y % m) >= m THEN (y % m) - m ELSE y % m

Truth(y) == IF y # 0 THEN 1 ELSE 0

(* The number the type's case stores: the raw one or its table entry. *)
Source(e, x) == IF e.conv = << >> THEN x ELSE e.conv[x + 1]

(* The assignment to curValue in the type's case. *)
Stored(e, x) ==
  CASE e.type = "INT8_T"                          -> Signed(M8, Source(e, x))
    [] e.type = "INT16_T"                         -> Signed(M16, Source(e, x))
    [] e.type \in {"VOID_T", "INT_T", "INT32_T"}  -> Signed(M32, Source(e, x))
    [] e.type = "UINT8_T"                         -> Unsigned(M8, Source(e, x))
    [] e.type = "UINT16_T"                        -> Unsigned(M16, Source(e, x))
    [] e.type \in {"UINT_T", "UINT32_T"}          -> Unsigned(M32, Source(e, x))
    [] e.type = "BOOL_T"                          -> Truth(Source(e, x))
    [] e.type = "STRING_T"                        -> x + 1
    [] e.type = "ENABLE1_T"                       -> Source(e, x)

(* What the code compares curValue with to decide that nothing changed.  *)
(* It is not always the value it would store: UINT8_T compares with an   *)
(* int8_t, UINT16_T with an int16_t when there is a table, and BOOL_T    *)
(* with the table entry before it is made 0 or 1.                        *)
Compared(e, x) ==
  CASE e.type = "UINT8_T"                         -> Signed(M8, Source(e, x))
    [] e.type = "UINT16_T" /\ e.conv # << >>      -> Signed(M16, Source(e, x))
    [] e.type = "BOOL_T" /\ e.conv # << >>        -> Source(e, x)
    [] OTHER                                      -> Stored(e, x)

(* The raw number has no value: it is beyond the table, or the type needs  *)
(* a table and has none.                                                   *)
Undefined(e, x) ==
  IF e.conv = << >> THEN e.type \in {"STRING_T", "ENABLE1_T"} ELSE Len(e.conv) <= x

(* A value that is stored but is not reported as an update. *)
Unset(e, x) ==
  \/ e.type = "STRING_T" /\ e.conv[x + 1] = "NOTSET"
  \/ e.type = "ENABLE1_T" /\ x = 0

(* _updatePropertyValue: the outcome and the new current value. *)
UpdateValue(e, cur, x) ==
  IF Undefined(e, x) THEN [status |-> "ERROR", value |-> cur]
  ELSE IF e.type \in NoValueTypes \/ cur = Compared(e, x)
       THEN [status |-> "NO_UPDATED", value |-> cur]
       ELSE [status |-> IF Unset(e, x) THEN "NO_UPDATED" ELSE "UPDATED",
             value  |-> Stored(e, x)]

(* property2json for one entry: a number is shown as a C int, UINT64_T has *)
(* no JSON value and INT64_T shows the -1 of propertyValue_int.            *)
ValueJson(e, v) ==
  CASE e.type = "STRING_T" -> <<"string", IF v = 0 THEN "null" ELSE e.conv[v]>>
    [] e.type = "BOOL_T"   -> <<"boolean", v>>
    [] e.type = "ARRAY_T"  -> <<"array", << >> >>
    [] e.type = "UINT64_T" -> <<"null", 0>>
    [] e.type = "INT64_T"  -> <<"int", -1>>
    [] e.type \in {"UINT_T", "UINT32_T"} -> <<"int", Signed(M32, v)>>
    [] OTHER               -> <<"int", v>>

=============================================================================
