----------------------------- MODULE MCSendPath -----------------------------
(***************************************************************************)
(* Instances of SendPath for TLC.  A byte has two bits and a frame two     *)
(* bytes.  "left" is the low and "right" the high bit of the first byte;   *)
(* "dial" is the second byte; "wide" is the high bit of the second byte    *)
(* with the low bit of the first; "name" is a text, which cannot be sent.  *)
(***************************************************************************)
EXTENDS SendPath

CONSTANTS c1, c2

Clients == {c1, c2}

MCField == [p \in Property |->
  CASE p = "left"  -> [pos |-> 1, offs |-> 0, len |-> 1]
    [] p = "right" -> [pos |-> 1, offs |-> 1, len |-> 1]
    [] p = "dial"  -> [pos |-> 2, offs |-> 0, len |-> 2]
    [] p = "wide"  -> [pos |-> 2, offs |-> 1, len |-> 2]
    [] p = "name"  -> [pos |-> 2, offs |-> 0, len |-> 1]]

MCType == [p \in Property |->
  CASE p = "left" -> "BOOL_T" [] p = "right" -> "UINT16_T" [] p = "dial" -> "INT8_T"
    [] p = "wide" -> "UINT8_T" [] p = "name" -> "STRING_T"]

(* Numbers that fit in the fields, and some that do not. *)
Fitting == [p \in Property |-> IF p = "dial" THEN {0, 1, 3} ELSE IF p = "wide" THEN {0, 3} ELSE {0, 1}]
Mixed   == [Fitting EXCEPT !["right"] = {0, 1, 6}]

Others == {[head |-> "other", data |-> [k \in 0..1 |-> IF k = 0 THEN {0, 1} ELSE {0}]]}

=============================================================================
