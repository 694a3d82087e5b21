----------------------------- MODULE MCThinOut -----------------------------
(***************************************************************************)
(* Instances of ThinOut for TLC: plain numbers of 16 and of 8 bits and a   *)
(* multi-property of two ENABLE1_T entries.  A millisecond has two     *)
(* ticks and an unsigned int eight values.                                 *)
(***************************************************************************)
EXTENDS ThinOut

Number == <<[type |-> "UINT16_T", mask |-> 3, conv |-> << >>]>>
Byte   == <<[type |-> "UINT8_T", mask |-> 3, conv |-> << >>]>>
Gear   == <<[type |-> "ENABLE1_T", mask |-> 1, conv |-> <<0, 1>>],
            [type |-> "ENABLE1_T", mask |-> 1, conv |-> <<0, 2>>]>>
Sorts  == {Number, Gear}
Bytes  == {Byte}
Steps  == {-5, 7}

=============================================================================
