--------------------------- MODULE MCEventThreads ---------------------------
(***************************************************************************)
(* An instance of EventThreads for TLC: two clients and two properties     *)
(* with a CAN ID each.                                                     *)
(***************************************************************************)
EXTENDS EventThreads

CONSTANTS c1, c2

Clients == {c1, c2}

MCCanIdOf == [p \in Property |-> IF p = "speed" THEN 1 ELSE 3]
=============================================================================
