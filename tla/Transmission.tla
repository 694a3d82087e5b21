---------------------------- MODULE Transmission ----------------------------
(***************************************************************************)
(* What the binder promises about a CAN ID it sends: the specification     *)
(* that SendPath implements, without frame buffer, bytes, lock or timer.   *)
(*                                                                         *)
(* The properties of the CAN ID are shown on the bus.  One client at a     *)
(* time gives one of them a number, which may take the place of the number *)
(* before in parts.  A frame sent meanwhile has what is in place so far,   *)
(* and all other properties as they were.  It never shows older parts      *)
(* again.                                                                  *)
(***************************************************************************)
CONSTANTS
  Property,  \* the properties of the CAN ID
  Whole      \* those whose numbers change in one piece

VARIABLES
  shown,   \* shown[p]: the bits that a frame sent now has for p
  coming,  \* the request under way, if any: a property and the bits it is given
  sent     \* what the last frame sent had for each property

vars == <<shown, coming, sent>>

(* From old, some of the bits in which it differs from new have changed. *)
Between(old, now, new) ==
  old \cap new \subseteq now /\ now \subseteq old \cup new

-----------------------------------------------------------------------------
Init ==
  /\ shown = [p \in Property |-> {}]
  /\ coming = {}
  /\ sent = shown

(* A client begins to give p a number. *)
Give ==
  /\ coming = {}
  /\ \E r \in coming' : r.p \in Property /\ coming' = {r}
  /\ UNCHANGED <<shown, sent>>

(* Part of the number of request r is in place. *)
Proceed(r) ==
  /\ shown' = [shown EXCEPT ![r.p] = shown'[r.p]]
  /\ Between(shown[r.p], shown'[r.p], r.bits)
  /\ r.p \in Whole => shown'[r.p] \in {shown[r.p], r.bits}
  /\ UNCHANGED <<coming, sent>>

(* All of it is in place, and is sent unless that fails. *)
Finish(r) ==
  /\ shown[r.p] = r.bits
  /\ coming' = {}
  /\ sent' \in {sent, shown}
  /\ UNCHANGED shown

(* What is in place is sent again. *)
Repeat ==
  /\ sent' = shown
  /\ UNCHANGED <<shown, coming>>

(* A frame of another node takes the place of what was given. *)
Replace ==
  /\ coming = {}
  /\ shown' = [p \in Property |-> shown'[p]]
  /\ UNCHANGED <<coming, sent>>

Next ==
  \/ Give \/ Repeat \/ Replace
  \/ \E r \in coming : Proceed(r) \/ Finish(r)

Spec == Init /\ [][Next]_vars
=============================================================================
