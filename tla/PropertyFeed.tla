---------------------------- MODULE PropertyFeed ----------------------------
(***************************************************************************)
(* What the binder promises the clients of one received property: the     *)
(* specification that Subscription implements, without registry, filter,   *)
(* conversion tables, change detection or thinning.                        *)
(*                                                                         *)
(* A frame on the bus says a value of the property, or says nothing.  The  *)
(* binder tells every subscriber what the frame says, or none when they    *)
(* know it already or when afb reports an error.                           *)
(***************************************************************************)
CONSTANTS
  Client,   \* the sessions that may subscribe
  Nothing   \* what a client was told that was told nothing, and what a frame
            \* says that gives the property no value

VARIABLES
  subscribers,  \* the clients subscribed to the property
  told,         \* told[c]: what client c was last told
  said,         \* what the last frame on the bus says
  missed        \* afb reported an error when the property was last pushed

vars == <<subscribers, told, said, missed>>

(* Every subscriber that was told anything knows what the frame says. *)
Known(says) ==
  says # Nothing => \A c \in subscribers : told[c] \in {Nothing, says}

-----------------------------------------------------------------------------
Init ==
  /\ subscribers = {}
  /\ told = [c \in Client |-> Nothing]
  /\ said = Nothing
  /\ missed = FALSE

(* A client subscribes.  The answer is what the last frame said, any value *)
(* when that is nothing, or an error, which tells nothing.                 *)
Join(c) ==
  /\ subscribers' = subscribers \cup {c}
  /\ told' = [told EXCEPT ![c] = told'[c]]
  /\ said = Nothing \/ told'[c] \in {told[c], said}
  /\ UNCHANGED <<said, missed>>

(* A client unsubscribes, or its session ends. *)
Leave(c) ==
  /\ subscribers' = subscribers \ {c}
  /\ told' = [told EXCEPT ![c] = Nothing]
  /\ UNCHANGED <<said, missed>>

(* A frame is pushed: all subscribers are told the same, what it says. *)
Push ==
  /\ ~missed'
  /\ told' = [c \in Client |-> IF c \in subscribers THEN told'[c] ELSE told[c]]
  /\ \A c, d \in subscribers : told'[c] = told'[d]
  /\ said' # Nothing => \A c \in subscribers : told'[c] = said'
  /\ UNCHANGED subscribers

(* A frame is not pushed: its subscribers know what it says, or an earlier *)
(* push is still to be made up for.                                        *)
Ignore ==
  /\ missed \/ Known(said')
  /\ UNCHANGED <<subscribers, told, missed>>

(* A frame is pushed and afb reports an error. *)
Miss ==
  /\ missed'
  /\ UNCHANGED <<subscribers, told>>

Next ==
  \/ \E c \in Client : Join(c) \/ Leave(c)
  \/ Push \/ Ignore \/ Miss

Spec == Init /\ [][Next]_vars

=============================================================================
