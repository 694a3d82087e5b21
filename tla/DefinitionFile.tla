--------------------------- MODULE DefinitionFile ---------------------------
(***************************************************************************)
(* What a CAN definition file means: the specification that CanDictionary  *)
(* implements, without trees, arrays, chains or memory that is moved.      *)
(*                                                                         *)
(* The file is read once, member by member.  The first definition of a CAN *)
(* ID counts; a name belongs to the first definition that has it, with all *)
(* its members there; names are listed as they come.                       *)
(***************************************************************************)
EXTENDS Naturals, Sequences

CONSTANTS
  Property,  \* the names
  CanId,     \* the CAN IDs
  Limit      \* how many names the list has room for

VARIABLES
  file,     \* the definitions, each a CAN ID and the names of its members
  next,     \* the definition that is read next
  at,       \* the definition and the member the reading is at, if in one
  defined,  \* the CAN IDs with a definition
  owner,    \* owner[p]: the definition name p belongs to, 0 if none
  entries,  \* entries[p]: the members of that definition that p is made of
  list,     \* the names as they came, as far as there was room
  timed     \* the CAN IDs that are sent periodically

vars == <<file, next, at, defined, owner, entries, list, timed>>

Definitions == [id : CanId, isSent : BOOLEAN, isArray : BOOLEAN, names : Seq(Property)]

-----------------------------------------------------------------------------
Init ==
  /\ file \in Seq(Definitions)
  /\ next = 1 /\ at = {} /\ defined = {}
  /\ owner = [p \in Property |-> 0]
  /\ entries = [p \in Property |-> << >>]
  /\ list = << >> /\ timed = {}

(* A definition without members, or of a CAN ID that has one, is left out. *)
LeaveOut ==
  /\ at = {} /\ next \in DOMAIN file
  /\ file[next].isArray => file[next].id \in defined
  /\ next' = next + 1
  /\ UNCHANGED <<file, at, defined, owner, entries, list, timed>>

(* Any other is read. *)
Open ==
  /\ at = {} /\ next \in DOMAIN file
  /\ file[next].isArray /\ file[next].id \notin defined
  /\ next' = next + 1
  /\ at' = {[def |-> next, member |-> 1]}
  /\ defined' = defined \cup {file[next].id}
  /\ UNCHANGED <<file, owner, entries, list, timed>>

(* Member r.member of definition r.def is read: its name is p. *)
Read(r, p) ==
  /\ r.member \in DOMAIN file[r.def].names /\ p = file[r.def].names[r.member]
  /\ at' = {[r EXCEPT !.member = @ + 1]}
  /\ UNCHANGED <<file, next, defined, timed>>

(* A name that is new belongs to the definition, and is listed. *)
First(r, p) ==
  /\ owner[p] = 0 /\ Read(r, p)
  /\ owner' = [owner EXCEPT ![p] = r.def]
  /\ entries' = [entries EXCEPT ![p] = <<r.member>>]
  /\ list' = IF Len(list) < Limit THEN Append(list, p) ELSE list

(* A name of the same definition gets one entry more. *)
Again(r, p) ==
  /\ owner[p] = r.def /\ Read(r, p)
  /\ entries' = [entries EXCEPT ![p] = Append(@, r.member)]
  /\ UNCHANGED <<owner, list>>

(* A name of another definition stays what it is. *)
Taken(r, p) ==
  /\ owner[p] \notin {0, r.def} /\ Read(r, p)
  /\ UNCHANGED <<owner, entries, list>>

(* The definition is read: if it is sent and has members it gets a timer. *)
Close(r) ==
  /\ r.member \notin DOMAIN file[r.def].names
  /\ at' = {}
  /\ timed' = IF file[r.def].isSent /\ DOMAIN file[r.def].names # {}
              THEN timed \cup {file[r.def].id} ELSE timed
  /\ UNCHANGED <<file, next, defined, owner, entries, list>>

Next ==
  \/ LeaveOut \/ Open
  \/ \E r \in at : Close(r) \/ \E p \in Property : First(r, p) \/ Again(r, p) \/ Taken(r, p)

Spec == Init /\ [][Next]_vars
=============================================================================
