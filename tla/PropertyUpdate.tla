--------------------------- MODULE PropertyUpdate ---------------------------
(***************************************************************************)
(* What one received frame does to one property: update_iviproperty of     *)
(* can_signal_event.c.                                                     *)
(*                                                                         *)
(* A property is a chain of entries, the head and its next pointers: more  *)
(* than one when the definition file gives several bit fields of one CAN   *)
(* ID the same name ("multi-property"), of which the last one that says    *)
(* something applies.  cur[i] is the curValue of entry i.  applyinfo is    *)
(* the position of the entry that applied last, 0 for NULL.                *)
(***************************************************************************)
EXTENDS PropertyValue, FiniteSetsExt

IsChain(chain) ==
  /\ Len(chain) \in Nat \ {0} /\ DOMAIN chain = 1..Len(chain)
  /\ \A i \in DOMAIN chain : IsEntry(chain[i])

(* The entry property2json shows. *)
ShownEntry(applyinfo) == IF applyinfo = 0 THEN 1 ELSE applyinfo

property2json(chain, cur, applyinfo) ==
  ValueJson(chain[ShownEntry(applyinfo)], cur[ShownEntry(applyinfo)])

(* Mutant: pushed at the end of the cycle only. *)
UpdateSingleOnExpiry(chain, cur, raw, applyinfo, expired) ==
  LET r == UpdateValue(chain[1], cur[1], raw[1])
  IN  [cur       |-> [i \in DOMAIN chain |-> r.value],
       applyinfo |-> applyinfo,
       notify    |-> r.status # "ERROR" /\ expired]

(* A property with one entry keeps its value and is pushed when the value  *)
(* changes or when the thin-out cycle has expired.                         *)
UpdateSingle(chain, cur, raw, applyinfo, expired) ==
  LET r == UpdateValue(chain[1], cur[1], raw[1])
  IN  [cur       |-> [i \in DOMAIN chain |-> r.value],
       applyinfo |-> applyinfo,
       notify    |-> r.status = "UPDATED" \/ (r.status = "NO_UPDATED" /\ expired)]

(* A multi-property is cleared and filled anew from every frame.  The first *)
(* entry in error ends the work there and then: the entries before it are   *)
(* filled, the others are cleared, and nothing is pushed.                   *)
UpdateMulti(chain, cur, raw, applyinfo, expired) ==
  LET r       == [i \in DOMAIN chain |-> UpdateValue(chain[i], 0, raw[i])]
      failed  == {i \in DOMAIN chain : r[i].status = "ERROR"}
      reached == {i \in DOMAIN chain : \A j \in 1..i : j \notin failed}
      filled  == [i \in DOMAIN chain |-> IF i \in reached THEN r[i].value ELSE 0]
      marked  == {i \in DOMAIN chain : r[i].status = "UPDATED"}
      mark    == Max(marked)
  IN  IF failed # {}
      THEN [cur |-> filled, applyinfo |-> applyinfo, notify |-> FALSE]
      ELSE IF marked = {}
      THEN [cur |-> filled, applyinfo |-> applyinfo, notify |-> expired]
      ELSE [cur |-> filled, applyinfo |-> mark,
            notify |-> mark # applyinfo \/ filled[mark] # cur[mark] \/ expired]

(* Mutant: a change of the entry that applies is not taken for a change. *)
UpdateForgetsMark(chain, cur, raw, applyinfo, expired) ==
  LET multi == UpdateMulti(chain, cur, raw, applyinfo, expired)
  IN  IF Len(chain) > 1
      THEN [multi EXCEPT !.notify = @ /\ (expired \/ multi.applyinfo = applyinfo)]
      ELSE UpdateSingle(chain, cur, raw, applyinfo, expired)

(* update_iviproperty: the new values, the entry that applies, and whether *)
(* notify_property_changed is called.                                      *)
update_iviproperty(chain, cur, raw, applyinfo, expired) ==
  IF Len(chain) > 1 THEN UpdateMulti(chain, cur, raw, applyinfo, expired)
                    ELSE UpdateSingle(chain, cur, raw, applyinfo, expired)

-----------------------------------------------------------------------------
(* What a frame says a property is, read off the frame alone: the reference *)
(* the handlers are compared with.                                          *)

(* Entry e says something with raw number x. *)
Significant(e, x) ==
  /\ e.type \notin NoValueTypes
  /\ ~Unset(e, x)
  /\ Stored(e, x) # 0

(* The frame gives the property a value that clients should be told. *)
Speaks(chain, raw) ==
  /\ \A i \in DOMAIN chain : ~Undefined(chain[i], raw[i])
  /\ IF Len(chain) = 1
     THEN chain[1].type \notin NoValueTypes /\ ~Unset(chain[1], raw[1])
     ELSE \E i \in DOMAIN chain : Significant(chain[i], raw[i])

Said(chain, raw) ==
  LET i == IF Len(chain) = 1 THEN 1
           ELSE Max({j \in DOMAIN chain : Significant(chain[j], raw[j])})
  IN  ValueJson(chain[i], Stored(chain[i], raw[i]))

(* The values entry e can hold: 0 or the value of a raw number.             *)
Possible(e, v) ==
  v = 0 \/ \E x \in 0..e.mask : ~Undefined(e, x) /\ v = Stored(e, x)

(* v is a value that entry e stores without reporting an update. *)
Silent(e, v) == \E x \in 0..e.mask : ~Undefined(e, x) /\ Unset(e, x) /\ v = Stored(e, x)

(* The value shown is one that nobody was told. *)
Muted(chain, cur, applyinfo) ==
  LET s == ShownEntry(applyinfo)
  IN  Silent(chain[s], cur[s]) \/ (Len(chain) > 1 /\ cur[s] = 0)

(* What the definition file must respect for the clients to be told every   *)
(* change: a table of ENABLE1_T does not repeat its first entry, and the    *)
(* tables of a multi-property have an entry for every raw number.           *)
Faithful(chain) ==
  \A i \in DOMAIN chain :
    /\ chain[i].type = "ENABLE1_T" =>
         \A x \in 0..chain[i].mask :
           x # 0 /\ ~Undefined(chain[i], x) => chain[i].conv[x + 1] # chain[i].conv[1]
    /\ Len(chain) > 1 => \A x \in 0..chain[i].mask : ~Undefined(chain[i], x)

=============================================================================
