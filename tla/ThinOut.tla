------------------------------ MODULE ThinOut ------------------------------
(***************************************************************************)
(* The thinning of a property over time: update_iviproperty with its       *)
(* clock, updatetime and cycle (can_signal_event.c).  Subscription leaves  *)
(* to chance whether the cycle is over; here it is computed.               *)
(*                                                                         *)
(* Frames carry the stamps SO_TIMESTAMP takes from the wall clock, which   *)
(* may be set.  The code looks at stamps only through the differences of   *)
(* elaps_ms, taken modulo M32 milliseconds, so stamps are kept modulo that *)
(* many.  An event of the property is registered all the time.             *)
(***************************************************************************)
EXTENDS PropertyUpdate

CONSTANTS
  Definitions,   \* the chains of entries the property may have
  MODE, CYCLE,   \* of its CAN ID in the definition file
  TICKS_PER_MS,  \* stamps per millisecond (tv_usec counts 1000)
  ClockSteps     \* by how many ticks the wall clock may be set

Lap == M32 * TICKS_PER_MS

ASSUME ThinOutAssumption ==
  /\ \A chain \in Definitions : IsChain(chain)
  /\ CYCLE \in 0..(M32 - 1)
  /\ TICKS_PER_MS \in Nat \ {0}
  /\ ClockSteps \subseteq Int

VARIABLES
  definition,           \* the entries of the property
  curValue, applyinfo,  \* as in PropertyUpdate
  updatetime,           \* the stamp of the head of the chain
  clock,                \* the wall clock, modulo Lap
  raw,                  \* the last frame, << >> before the first
  pushes,               \* how often the property was pushed: 0, then 1 and 2 in turn
  age                   \* by how much the wall clock is past the last push;
                        \* -Lap and Lap also stand for what is beyond them

vars == <<definition, curValue, applyinfo, updatetime, clock, raw, pushes, age>>

-----------------------------------------------------------------------------
(* The cycle of a CAN ID: 0 pushes every frame, the largest number none for *)
(* being late.                                                              *)
cycle ==
  IF MODE # "CAN_THINOUT_CHG" THEN 0 ELSE IF CYCLE = 0 THEN M32 - 1 ELSE CYCLE

Raws == {f \in [DOMAIN definition -> UNION {0..definition[i].mask : i \in DOMAIN definition}] :
           \A i \in DOMAIN f : f[i] <= definition[i].mask}

Ms(stamp) == stamp \div TICKS_PER_MS

(* Mutants: the operands are swapped; the difference is compared as signed. *)
ElapsSwapped(old, new) == (Ms(old) - Ms(new)) % M32
ElapsSigned(old, new) == Signed(M32, Ms(new) - Ms(old))

(* elaps_ms: the milliseconds since old, as an unsigned int. *)
elaps_ms(old, new) == (Ms(new) - Ms(old)) % M32

(* Mutants: every frame starts the cycle anew; the end of the cycle is kept *)
(* instead of its start.                                                    *)
StampAlways(notify) == updatetime' = clock
StampEnd(notify) == updatetime' = IF notify THEN clock + cycle * TICKS_PER_MS ELSE updatetime

(* The head of the chain is stamped whenever the property is pushed. *)
Stamp(notify) == updatetime' = IF notify THEN clock ELSE updatetime

Init ==
  /\ definition \in Definitions
  /\ curValue = [i \in DOMAIN definition |-> 0]
  /\ applyinfo = 0
  /\ updatetime = 0
  /\ clock \in 0..(Lap - 1)
  /\ raw = << >> /\ pushes = 0 /\ age = 0

(* A frame f arrives. *)
Frame(f) ==
  LET u == update_iviproperty(definition, curValue, f, applyinfo,
                              elaps_ms(updatetime, clock) >= cycle)
  IN  /\ curValue' = u.cur /\ applyinfo' = u.applyinfo
      /\ Stamp(u.notify)
      /\ raw' = f
      /\ pushes' = IF u.notify THEN (IF pushes = 1 THEN 2 ELSE 1) ELSE pushes
      /\ age' = IF u.notify THEN 0 ELSE age
      /\ UNCHANGED <<definition, clock>>

(* The wall clock goes on by a tick, or is set by d ticks. *)
Advance(d) ==
  /\ clock' = (clock + d) % Lap
  /\ age' = IF age \in {-Lap, Lap} THEN age
            ELSE IF age + d > Lap THEN Lap ELSE IF age + d < -Lap THEN -Lap ELSE age + d
  /\ UNCHANGED <<definition, curValue, applyinfo, updatetime, raw, pushes>>

Tick == Advance(1)

SetClock == \E d \in ClockSteps : Advance(d)

Next == Tick \/ SetClock \/ \E f \in Raws : Frame(f)

Spec == Init /\ [][Next]_vars

-----------------------------------------------------------------------------
(* Every variable has the type its declaration describes. *)
TypeOK ==
  /\ definition \in Definitions
  /\ curValue \in [DOMAIN definition -> Int]
  /\ applyinfo \in DOMAIN definition \cup {0}
  /\ updatetime \in 0..(Lap - 1) /\ clock \in 0..(Lap - 1)
  /\ raw # << >> => raw \in Raws
  /\ pushes \in 0..2 /\ age \in -Lap..Lap

(* What the code compares with is what it stores, so that it recognises a   *)
(* number that comes again.  A chain of several entries is compared by what *)
(* it stores in any case.                                                   *)
RecognisesRepeats(chain) ==
  Len(chain) = 1 /\ chain[1].type \notin NoValueTypes =>
    \A x \in 0..chain[1].mask :
      Undefined(chain[1], x) \/ Unset(chain[1], x) \/ Compared(chain[1], x) = Stored(chain[1], x)

(* The stamp of the last push is as old as that push, however often the     *)
(* clock wrapped or was set: elaps_ms gets the time gone by from it.        *)
StampIsKept ==
  pushes # 0 /\ age \notin {-Lap, Lap} => (updatetime + age) % Lap = clock

(* While the cycle is not over another frame like the last one is no news:  *)
(* what a frame leaves in curValue and applyinfo is what the next one is    *)
(* compared with.                                                           *)
RepeatIsNoNews ==
  raw # << >> => ~update_iviproperty(definition, curValue, raw, applyinfo, FALSE).notify

(* The inductive invariant behind the properties below: stamp and values    *)
(* are those of the last push and of the last frame.                        *)
ThinOutInvariant == StampIsKept /\ RepeatIsNoNews

Undefinable(f) == \E i \in DOMAIN f : Undefined(definition[i], f[i])

Pushed == pushes' # pushes

(* "Same data in thinout_cycle": a frame that repeats the one before it is  *)
(* not pushed while the cycle that began with the last push has at least a  *)
(* millisecond to go.                                                       *)
NotRepeated ==
  [][\A f \in Raws :
       Frame(f) /\ pushes # 0 /\ f = raw /\ age \in 0..((cycle - 1) * TICKS_PER_MS)
       => ~Pushed]_vars

(* Once the cycle is over the next frame is pushed, changed or not, however *)
(* many frames were ignored before it - unless it is in error, and as long  *)
(* as less than the range of an unsigned int of milliseconds has gone by.   *)
PushedWhenDue ==
  [][\A f \in Raws :
       /\ Frame(f) /\ pushes # 0 /\ ~Undefinable(f)
       /\ age \in (cycle * TICKS_PER_MS)..((M32 - 1) * TICKS_PER_MS)
       => Pushed]_vars

(* A wall clock set back to before the last push does not silence the       *)
(* property until it has caught up: the next frame is pushed.               *)
SetBackIsHarmless ==
  [][\A f \in Raws :
       /\ Frame(f) /\ pushes # 0 /\ ~Undefinable(f)
       /\ age \in (-(M32 - cycle) * TICKS_PER_MS)..-TICKS_PER_MS
       => Pushed]_vars

=============================================================================
