--------------------------- MODULE ThinOutProofs ---------------------------
(***************************************************************************)
(* The thin-out cycle for every clock, cycle and chain of entries: the     *)
(* difference of two stamps is the time between them whatever lap they are *)
(* on, and an update leaves what recognises its own repetition.            *)
(***************************************************************************)
EXTENDS ThinOut, PropertyLemmas

-----------------------------------------------------------------------------
(* Division with a positive divisor.                                        *)

(* Quotient and remainder make up the number.                               *)
LEMMA DivMod ==
  ASSUME NEW a \in Int, NEW T \in Nat \ {0}
  PROVE  a \div T \in Int /\ a % T \in 0..(T - 1) /\ a = T * (a \div T) + (a % T)
OBVIOUS

(* A number below M is its own remainder after any laps.                    *)
LEMMA ModOfLaps ==
  ASSUME NEW M \in Nat \ {0}, NEW q \in 0..(M - 1), NEW k \in Int
  PROVE  (q + k * M) % M = q
OBVIOUS

(* Laps do not change a remainder.                                          *)
LEMMA ModShift ==
  ASSUME NEW a \in Int, NEW M \in Nat \ {0}, NEW k \in Int
  PROVE  (a + k * M) % M = a % M
<1>1. PICK d \in Int, r \in 0..(M - 1) : a = r + d * M
  <2>1. a \div M \in Int /\ a % M \in 0..(M - 1) /\ a = (a % M) + (a \div M) * M
    BY DivMod
  <2> QED BY <2>1
<1>2. a % M = r
  BY <1>1, ModOfLaps
<1>3. a + k * M = r + (d + k) * M
  BY <1>1
<1>4. (r + (d + k) * M) % M = r
  BY <1>1, ModOfLaps
<1> QED BY <1>2, <1>3, <1>4

(* A remainder may be taken before a sum.                                   *)
LEMMA ModOfSum ==
  ASSUME NEW a \in Int, NEW b \in Int, NEW M \in Nat \ {0}
  PROVE  ((a % M) + b) % M = (a + b) % M
<1>1. PICK d \in Int, r \in 0..(M - 1) : a % M = r /\ a = r + d * M
  <2>1. a \div M \in Int /\ a % M \in 0..(M - 1) /\ a = (a % M) + (a \div M) * M
    BY DivMod
  <2> QED BY <2>1
<1>2. PICK s \in Int : s = r + b
  BY <1>1
<1>3. a + b = s + d * M
  BY <1>1, <1>2
<1>4. (s + d * M) % M = s % M
  BY ModShift, Zenon
<1> QED BY <1>1, <1>2, <1>3, <1>4

(* Division by a positive number is monotone.                               *)
LEMMA DivMonotone ==
  ASSUME NEW a \in Int, NEW b \in Int, NEW T \in Nat \ {0}, a <= b
  PROVE  a \div T <= b \div T
OBVIOUS

(* And a multiple of the divisor can be taken out.                          *)
LEMMA DivShift ==
  ASSUME NEW a \in Int, NEW k \in Int, NEW T \in Nat \ {0}
  PROVE  (a + k * T) \div T = (a \div T) + k
OBVIOUS

(* Stamps of T ticks a millisecond are taken modulo M milliseconds: laps of *)
(* the clock do not show in a difference of milliseconds.                   *)
LEMMA LapsDoNotShow ==
  ASSUME NEW M \in Nat \ {0}, NEW T \in Nat \ {0}, NEW u \in Int, NEW a \in Int,
         NEW k \in Int
  PROVE  (((u + a + k * (M * T)) \div T) - (u \div T)) % M
           = (((u + a) \div T) - (u \div T)) % M
<1> DEFINE c == u + a + k * (M * T)
<1>1. PICK x \in Int, y \in Int : x = u + a /\ y = k * M
  OBVIOUS
<1>2. c = x + y * T
  <2>1. k * (M * T) = (k * M) * T
    OBVIOUS
  <2> QED BY <1>1, <2>1
<1> HIDE DEF c
<1>3. c \div T = (x \div T) + y
  <2>1. (x + y * T) \div T = (x \div T) + y
    BY DivShift, Zenon
  <2> QED BY <1>2, <2>1
<1>4. PICK p \in Int, q \in Int : p = x \div T /\ q = u \div T
  BY DivMod
<1>5. (c \div T) - (u \div T) = (p - q) + k * M
  BY <1>1, <1>3, <1>4
<1>6. ((p - q) + k * M) % M = (p - q) % M
  <2>1. p - q \in Int
    OBVIOUS
  <2> QED BY <2>1, ModShift, Zenon
<1> QED BY <1>1, <1>4, <1>5, <1>6 DEF c

(* Between lo and hi milliseconds of ticks are lo to hi milliseconds of     *)
(* stamps, whatever the first stamp.                                        *)
LEMMA MsOfTicks ==
  ASSUME NEW T \in Nat \ {0}, NEW u \in Int, NEW lo \in Int, NEW hi \in Int,
         NEW a \in Int, a \in (lo * T)..(hi * T)
  PROVE  ((u + a) \div T) - (u \div T) \in lo..hi
<1>1. u + lo * T <= u + a /\ u + a <= u + hi * T
  OBVIOUS
<1>2. (u + lo * T) \div T = (u \div T) + lo /\ (u + hi * T) \div T = (u \div T) + hi
  BY DivShift
<1>3. u + lo * T \in Int /\ u + hi * T \in Int /\ u + a \in Int
  OBVIOUS
<1>4. (u + lo * T) \div T <= (u + a) \div T /\ (u + a) \div T <= (u + hi * T) \div T
  BY <1>1, <1>3, DivMonotone
<1>5. u \div T \in Int /\ (u + a) \div T \in Int
  BY <1>3, DivMod
<1> QED BY <1>2, <1>4, <1>5

-----------------------------------------------------------------------------
(* What an update does the second time and the last.                        *)

(* A type whose comparison is its assignment recognises repeats: all but    *)
(* UINT8_T, and UINT16_T and BOOL_T with a table.                           *)
LEMMA TypesThatRecognise ==
  ASSUME NEW chain, IsChain(chain), chain[1].type # "UINT8_T",
         chain[1].conv = << >> \/ chain[1].type \notin {"UINT16_T", "BOOL_T"}
  PROVE  RecognisesRepeats(chain)
BY DEF RecognisesRepeats, Compared

(* One entry compared with what it stored itself reports no update.         *)
LEMMA ValueIsRecognised ==
  ASSUME NEW chain, IsChain(chain), Len(chain) = 1, RecognisesRepeats(chain),
         NEW cur, NEW x \in 0..chain[1].mask
  PROVE  UpdateValue(chain[1], UpdateValue(chain[1], cur, x).value, x).status # "UPDATED"
<1>1. CASE Undefined(chain[1], x) \/ chain[1].type \in NoValueTypes \/ Unset(chain[1], x)
  BY <1>1 DEF UpdateValue
<1>2. CASE ~ (Undefined(chain[1], x) \/ chain[1].type \in NoValueTypes \/ Unset(chain[1], x))
  <2>1. Compared(chain[1], x) = Stored(chain[1], x)
    BY <1>2 DEF RecognisesRepeats
  <2>2. UpdateValue(chain[1], cur, x).value = Compared(chain[1], x)
    BY <1>2, <2>1 DEF UpdateValue
  <2> QED BY <2>2 DEF UpdateValue
<1> QED BY <1>1, <1>2

(* An update leaves values and an applyinfo that make the same frame no    *)
(* news.                                                                    *)
LEMMA RepeatIsQuiet ==
  ASSUME NEW chain, IsChain(chain), RecognisesRepeats(chain),
         NEW cur, NEW given, \A i \in DOMAIN chain : given[i] \in 0..chain[i].mask,
         NEW applied, NEW expired
  PROVE  LET u == update_iviproperty(chain, cur, given, applied, expired)
         IN  ~update_iviproperty(chain, u.cur, given, u.applyinfo, FALSE).notify
<1>1. CASE Len(chain) > 1
  <2> DEFINE r       == [i \in DOMAIN chain |-> UpdateValue(chain[i], 0, given[i])]
             failed  == {i \in DOMAIN chain : r[i].status = "ERROR"}
             reached == {i \in DOMAIN chain : \A j \in 1..i : j \notin failed}
             filled  == [i \in DOMAIN chain |-> IF i \in reached THEN r[i].value ELSE 0]
             marked  == {i \in DOMAIN chain : r[i].status = "UPDATED"}
             u       == UpdateMulti(chain, cur, given, applied, expired)
  <2>1. /\ u.cur = filled
        /\ u.applyinfo = IF failed # {} \/ marked = {} THEN applied ELSE Max(marked)
    BY DEF UpdateMulti
  <2>2. UpdateMulti(chain, u.cur, given, u.applyinfo, FALSE).notify
          = IF failed # {} \/ marked = {} THEN FALSE
            ELSE Max(marked) # u.applyinfo \/ filled[Max(marked)] # u.cur[Max(marked)]
    BY DEF UpdateMulti
  <2> HIDE DEF u, r, failed, reached, filled, marked
  <2>3. ~UpdateMulti(chain, u.cur, given, u.applyinfo, FALSE).notify
    BY <2>1, <2>2
  <2> QED BY <1>1, <2>3 DEF u, update_iviproperty
<1>2. CASE ~ (Len(chain) > 1)
  <2> DEFINE u == UpdateSingle(chain, cur, given, applied, expired)
  <2>1. Len(chain) = 1 /\ 1 \in DOMAIN chain
    BY <1>2 DEF IsChain
  <2>2. u.cur[1] = UpdateValue(chain[1], cur[1], given[1]).value
    BY <2>1 DEF UpdateSingle
  <2>3. UpdateValue(chain[1], u.cur[1], given[1]).status # "UPDATED"
    BY <2>1, <2>2, ValueIsRecognised
  <2>4. ~UpdateSingle(chain, u.cur, given, u.applyinfo, FALSE).notify
    BY <2>3 DEF UpdateSingle
  <2> QED BY <1>2, <2>4 DEF update_iviproperty
<1> QED BY <1>1, <1>2

(* Once the cycle is over, a frame without an error is pushed.              *)
LEMMA ExpiredIsPushed ==
  ASSUME NEW chain, IsChain(chain), NEW cur, NEW given, NEW applied,
         \A i \in DOMAIN chain : ~Undefined(chain[i], given[i])
  PROVE  update_iviproperty(chain, cur, given, applied, TRUE).notify
<1>1. \A i \in DOMAIN chain : \A v : UpdateValue(chain[i], v, given[i]).status # "ERROR"
  BY DEF UpdateValue
<1>2. CASE Len(chain) > 1
  <2> DEFINE r      == [i \in DOMAIN chain |-> UpdateValue(chain[i], 0, given[i])]
             failed == {i \in DOMAIN chain : r[i].status = "ERROR"}
  <2>1. failed = {}
    BY <1>1
  <2>2. UpdateMulti(chain, cur, given, applied, TRUE).notify
    BY <2>1 DEF UpdateMulti
  <2> QED BY <1>2, <2>2 DEF update_iviproperty
<1>3. CASE ~ (Len(chain) > 1)
  <2>1. 1 \in DOMAIN chain
    BY <1>3 DEF IsChain
  <2>2. UpdateValue(chain[1], cur[1], given[1]).status \in {"ERROR", "NO_UPDATED", "UPDATED"}
    BY DEF UpdateValue
  <2>3. UpdateSingle(chain, cur, given, applied, TRUE).notify
    BY <1>1, <2>1, <2>2 DEF UpdateSingle
  <2> QED BY <1>3, <2>3 DEF update_iviproperty
<1> QED BY <1>2, <1>3

-----------------------------------------------------------------------------
(* Types.                                                                   *)

(* A clock of M32 milliseconds has ticks.                                   *)
LEMMA LapType == Lap \in Nat \ {0} /\ M32 \in Nat \ {0} /\ TICKS_PER_MS \in Nat \ {0}
<1>1. M32 \in Nat \ {0} /\ TICKS_PER_MS \in Nat \ {0}
  BY WidthAssumption, ThinOutAssumption
<1>2. \A m \in Nat \ {0}, t \in Nat \ {0} : m * t \in Nat \ {0}
  OBVIOUS
<1> QED BY <1>1, <1>2 DEF Lap

(* The cycle is an unsigned int.                                            *)
LEMMA CycleType == cycle \in 0..(M32 - 1)
BY WidthAssumption, ThinOutAssumption DEF cycle

(* The raw numbers of a frame fit their fields.                             *)
LEMMA RawsType ==
  ASSUME TypeOK, NEW f \in Raws
  PROVE  /\ IsChain(definition) /\ f \in [DOMAIN definition -> Nat]
         /\ \A i \in DOMAIN definition : f[i] \in 0..definition[i].mask
<1>1. IsChain(definition)
  BY ThinOutAssumption DEF TypeOK
<1>2. \A i \in DOMAIN definition : definition[i].mask \in Nat
  BY <1>1, WidthAssumption DEF IsChain, IsEntry
<1>3. \A i \in DOMAIN definition : f[i] \in Nat
  BY <1>2 DEF Raws
<1>4. f \in [DOMAIN definition -> Nat]
  BY <1>3 DEF Raws
<1>5. \A i \in DOMAIN definition : f[i] <= definition[i].mask
  BY DEF Raws
<1> QED BY <1>1, <1>2, <1>3, <1>4, <1>5

(* elaps_ms gives an unsigned int.                                          *)
LEMMA ElapsType == ASSUME TypeOK PROVE elaps_ms(updatetime, clock) \in 0..(M32 - 1)
<1>1. Ms(clock) - Ms(updatetime) \in Int
  BY LapType, DivMod DEF TypeOK, Ms
<1> QED BY <1>1, LapType, DivMod DEF elaps_ms

(* Initial values are well typed.                                           *)
LEMMA InitType == Init => TypeOK
BY LapType DEF Init, TypeOK

(* The clock stays below Lap and age between -Lap and Lap.                  *)
LEMMA AdvanceType == ASSUME TypeOK, NEW d \in Int, Advance(d) PROVE TypeOK'
<1>1. clock' \in 0..(Lap - 1)
  <2>1. clock + d \in Int
    BY LapType DEF TypeOK
  <2> QED BY <2>1, LapType, DivMod DEF Advance
<1>2. age' \in -Lap..Lap
  BY LapType DEF Advance, TypeOK
<1>3. Raws' = Raws
  BY DEF Advance, Raws
<1> QED BY <1>1, <1>2, <1>3 DEF Advance, TypeOK

(* So do values and stamp when a frame is handled.                          *)
LEMMA FrameType == ASSUME TypeOK, NEW f \in Raws, Frame(f) PROVE TypeOK'
<1>1. PICK expired \in BOOLEAN : expired = (elaps_ms(updatetime, clock) >= cycle)
  <2>1. (elaps_ms(updatetime, clock) >= cycle) \in BOOLEAN
    BY ElapsType, CycleType
  <2> QED BY <2>1, Zenon
<1>2. PICK u : /\ u = update_iviproperty(definition, curValue, f, applyinfo, expired)
               /\ curValue' = u.cur /\ applyinfo' = u.applyinfo /\ Stamp(u.notify)
               /\ raw' = f
               /\ pushes' = IF u.notify THEN (IF pushes = 1 THEN 2 ELSE 1) ELSE pushes
               /\ age' = IF u.notify THEN 0 ELSE age
               /\ UNCHANGED <<definition, clock>>
  BY <1>1 DEF Frame
<1>3. u.cur \in [DOMAIN definition -> Int] /\ u.applyinfo \in DOMAIN definition \cup {0}
  BY <1>1, <1>2, RawsType, UpdateType DEF TypeOK
<1>4. updatetime' \in 0..(Lap - 1) /\ pushes' \in 0..2 /\ age' \in -Lap..Lap
  BY <1>2, LapType DEF TypeOK, Stamp
<1>5. Raws' = Raws
  BY <1>2 DEF Raws
<1> QED BY <1>2, <1>3, <1>4, <1>5 DEF TypeOK

(* Every variable has its type in every state, for any chains, cycle, tick  *)
(* and settings of the clock.                                               *)
THEOREM ThinOutTypeCorrect == Spec => []TypeOK
<1>1. TypeOK /\ [Next]_vars => TypeOK'
  <2> SUFFICES ASSUME TypeOK, [Next]_vars
               PROVE  TypeOK'
    OBVIOUS
  <2>1. CASE UNCHANGED vars
    BY <2>1 DEF vars, TypeOK, Raws
  <2>2. CASE Tick
    BY <2>2, AdvanceType DEF Tick
  <2>3. CASE SetClock
    BY <2>3, AdvanceType, ThinOutAssumption DEF SetClock
  <2>4. CASE \E f \in Raws : Frame(f)
    BY <2>4, FrameType
  <2> QED BY <2>1, <2>2, <2>3, <2>4 DEF Next
<1> QED BY <1>1, InitType, PTL DEF Spec

-----------------------------------------------------------------------------
(* The stamp.                                                               *)

(* Moving the clock moves the age of the stamp.                             *)
LEMMA AdvanceKeepsStamp ==
  ASSUME TypeOK, StampIsKept, NEW d \in Int, Advance(d)
  PROVE  StampIsKept'
<1> SUFFICES ASSUME pushes' # 0, age' \notin {-Lap, Lap}
             PROVE  (updatetime' + age') % Lap = clock'
  BY DEF StampIsKept, Lap
<1>1. Lap \in Nat \ {0} /\ updatetime \in Int /\ age \in Int
  BY LapType DEF TypeOK
<1>2. pushes # 0 /\ age \notin {-Lap, Lap} /\ age' = age + d /\ updatetime' = updatetime
  BY <1>1 DEF Advance
<1>3. (updatetime + age) % Lap = clock /\ clock' = (clock + d) % Lap
  BY <1>2 DEF StampIsKept, Advance
<1>4. PICK a \in Int : a = updatetime + age
  BY <1>1
<1>5. ((a % Lap) + d) % Lap = (a + d) % Lap
  BY <1>1, ModOfSum
<1>6. updatetime' + age' = a + d
  BY <1>1, <1>2, <1>4
<1> QED BY <1>3, <1>4, <1>5, <1>6

(* A push stamps the property with the clock; nothing else stamps it.       *)
LEMMA FrameKeepsStamp ==
  ASSUME TypeOK, StampIsKept, NEW f \in Raws, Frame(f)
  PROVE  StampIsKept'
<1> SUFFICES ASSUME pushes' # 0, age' \notin {-Lap, Lap}
             PROVE  (updatetime' + age') % Lap = clock'
  BY DEF StampIsKept, Lap
<1>1. PICK notify :
        /\ Stamp(notify)
        /\ pushes' = IF notify THEN (IF pushes = 1 THEN 2 ELSE 1) ELSE pushes
        /\ age' = IF notify THEN 0 ELSE age
        /\ clock' = clock
  BY DEF Frame
<1>2. CASE notify
  <2>1. updatetime' = clock /\ age' = 0 /\ clock \in 0..(Lap - 1)
    BY <1>1, <1>2 DEF Stamp, TypeOK
  <2>2. clock % Lap = clock
    BY <2>1, LapType
  <2> QED BY <1>1, <2>1, <2>2, LapType
<1>3. CASE ~notify
  BY <1>1, <1>3 DEF Stamp, StampIsKept
<1> QED BY <1>2, <1>3

(* An age of less than M32 milliseconds in either direction is no end of    *)
(* the range age is kept in.                                                *)
LEMMA WithinLap ==
  ASSUME TypeOK, NEW lo \in Int, NEW hi \in Int, -M32 < lo, hi < M32,
         age \in (lo * TICKS_PER_MS)..(hi * TICKS_PER_MS)
  PROVE  age \notin {-Lap, Lap}
<1>1. \A x \in Int, y \in Int, t \in Nat \ {0} : x < y => x * t < y * t
  OBVIOUS
<1>2. /\ M32 \in Int /\ TICKS_PER_MS \in Nat \ {0} /\ Lap \in Int /\ age \in Int
      /\ (-M32) * TICKS_PER_MS = -Lap
  BY LapType DEF Lap, TypeOK
<1>3. (-M32) * TICKS_PER_MS < lo * TICKS_PER_MS /\ hi * TICKS_PER_MS < M32 * TICKS_PER_MS
  BY <1>1, <1>2
<1>4. PICK x \in Int, y \in Int : x = lo * TICKS_PER_MS /\ y = hi * TICKS_PER_MS
  BY <1>2
<1>5. -Lap < x /\ y < Lap /\ age \in x..y
  BY <1>2, <1>3, <1>4 DEF Lap
<1> QED BY <1>2, <1>5

(* elaps_ms is the milliseconds since the last push, modulo M32, as long as *)
(* that was less than a lap ago.                                            *)
LEMMA ElapsIsAge ==
  ASSUME TypeOK, StampIsKept, pushes # 0, age \notin {-Lap, Lap},
         NEW lo \in Int, NEW hi \in Int, age \in (lo * TICKS_PER_MS)..(hi * TICKS_PER_MS)
  PROVE  \E q \in lo..hi : elaps_ms(updatetime, clock) = q % M32
<1>1. /\ M32 \in Nat \ {0} /\ TICKS_PER_MS \in Nat \ {0} /\ Lap \in Nat \ {0}
      /\ updatetime \in Int /\ age \in Int /\ clock \in Int
  BY LapType DEF TypeOK
<1>2. PICK k \in Int : clock = updatetime + age + k * Lap
  <2>1. PICK a \in Int : a = updatetime + age
    BY <1>1
  <2>2. a % Lap = clock
    BY <2>1 DEF StampIsKept
  <2>3. PICK z \in Int : z = a \div Lap /\ a = Lap * z + clock
    BY <1>1, <2>2, DivMod
  <2>4. clock = a + (-z) * Lap
    BY <1>1, <2>3
  <2> QED BY <2>1, <2>4
<1> DEFINE q == ((updatetime + age) \div TICKS_PER_MS) - (updatetime \div TICKS_PER_MS)
<1>3. q \in lo..hi
  BY <1>1, MsOfTicks
<1>4. elaps_ms(updatetime, clock) = q % M32
  <2>1. clock = updatetime + age + k * (M32 * TICKS_PER_MS)
    BY <1>2 DEF Lap
  <2>2. ((clock \div TICKS_PER_MS) - (updatetime \div TICKS_PER_MS)) % M32 = q % M32
    BY <1>1, <2>1, LapsDoNotShow, Zenon
  <2> QED BY <2>2 DEF elaps_ms, Ms
<1> QED BY <1>3, <1>4

(* Moving the clock touches neither values nor frame.                       *)
LEMMA AdvanceKeepsNews ==
  ASSUME RepeatIsNoNews, NEW d, Advance(d)
  PROVE  RepeatIsNoNews'
<1>1. UNCHANGED <<definition, curValue, applyinfo, raw>>
  BY DEF Advance
<1> QED BY <1>1 DEF RepeatIsNoNews

(* A frame leaves what recognises it.                                       *)
LEMMA FrameKeepsNews ==
  ASSUME TypeOK, \A chain \in Definitions : RecognisesRepeats(chain),
         NEW f \in Raws, Frame(f)
  PROVE  RepeatIsNoNews'
<1>1. PICK expired :
        /\ curValue' = update_iviproperty(definition, curValue, f, applyinfo, expired).cur
        /\ applyinfo' = update_iviproperty(definition, curValue, f, applyinfo, expired).applyinfo
        /\ raw' = f /\ definition' = definition
  BY DEF Frame
<1>2. /\ IsChain(definition) /\ RecognisesRepeats(definition)
      /\ \A i \in DOMAIN definition : f[i] \in 0..definition[i].mask
  BY RawsType DEF TypeOK
<1>3. ~update_iviproperty(definition, curValue', f, applyinfo', FALSE).notify
  BY <1>1, <1>2, RepeatIsQuiet
<1>4. ~update_iviproperty(definition, curValue, raw, applyinfo, FALSE).notify'
  BY <1>1, <1>3
<1> QED BY <1>4 DEF RepeatIsNoNews

(* The stamp of the last push is as old as that push, in every state.       *)
LEMMA StampStays == Spec => []StampIsKept
<1>1. Init => StampIsKept
  BY DEF Init, StampIsKept
<1>2. TypeOK /\ StampIsKept /\ [Next]_vars => StampIsKept'
  <2> SUFFICES ASSUME TypeOK, StampIsKept, [Next]_vars
               PROVE  StampIsKept'
    OBVIOUS
  <2>1. CASE UNCHANGED vars
    BY <2>1 DEF vars, StampIsKept, Lap
  <2>2. CASE Tick
    BY <2>2, AdvanceKeepsStamp DEF Tick
  <2>3. CASE SetClock
    BY <2>3, AdvanceKeepsStamp, ThinOutAssumption DEF SetClock
  <2>4. CASE \E f \in Raws : Frame(f)
    BY <2>4, FrameKeepsStamp
  <2> QED BY <2>1, <2>2, <2>3, <2>4 DEF Next
<1> QED BY <1>1, <1>2, ThinOutTypeCorrect, PTL DEF Spec

(* Both parts of the invariant hold in every state, if all chains recognise *)
(* their repeats; the run thin_byte shows that this is needed.              *)
THEOREM ThinOutInvariantHolds ==
  (\A chain \in Definitions : RecognisesRepeats(chain)) => (Spec => []ThinOutInvariant)
<1> SUFFICES ASSUME \A chain \in Definitions : RecognisesRepeats(chain)
             PROVE  Spec => []ThinOutInvariant
  OBVIOUS
<1>1. Init => RepeatIsNoNews
  BY DEF Init, RepeatIsNoNews
<1>2. TypeOK /\ RepeatIsNoNews /\ [Next]_vars => RepeatIsNoNews'
  <2> SUFFICES ASSUME TypeOK, RepeatIsNoNews, [Next]_vars
               PROVE  RepeatIsNoNews'
    OBVIOUS
  <2>1. CASE UNCHANGED vars
    BY <2>1 DEF vars, RepeatIsNoNews
  <2>2. CASE Tick \/ SetClock
    BY <2>2, AdvanceKeepsNews DEF Tick, SetClock
  <2>3. CASE \E f \in Raws : Frame(f)
    BY <2>3, FrameKeepsNews
  <2> QED BY <2>1, <2>2, <2>3 DEF Next
<1>3. StampIsKept /\ RepeatIsNoNews => ThinOutInvariant
  BY DEF ThinOutInvariant
<1> QED BY <1>1, <1>2, <1>3, ThinOutTypeCorrect, StampStays, PTL DEF Spec

-----------------------------------------------------------------------------
(* What frames are pushed.                                                  *)

(* A frame is pushed exactly when update_iviproperty says so.               *)
LEMMA PushedIsNotify ==
  ASSUME TypeOK, NEW f \in Raws, Frame(f)
  PROVE  Pushed <=> update_iviproperty(definition, curValue, f, applyinfo,
                                       elaps_ms(updatetime, clock) >= cycle).notify
BY DEF Frame, Pushed, TypeOK

(* A frame is pushed when it has no error and the cycle is over.            *)
LEMMA OverIsPushed ==
  ASSUME TypeOK, NEW f \in Raws, Frame(f), ~Undefinable(f),
         elaps_ms(updatetime, clock) >= cycle
  PROVE  Pushed
<1>1. \A i \in DOMAIN definition : ~Undefined(definition[i], f[i])
  BY DEF Undefinable, Raws
<1>2. (elaps_ms(updatetime, clock) >= cycle) = TRUE
  BY ElapsType, CycleType
<1> QED BY <1>1, <1>2, RawsType, PushedIsNotify, ExpiredIsPushed

(* Once the cycle is over, the next frame without an error is pushed: no    *)
(* number of ignored frames, wraps or settings of the clock in between      *)
(* makes elaps_ms forget that.                                              *)
THEOREM DueIsPushed == Spec => PushedWhenDue
<1>1. TypeOK /\ StampIsKept /\ [Next]_vars =>
        [\A f \in Raws :
           /\ Frame(f) /\ pushes # 0 /\ ~Undefinable(f)
           /\ age \in (cycle * TICKS_PER_MS)..((M32 - 1) * TICKS_PER_MS)
           => Pushed]_vars
  <2> SUFFICES ASSUME TypeOK, StampIsKept, NEW f \in Raws, Frame(f), pushes # 0, ~Undefinable(f),
                      age \in (cycle * TICKS_PER_MS)..((M32 - 1) * TICKS_PER_MS)
               PROVE  Pushed
    OBVIOUS
  <2>1. cycle \in Int /\ M32 - 1 \in Int /\ 0 <= cycle
    BY CycleType, LapType
  <2>2. age \notin {-Lap, Lap}
    BY <2>1, LapType, WithinLap
  <2>3. PICK q \in cycle..(M32 - 1) : elaps_ms(updatetime, clock) = q % M32
    BY <2>1, <2>2, ElapsIsAge
  <2>4. q % M32 = q
    BY <2>1, <2>3, LapType
  <2> QED BY <2>1, <2>3, <2>4, OverIsPushed
<1> QED BY <1>1, ThinOutTypeCorrect, StampStays, PTL DEF Spec, PushedWhenDue

(* A clock set back does not silence the property: the difference of the    *)
(* stamps, as an unsigned number, is larger than the cycle.                 *)
THEOREM SetBackIsPushed == Spec => SetBackIsHarmless
<1>1. TypeOK /\ StampIsKept /\ [Next]_vars =>
        [\A f \in Raws :
           /\ Frame(f) /\ pushes # 0 /\ ~Undefinable(f)
           /\ age \in (-(M32 - cycle) * TICKS_PER_MS)..-TICKS_PER_MS
           => Pushed]_vars
  <2> SUFFICES ASSUME TypeOK, StampIsKept, NEW f \in Raws, Frame(f), pushes # 0, ~Undefinable(f),
                      age \in (-(M32 - cycle) * TICKS_PER_MS)..-TICKS_PER_MS
               PROVE  Pushed
    OBVIOUS
  <2>1. cycle \in 0..(M32 - 1) /\ M32 \in Nat \ {0} /\ TICKS_PER_MS \in Nat \ {0}
    BY CycleType, LapType
  <2>2. CASE cycle = 0
    <3>1. elaps_ms(updatetime, clock) >= cycle
      BY <2>2, ElapsType, <2>1
    <3> QED BY <3>1, OverIsPushed
  <2>3. CASE cycle # 0
    <3>1. PICK lo \in Int : lo = -(M32 - cycle) /\ -M32 < lo
      BY <2>1, <2>3
    <3>2. age \in (lo * TICKS_PER_MS)..((-1) * TICKS_PER_MS)
      BY <2>1, <3>1
    <3>3. age \notin {-Lap, Lap}
      BY <2>1, <3>1, <3>2, WithinLap
    <3>4. PICK q \in lo..(-1) : elaps_ms(updatetime, clock) = q % M32
      BY <3>2, <3>3, ElapsIsAge
    <3>5. q % M32 = q + M32
      <4>1. PICK p \in 0..(M32 - 1), back \in Int : p = q + M32 /\ back = -1
        BY <2>1, <3>1, <3>4
      <4>2. (p + back * M32) % M32 = p
        BY <2>1, ModOfLaps, Zenon
      <4>3. p + back * M32 = q
        BY <2>1, <3>4, <4>1
      <4> QED BY <4>1, <4>2, <4>3
    <3>6. elaps_ms(updatetime, clock) >= cycle
      BY <2>1, <3>1, <3>4, <3>5
    <3> QED BY <3>6, OverIsPushed
  <2> QED BY <2>2, <2>3
<1> QED BY <1>1, ThinOutTypeCorrect, StampStays, PTL DEF Spec, SetBackIsHarmless

(* "Same data in thinout_cycle": a frame that repeats the one before it is  *)
(* ignored while the cycle has at least a millisecond to go, if the types   *)
(* of the property recognise a repeat.                                      *)
THEOREM RepeatIsIgnored ==
  (\A chain \in Definitions : RecognisesRepeats(chain)) => (Spec => NotRepeated)
<1> SUFFICES ASSUME \A chain \in Definitions : RecognisesRepeats(chain)
             PROVE  Spec => NotRepeated
  OBVIOUS
<1>1. TypeOK /\ ThinOutInvariant /\ [Next]_vars =>
        [\A f \in Raws :
           Frame(f) /\ pushes # 0 /\ f = raw /\ age \in 0..((cycle - 1) * TICKS_PER_MS)
           => ~Pushed]_vars
  <2> SUFFICES ASSUME TypeOK, ThinOutInvariant, NEW f \in Raws, Frame(f), pushes # 0, f = raw,
                      age \in 0..((cycle - 1) * TICKS_PER_MS)
               PROVE  ~Pushed
    OBVIOUS
  <2>1. cycle \in 0..(M32 - 1) /\ M32 \in Nat \ {0} /\ TICKS_PER_MS \in Nat \ {0}
    BY CycleType, LapType
  <2>2. PICK hi \in Int : hi = cycle - 1 /\ hi < M32
    BY <2>1
  <2>3. age \in (0 * TICKS_PER_MS)..(hi * TICKS_PER_MS)
    BY <2>1, <2>2
  <2>4. age \notin {-Lap, Lap}
    BY <2>1, <2>2, <2>3, WithinLap
  <2>5. PICK q \in 0..hi : elaps_ms(updatetime, clock) = q % M32
    BY <2>2, <2>3, <2>4, ElapsIsAge DEF ThinOutInvariant
  <2>6. q % M32 = q /\ q < cycle
    BY <2>1, <2>2, <2>5
  <2>7. (elaps_ms(updatetime, clock) >= cycle) = FALSE
    BY <2>1, <2>2, <2>5, <2>6
  <2>8. raw # << >>
    BY RawsType DEF IsChain
  <2>9. ~update_iviproperty(definition, curValue, f, applyinfo, FALSE).notify
    BY <2>8 DEF ThinOutInvariant, RepeatIsNoNews
  <2> QED BY <2>7, <2>9, PushedIsNotify
<1> QED BY <1>1, ThinOutTypeCorrect, ThinOutInvariantHolds, PTL DEF Spec, NotRepeated

=============================================================================
