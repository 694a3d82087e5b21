--------------------------- MODULE PropertyLemmas ---------------------------
(***************************************************************************)
(* What the operators of PropertyValue and PropertyUpdate return, and why  *)
(* update_iviproperty never loses a change: the facts that the proofs      *)
(* about the subscription service rest on.                                 *)
(***************************************************************************)
EXTENDS PropertyUpdate, FiniteSetTheorems, TLAPS

(* A non-empty set of positions in a chain has a greatest element: the entry*)
(* update_iviproperty marks last is well defined.                           *)
LEMMA MaxOfPositions ==
  ASSUME NEW n \in Nat, NEW S \in SUBSET (1..n), S # {}
  PROVE  Max(S) \in S /\ \A i \in S : i <= Max(S)
<1> DEFINE T == {n - i : i \in S}
           R == {ss \in Nat \X Nat : ss[1] < ss[2]}
<1>1. \A i \in S : i \in Nat /\ i <= n /\ n - i \in Nat
  OBVIOUS
<1>2. T \subseteq Nat /\ T # {}
  BY <1>1
<1>3. IsWellFoundedOn(R, Nat)
  BY NatLessThanWellFounded DEF OpToRel
<1>4. PICK m \in T : \A k \in T : ~ (<<k, m>> \in R)
  <2> HIDE DEF T, R
  <2> QED BY <1>2, <1>3, WFMin
<1>5. \A k \in T : ~ (k < m)
  BY <1>2, <1>4
<1>6. PICK x \in S : m = n - x
  OBVIOUS
<1>7. ASSUME NEW i \in S PROVE x >= i
  <2>1. ~ (n - i < n - x)
    BY <1>5, <1>6
  <2>2. x \in Nat /\ i \in Nat
    BY <1>1
  <2> HIDE DEF T, R
  <2> QED BY <2>1, <2>2
<1> QED BY <1>1, <1>7 DEF Max

(* A remainder is less than its divisor.                                    *)
LEMMA ModRange ==
  ASSUME NEW m \in Nat, 1 < m, NEW y \in Int
  PROVE  y % m \in 0..(m - 1)
OBVIOUS

(* The C conversions give integers, the unsigned one a number below m.      *)
LEMMA SignedType ==
  ASSUME NEW m \in Nat, 1 < m, NEW y \in Int
  PROVE  Signed(m, y) \in Int /\ Unsigned(m, y) \in 0..(m - 1)
<1> DEFINE r == y % m
<1>1. r \in 0..(m - 1)
  BY ModRange
<1> HIDE DEF r
<1>2. (IF 2 * r >= m THEN r - m ELSE r) \in Int
  BY <1>1
<1> QED BY <1>1, <1>2 DEF Signed, Unsigned, r

(* The number a type's case reads, raw or from the table, is an integer.    *)
LEMMA SourceType ==
  ASSUME NEW e, IsEntry(e), e.type # "STRING_T", NEW x \in Nat, ~Undefined(e, x)
  PROVE  Source(e, x) \in Int
<1>1. CASE e.conv = << >>
  BY <1>1 DEF Source
<1>2. CASE e.conv # << >>
  <2>1. e.conv \in Seq(Int)
    BY DEF IsEntry
  <2>2. x + 1 \in DOMAIN e.conv
    BY <1>2, <2>1 DEF Undefined
  <2> QED BY <1>2, <2>1, <2>2 DEF Source
<1> QED BY <1>1, <1>2

(* What a type's case stores in curValue is an integer.                     *)
LEMMA StoredType ==
  ASSUME NEW e, IsEntry(e), e.type \notin NoValueTypes, NEW x \in Nat, ~Undefined(e, x)
  PROVE  Stored(e, x) \in Int
<1>1. CASE e.type = "STRING_T"
  BY <1>1 DEF Stored
<1>2. CASE e.type # "STRING_T"
  <2> DEFINE s == Source(e, x)
  <2>1. s \in Int
    BY <1>2, SourceType
  <2>2. M8 \in Nat /\ M16 \in Nat /\ M32 \in Nat /\ 1 < M8 /\ 1 < M16 /\ 1 < M32
    BY WidthAssumption
  <2> HIDE DEF s
  <2>3. /\ Signed(M8, s) \in Int /\ Signed(M16, s) \in Int /\ Signed(M32, s) \in Int
        /\ Unsigned(M8, s) \in Int /\ Unsigned(M16, s) \in Int /\ Unsigned(M32, s) \in Int
    BY <2>1, <2>2, SignedType
  <2>4. e.type \in VarType \ NoValueTypes
    BY DEF IsEntry
  <2> QED BY <1>2, <2>1, <2>3, <2>4 DEF Stored, Truth, s, VarType, IntTypes, NoValueTypes
<1> QED BY <1>1, <1>2

(* _updatePropertyValue leaves an integer in curValue and returns one of the*)
(* three values of update_stat_t.                                           *)
LEMMA UpdateValueType ==
  ASSUME NEW e, IsEntry(e), NEW cur \in Int, NEW x \in Nat
  PROVE  /\ UpdateValue(e, cur, x).value \in Int
         /\ UpdateValue(e, cur, x).status \in {"ERROR", "NO_UPDATED", "UPDATED"}
BY StoredType DEF UpdateValue

(* A frame leaves the value, applyinfo and the decision to notify of a      *)
(* property with one entry well typed.                                      *)
LEMMA UpdateSingleType ==
  ASSUME NEW chain, IsChain(chain), Len(chain) = 1,
         NEW cur \in [DOMAIN chain -> Int], NEW raw \in [DOMAIN chain -> Nat],
         NEW applyinfo \in DOMAIN chain \cup {0}, NEW expired \in BOOLEAN
  PROVE  LET u == UpdateSingle(chain, cur, raw, applyinfo, expired)
         IN  /\ u.cur \in [DOMAIN chain -> Int]
             /\ u.applyinfo \in DOMAIN chain \cup {0}
             /\ u.notify \in BOOLEAN
<1>1. 1 \in DOMAIN chain /\ IsEntry(chain[1]) /\ cur[1] \in Int /\ raw[1] \in Nat
  BY DEF IsChain
<1>2. UpdateValue(chain[1], cur[1], raw[1]).value \in Int
  BY <1>1, UpdateValueType
<1> QED BY <1>2 DEF UpdateSingle

(* The same for a multi-property, whichever entry is marked.                *)
LEMMA UpdateMultiType ==
  ASSUME NEW chain, IsChain(chain),
         NEW cur \in [DOMAIN chain -> Int], NEW raw \in [DOMAIN chain -> Nat],
         NEW applyinfo \in DOMAIN chain \cup {0}, NEW expired \in BOOLEAN
  PROVE  LET u == UpdateMulti(chain, cur, raw, applyinfo, expired)
         IN  /\ u.cur \in [DOMAIN chain -> Int]
             /\ u.applyinfo \in DOMAIN chain \cup {0}
             /\ u.notify \in BOOLEAN
<1> DEFINE r       == [i \in DOMAIN chain |-> UpdateValue(chain[i], 0, raw[i])]
           failed  == {i \in DOMAIN chain : r[i].status = "ERROR"}
           reached == {i \in DOMAIN chain : \A j \in 1..i : j \notin failed}
           filled  == [i \in DOMAIN chain |-> IF i \in reached THEN r[i].value ELSE 0]
           marked  == {i \in DOMAIN chain : r[i].status = "UPDATED"}
<1>1. \A i \in DOMAIN chain : r[i].value \in Int
  BY UpdateValueType DEF IsChain
<1>2. filled \in [DOMAIN chain -> Int]
  BY <1>1
<1>3. marked # {} => Max(marked) \in DOMAIN chain
  <2>1. DOMAIN chain = 1..Len(chain) /\ Len(chain) \in Nat
    BY DEF IsChain
  <2>2. marked \in SUBSET (1..Len(chain))
    BY <2>1
  <2> HIDE DEF marked
  <2> QED BY <2>1, <2>2, MaxOfPositions
<1> HIDE DEF r, failed, reached, filled, marked
<1>4. /\ UpdateMulti(chain, cur, raw, applyinfo, expired).cur = filled
      /\ UpdateMulti(chain, cur, raw, applyinfo, expired).applyinfo
           = IF failed # {} \/ marked = {} THEN applyinfo ELSE Max(marked)
      /\ UpdateMulti(chain, cur, raw, applyinfo, expired).notify
           = IF failed # {} THEN FALSE
             ELSE IF marked = {} THEN expired
             ELSE Max(marked) # applyinfo \/ filled[Max(marked)] # cur[Max(marked)] \/ expired
  BY DEF UpdateMulti, r, failed, reached, filled, marked
<1> QED BY <1>2, <1>3, <1>4

(* The same for update_iviproperty.                                         *)
LEMMA UpdateType ==
  ASSUME NEW chain, IsChain(chain),
         NEW cur \in [DOMAIN chain -> Int], NEW raw \in [DOMAIN chain -> Nat],
         NEW applyinfo \in DOMAIN chain \cup {0}, NEW expired \in BOOLEAN
  PROVE  LET u == update_iviproperty(chain, cur, raw, applyinfo, expired)
         IN  /\ u.cur \in [DOMAIN chain -> Int]
             /\ u.applyinfo \in DOMAIN chain \cup {0}
             /\ u.notify \in BOOLEAN
<1>1. CASE Len(chain) > 1
  BY <1>1, UpdateMultiType DEF update_iviproperty
<1>2. CASE ~ (Len(chain) > 1)
  <2> Len(chain) = 1
    BY <1>2 DEF IsChain
  <2> QED BY <1>2, UpdateSingleType DEF update_iviproperty
<1> QED BY <1>1, <1>2

-----------------------------------------------------------------------------
(* An unsigned value that equals the signed conversion of a number equals   *)
(* its unsigned conversion: the (int8_t) and (int16_t) casts in the         *)
(* comparisons of UINT8_T and UINT16_T may report a change too often, never *)
(* too seldom.                                                              *)
LEMMA SignedIsUnsigned ==
  ASSUME NEW m \in Nat, 1 < m, NEW y \in Int
  PROVE  /\ Signed(m, y) \in 0..(m - 1) => Signed(m, y) = Unsigned(m, y)
         /\ Unsigned(m, y) = 0 => Signed(m, y) = 0
<1> DEFINE r == y % m
<1>1. r \in 0..(m - 1)
  BY ModRange
<1> HIDE DEF r
<1>2. LET s == IF 2 * r >= m THEN r - m ELSE r
      IN  (s \in 0..(m - 1) => s = r) /\ (r = 0 => s = 0)
  BY <1>1
<1> QED BY <1>2 DEF Signed, Unsigned, r

(* The values an entry of an unsigned type or of BOOL_T can hold.           *)
LEMMA UnsignedTypesRange ==
  ASSUME NEW e, IsEntry(e), NEW v, Possible(e, v)
  PROVE  /\ e.type = "UINT8_T" => v \in 0..(M8 - 1)
         /\ e.type = "UINT16_T" => v \in 0..(M16 - 1)
         /\ e.type = "BOOL_T" => v \in {0, 1}
<1>1. M8 \in Nat /\ M16 \in Nat /\ 1 < M8 /\ 1 < M16
  BY WidthAssumption
<1>2. CASE v = 0
  BY <1>1, <1>2
<1>3. ASSUME NEW x \in 0..e.mask, ~Undefined(e, x), v = Stored(e, x)
      PROVE  /\ e.type = "UINT8_T" => v \in 0..(M8 - 1)
             /\ e.type = "UINT16_T" => v \in 0..(M16 - 1)
             /\ e.type = "BOOL_T" => v \in {0, 1}
  <2>1. CASE e.type = "BOOL_T"
    BY <2>1, <1>3 DEF Stored, Truth
  <2>2. ASSUME e.type # "STRING_T" PROVE Source(e, x) \in Int
    <3> x \in Nat
      OBVIOUS
    <3> QED BY <2>2, <1>3, SourceType
  <2>3. CASE e.type = "UINT8_T"
    <3>1. Stored(e, x) = Unsigned(M8, Source(e, x))
      BY <2>3 DEF Stored
    <3> QED BY <3>1, <2>2, <2>3, <1>1, <1>3, SignedType
  <2>4. CASE e.type = "UINT16_T"
    <3>1. Stored(e, x) = Unsigned(M16, Source(e, x))
      BY <2>4 DEF Stored
    <3> QED BY <3>1, <2>2, <2>4, <1>1, <1>3, SignedType
  <2> QED BY <2>1, <2>3, <2>4
<1> QED BY <1>2, <1>3 DEF Possible

(* When the comparison finds nothing changed, curValue already is the value *)
(* the case would store, for every type, in spite of the different casts.   *)
LEMMA UnchangedIsStored ==
  ASSUME NEW e, IsEntry(e), NEW x \in 0..e.mask, ~Undefined(e, x),
         NEW cur, Possible(e, cur), cur = Compared(e, x)
  PROVE  cur = Stored(e, x)
<1>1. M8 \in Nat /\ M16 \in Nat /\ 1 < M8 /\ 1 < M16 /\ x \in Nat
  BY WidthAssumption
<1>2. CASE e.type = "UINT8_T"
  <2>1. Stored(e, x) = Unsigned(M8, Source(e, x)) /\ Compared(e, x) = Signed(M8, Source(e, x))
    BY <1>2 DEF Stored, Compared
  <2> QED BY <1>1, <1>2, <2>1, SourceType, SignedIsUnsigned, UnsignedTypesRange
<1>3. CASE e.type = "UINT16_T" /\ e.conv # << >>
  <2>1. Stored(e, x) = Unsigned(M16, Source(e, x)) /\ Compared(e, x) = Signed(M16, Source(e, x))
    BY <1>3 DEF Stored, Compared
  <2> QED BY <1>1, <1>3, <2>1, SourceType, SignedIsUnsigned, UnsignedTypesRange
<1>4. CASE e.type = "BOOL_T" /\ e.conv # << >>
  <2>1. Stored(e, x) = Truth(Source(e, x)) /\ Compared(e, x) = Source(e, x)
    BY <1>4 DEF Stored, Compared
  <2> QED BY <1>4, <2>1, UnsignedTypesRange DEF Truth
<1>5. CASE ~ (\/ e.type = "UINT8_T"
              \/ e.type = "UINT16_T" /\ e.conv # << >>
              \/ e.type = "BOOL_T" /\ e.conv # << >>)
  <2> Compared(e, x) = Stored(e, x)
    BY <1>5 DEF Compared
  <2> QED OBVIOUS
<1> QED BY <1>2, <1>3, <1>4, <1>5

(* A value of 0 in a cleared entry is not reported as an update.            *)
LEMMA ZeroIsUnchanged ==
  ASSUME NEW e, IsEntry(e), NEW x \in 0..e.mask, ~Undefined(e, x), Stored(e, x) = 0
  PROVE  Compared(e, x) = 0
<1>1. M8 \in Nat /\ M16 \in Nat /\ 1 < M8 /\ 1 < M16 /\ x \in Nat
  BY WidthAssumption
<1>2. CASE e.type = "UINT8_T"
  <2>1. Stored(e, x) = Unsigned(M8, Source(e, x)) /\ Compared(e, x) = Signed(M8, Source(e, x))
    BY <1>2 DEF Stored, Compared
  <2> QED BY <1>1, <1>2, <2>1, SourceType, SignedIsUnsigned
<1>3. CASE e.type = "UINT16_T" /\ e.conv # << >>
  <2>1. Stored(e, x) = Unsigned(M16, Source(e, x)) /\ Compared(e, x) = Signed(M16, Source(e, x))
    BY <1>3 DEF Stored, Compared
  <2> QED BY <1>1, <1>3, <2>1, SourceType, SignedIsUnsigned
<1>4. CASE e.type = "BOOL_T" /\ e.conv # << >>
  <2>1. Stored(e, x) = Truth(Source(e, x)) /\ Compared(e, x) = Source(e, x)
    BY <1>4 DEF Stored, Compared
  <2> QED BY <2>1 DEF Truth
<1>5. CASE ~ (\/ e.type = "UINT8_T"
              \/ e.type = "UINT16_T" /\ e.conv # << >>
              \/ e.type = "BOOL_T" /\ e.conv # << >>)
  <2> Compared(e, x) = Stored(e, x)
    BY <1>5 DEF Compared
  <2> QED OBVIOUS
<1> QED BY <1>2, <1>3, <1>4, <1>5

(* A value that is reported is never one of those stored in silence, when   *)
(* the table of an ENABLE1_T does not repeat its first entry.               *)
LEMMA ToldIsNotSilent ==
  ASSUME NEW e, IsEntry(e), NEW x \in 0..e.mask, ~Undefined(e, x), ~Unset(e, x),
         e.type = "ENABLE1_T" =>
           \A y \in 0..e.mask : y # 0 /\ ~Undefined(e, y) => e.conv[y + 1] # e.conv[1]
  PROVE  ~Silent(e, Stored(e, x))
<1> SUFFICES ASSUME NEW y \in 0..e.mask, ~Undefined(e, y), Unset(e, y),
                    Stored(e, x) = Stored(e, y)
             PROVE  FALSE
  BY DEF Silent
<1>1. CASE e.type = "STRING_T"
  <2>1. Stored(e, x) = x + 1 /\ Stored(e, y) = y + 1
    BY <1>1 DEF Stored
  <2>2. x \in Nat /\ y \in Nat
    OBVIOUS
  <2>3. x + 1 = y + 1
    BY <2>1
  <2>4. x = y
    BY <2>2, <2>3
  <2> QED BY <2>4
<1>2. CASE e.type = "ENABLE1_T"
  <2>1. y = 0 /\ x # 0
    BY <1>2 DEF Unset
  <2>2. e.conv # << >>
    BY <1>2 DEF Undefined
  <2>3. Stored(e, x) = e.conv[x + 1] /\ Stored(e, y) = e.conv[1]
    BY <1>2, <2>1, <2>2 DEF Stored, Source
  <2> QED BY <1>2, <2>1, <2>3
<1> QED BY <1>1, <1>2 DEF Unset

-----------------------------------------------------------------------------
(* _updatePropertyValue keeps curValue among the values the entry can hold. *)
LEMMA UpdateValuePossible ==
  ASSUME NEW e, IsEntry(e), NEW x \in 0..e.mask, NEW cur, Possible(e, cur)
  PROVE  Possible(e, UpdateValue(e, cur, x).value)
<1>1. CASE Undefined(e, x) \/ e.type \in NoValueTypes \/ cur = Compared(e, x)
  BY <1>1 DEF UpdateValue
<1>2. CASE ~ (Undefined(e, x) \/ e.type \in NoValueTypes \/ cur = Compared(e, x))
  <2>1. UpdateValue(e, cur, x).value = Stored(e, x)
    BY <1>2 DEF UpdateValue
  <2> QED BY <1>2, <2>1 DEF Possible
<1> QED BY <1>1, <1>2

(* Whatever it reports, _updatePropertyValue leaves the raw number's value  *)
(* in curValue.                                                             *)
LEMMA UpdateValueStores ==
  ASSUME NEW e, IsEntry(e), NEW x \in 0..e.mask, ~Undefined(e, x),
         e.type \notin NoValueTypes, NEW cur, Possible(e, cur)
  PROVE  UpdateValue(e, cur, x).value = Stored(e, x)
<1>1. CASE cur = Compared(e, x)
  <2>1. UpdateValue(e, cur, x).value = cur
    BY <1>1 DEF UpdateValue
  <2> QED BY <1>1, <2>1, UnchangedIsStored
<1>2. CASE cur # Compared(e, x)
  BY <1>2 DEF UpdateValue
<1> QED BY <1>1, <1>2

(* The part of update_iviproperty that the feed rests on: the values stay   *)
(* possible; a frame that speaks leaves the property at what it says; and a *)
(* frame that is not pushed changes nothing that anybody was told.          *)
UpdateIsSound(chain, cur, raw, applyinfo, u) ==
  /\ \A i \in DOMAIN chain : Possible(chain[i], u.cur[i])
  /\ Speaks(chain, raw) =>
       /\ property2json(chain, u.cur, u.applyinfo) = Said(chain, raw)
       /\ ~Muted(chain, u.cur, u.applyinfo)
  /\ ~u.notify =>
       \/ Muted(chain, u.cur, u.applyinfo)
       \/ /\ property2json(chain, u.cur, u.applyinfo) = property2json(chain, cur, applyinfo)
          /\ ~Muted(chain, cur, applyinfo)

(* UpdateIsSound holds of a property with one entry.                        *)
LEMMA UpdateSingleIsSound ==
  ASSUME NEW chain, IsChain(chain), Len(chain) = 1, Faithful(chain),
         NEW cur, \A i \in DOMAIN chain : Possible(chain[i], cur[i]),
         NEW raw, \A i \in DOMAIN chain : raw[i] \in 0..chain[i].mask,
         NEW applyinfo \in DOMAIN chain \cup {0}, NEW expired \in BOOLEAN
  PROVE  UpdateIsSound(chain, cur, raw, applyinfo,
                       UpdateSingle(chain, cur, raw, applyinfo, expired))
<1> DEFINE e == chain[1]
           x == raw[1]
           r == UpdateValue(e, cur[1], x)
           u == UpdateSingle(chain, cur, raw, applyinfo, expired)
<1>1. /\ DOMAIN chain = {1} /\ IsEntry(e) /\ x \in 0..e.mask /\ Possible(e, cur[1])
      /\ ShownEntry(applyinfo) = 1
  BY DEF IsChain, ShownEntry
<1>2. /\ u.cur[1] = r.value /\ u.applyinfo = applyinfo
      /\ u.notify = (r.status = "UPDATED" \/ (r.status = "NO_UPDATED" /\ expired))
  BY <1>1 DEF UpdateSingle
<1> HIDE DEF u, r
<1>3. /\ property2json(chain, u.cur, u.applyinfo) = ValueJson(e, r.value)
      /\ property2json(chain, cur, applyinfo) = ValueJson(e, cur[1])
      /\ Muted(chain, u.cur, u.applyinfo) <=> Silent(e, r.value)
      /\ Muted(chain, cur, applyinfo) <=> Silent(e, cur[1])
  BY <1>1, <1>2 DEF property2json, Muted
<1> USE DEF r
<1>4. \A i \in DOMAIN chain : Possible(chain[i], u.cur[i])
  BY <1>1, <1>2, UpdateValuePossible
<1>5. ASSUME Speaks(chain, raw)
      PROVE  r.value = Stored(e, x) /\ ~Silent(e, r.value) /\ Said(chain, raw) = ValueJson(e, r.value)
  <2>1. ~Undefined(e, x) /\ ~Unset(e, x) /\ e.type \notin NoValueTypes
    BY <1>1, <1>5 DEF Speaks
  <2>2. r.value = Stored(e, x)
    BY <1>1, <2>1, UpdateValueStores
  <2>3. ~Silent(e, Stored(e, x))
    BY <1>1, <2>1, ToldIsNotSilent DEF Faithful
  <2>4. Said(chain, raw) = ValueJson(e, Stored(e, x))
    BY DEF Said
  <2> QED BY <2>2, <2>3, <2>4
<1>6. ASSUME ~u.notify
      PROVE  Silent(e, r.value) \/ r.value = cur[1]
  <2>1. CASE Undefined(e, x) \/ e.type \in NoValueTypes \/ cur[1] = Compared(e, x)
    BY <2>1 DEF UpdateValue
  <2>2. CASE ~ (Undefined(e, x) \/ e.type \in NoValueTypes \/ cur[1] = Compared(e, x))
    <3>1. r.value = Stored(e, x) /\ Unset(e, x)
      BY <1>2, <1>6, <2>2 DEF UpdateValue
    <3> QED BY <1>1, <2>2, <3>1 DEF Silent
  <2> QED BY <2>1, <2>2
<1> HIDE DEF r, e, x
<1> QED BY <1>3, <1>4, <1>5, <1>6 DEF UpdateIsSound, u

(* A cleared entry of a multi-property after a frame: it is reported as an  *)
(* update exactly when it says something.                                   *)
LEMMA ClearedEntry ==
  ASSUME NEW e, IsEntry(e), NEW x \in 0..e.mask, ~Undefined(e, x)
  PROVE  LET r == UpdateValue(e, 0, x)
         IN  /\ r.status # "ERROR"
             /\ r.status = "UPDATED" <=> Significant(e, x)
             /\ Significant(e, x) => r.value = Stored(e, x)
             /\ ~Significant(e, x) => r.value = 0 \/ Silent(e, r.value)
<1> DEFINE r == UpdateValue(e, 0, x)
<1>1. Possible(e, 0)
  BY DEF Possible
<1>2. CASE e.type \in NoValueTypes
  BY <1>2 DEF UpdateValue, Significant
<1>3. CASE e.type \notin NoValueTypes
  <2>1. r.value = Stored(e, x)
    BY <1>1, <1>3, UpdateValueStores
  <2>2. Compared(e, x) = 0 <=> Stored(e, x) = 0
    BY <1>1, UnchangedIsStored, ZeroIsUnchanged
  <2>3. r.status = IF Compared(e, x) = 0 \/ Unset(e, x) THEN "NO_UPDATED" ELSE "UPDATED"
    BY <1>3 DEF UpdateValue
  <2>4. Unset(e, x) => Silent(e, Stored(e, x))
    BY DEF Silent
  <2> HIDE DEF r
  <2>5. /\ r.status # "ERROR"
        /\ r.status = "UPDATED" <=> Significant(e, x)
        /\ ~Significant(e, x) => r.value = 0 \/ Silent(e, r.value)
    BY <1>3, <2>1, <2>2, <2>3, <2>4 DEF Significant
  <2> QED BY <2>1, <2>5 DEF r
<1> QED BY <1>2, <1>3

(* UpdateIsSound holds of a multi-property whose tables have an entry for   *)
(* every raw number.                                                        *)
LEMMA UpdateMultiIsSound ==
  ASSUME NEW chain, IsChain(chain), Len(chain) > 1, Faithful(chain),
         NEW cur, NEW raw, \A i \in DOMAIN chain : raw[i] \in 0..chain[i].mask,
         NEW applyinfo \in DOMAIN chain \cup {0}, NEW expired \in BOOLEAN
  PROVE  UpdateIsSound(chain, cur, raw, applyinfo,
                       UpdateMulti(chain, cur, raw, applyinfo, expired))
<1> DEFINE r       == [i \in DOMAIN chain |-> UpdateValue(chain[i], 0, raw[i])]
           failed  == {i \in DOMAIN chain : r[i].status = "ERROR"}
           reached == {i \in DOMAIN chain : \A j \in 1..i : j \notin failed}
           filled  == [i \in DOMAIN chain |-> IF i \in reached THEN r[i].value ELSE 0]
           marked  == {i \in DOMAIN chain : r[i].status = "UPDATED"}
           said    == {i \in DOMAIN chain : Significant(chain[i], raw[i])}
           u       == UpdateMulti(chain, cur, raw, applyinfo, expired)
<1>1. /\ u.cur = filled
      /\ u.applyinfo = IF failed # {} \/ marked = {} THEN applyinfo ELSE Max(marked)
      /\ u.notify = IF failed # {} THEN FALSE
                    ELSE IF marked = {} THEN expired
                    ELSE Max(marked) # applyinfo \/ filled[Max(marked)] # cur[Max(marked)] \/ expired
  <2> HIDE DEF r, failed, reached, filled, marked
  <2> QED BY DEF UpdateMulti, r, failed, reached, filled, marked
<1>2. ASSUME NEW i \in DOMAIN chain
      PROVE  IsEntry(chain[i]) /\ raw[i] \in 0..chain[i].mask /\ ~Undefined(chain[i], raw[i])
  BY DEF IsChain, Faithful
<1>3. ASSUME NEW i \in DOMAIN chain
      PROVE  /\ r[i].status # "ERROR"
             /\ r[i].status = "UPDATED" <=> Significant(chain[i], raw[i])
             /\ Significant(chain[i], raw[i]) => r[i].value = Stored(chain[i], raw[i])
             /\ ~Significant(chain[i], raw[i]) => r[i].value = 0 \/ Silent(chain[i], r[i].value)
             /\ Possible(chain[i], r[i].value)
  <2>1. Possible(chain[i], 0)
    BY DEF Possible
  <2> QED BY <1>2, <2>1, ClearedEntry, UpdateValuePossible
<1> HIDE DEF r, u
<1>4. failed = {} /\ reached = DOMAIN chain /\ marked = said
  BY <1>3
<1>5. filled = [i \in DOMAIN chain |-> r[i].value]
  BY <1>4
<1>6. said # {} => Max(said) \in said
  <2>1. DOMAIN chain = 1..Len(chain) /\ Len(chain) \in Nat
    BY DEF IsChain
  <2>2. said \in SUBSET (1..Len(chain))
    BY <2>1
  <2> HIDE DEF said
  <2> QED BY <2>2, <2>1, MaxOfPositions
<1> HIDE DEF failed, reached, filled, marked
<1>7. \A i \in DOMAIN chain : Possible(chain[i], u.cur[i])
  BY <1>1, <1>3, <1>5
<1>8. CASE said = {}
  <2>1. u.applyinfo = applyinfo
    BY <1>1, <1>4, <1>8
  <2>2. ShownEntry(applyinfo) \in DOMAIN chain
    BY DEF ShownEntry, IsChain
  <2>3. Muted(chain, u.cur, u.applyinfo)
    BY <1>1, <1>3, <1>5, <1>8, <2>1, <2>2 DEF Muted
  <2>4. ~Speaks(chain, raw)
    BY <1>8 DEF Speaks, IsChain
  <2> QED BY <1>7, <2>3, <2>4 DEF UpdateIsSound, u
<1>9. CASE said # {}
  <2> DEFINE mark == Max(said)
  <2>1. mark \in said
    BY <1>6, <1>9
  <2>2. /\ mark \in DOMAIN chain /\ Significant(chain[mark], raw[mark])
        /\ ShownEntry(mark) = mark
    BY <2>1 DEF ShownEntry, IsChain
  <2>3. u.applyinfo = mark
    BY <1>1, <1>4, <1>9
  <2>4. u.cur[mark] = Stored(chain[mark], raw[mark])
    BY <1>1, <1>3, <1>5, <2>2
  <2>5. u.notify <=> mark # applyinfo \/ u.cur[mark] # cur[mark] \/ expired
    BY <1>1, <1>4, <1>9
  <2>6. ~Unset(chain[mark], raw[mark]) /\ u.cur[mark] # 0
    BY <2>2, <2>4 DEF Significant
  <2>7. ~Silent(chain[mark], u.cur[mark])
    BY <1>2, <2>2, <2>4, <2>6, ToldIsNotSilent DEF Faithful
  <2>8. Len(chain) # 1 /\ Said(chain, raw) = ValueJson(chain[mark], u.cur[mark])
    BY <2>4 DEF Said, IsChain
  <2> HIDE DEF said, mark
  <2>9. /\ property2json(chain, u.cur, u.applyinfo) = Said(chain, raw)
        /\ ~Muted(chain, u.cur, u.applyinfo)
    BY <2>2, <2>3, <2>6, <2>7, <2>8 DEF property2json, Muted
  <2>10. ASSUME ~u.notify
         PROVE  /\ property2json(chain, u.cur, u.applyinfo) = property2json(chain, cur, applyinfo)
                /\ ~Muted(chain, cur, applyinfo)
    BY <2>2, <2>3, <2>5, <2>6, <2>7, <2>10 DEF property2json, Muted
  <2> QED BY <1>7, <2>9, <2>10 DEF UpdateIsSound, u
<1> QED BY <1>8, <1>9

(* UpdateIsSound holds of update_iviproperty.                               *)
LEMMA UpdateIsSoundForAll ==
  ASSUME NEW chain, IsChain(chain), Faithful(chain),
         NEW cur, \A i \in DOMAIN chain : Possible(chain[i], cur[i]),
         NEW raw, \A i \in DOMAIN chain : raw[i] \in 0..chain[i].mask,
         NEW applyinfo \in DOMAIN chain \cup {0}, NEW expired \in BOOLEAN
  PROVE  UpdateIsSound(chain, cur, raw, applyinfo,
                       update_iviproperty(chain, cur, raw, applyinfo, expired))
<1>1. CASE Len(chain) > 1
  BY <1>1, UpdateMultiIsSound DEF update_iviproperty
<1>2. CASE ~ (Len(chain) > 1)
  <2>1. Len(chain) = 1
    BY <1>2 DEF IsChain
  <2> QED BY <1>2, <2>1, UpdateSingleIsSound DEF update_iviproperty
<1> QED BY <1>1, <1>2
=============================================================================
