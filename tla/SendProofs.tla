----------------------------- MODULE SendProofs -----------------------------
(***************************************************************************)
(* The bit fields of a frame, for bytes and frames of any size, and the    *)
(* safety of the transmission, for any number of clients and any           *)
(* properties of the CAN ID whose fields do not overlap.                   *)
(***************************************************************************)
EXTENDS SendPath, PropertyLemmas

(* The fields: what is written is read back.                                *)

(* The width of a word is at least one bit. *)
LEMMA WidthType == Width \in Nat /\ Width >= 1 /\ Width >= BITS_OF_BYTE
BY FrameAssumption DEF Width

(* A field that is in the frame has a shift below the width.                *)
LEMMA ShiftType ==
  ASSUME NEW f \in Fields
  PROVE  bit_shift(f) \in 0..(Width - 1)
<1>1. (BYTE_OF_FRAME - f.pos) * BITS_OF_BYTE + f.offs \in Int
  BY FrameAssumption DEF Fields
<1> QED BY <1>1, WidthType DEF bit_shift

(* What property2canframe puts into a field that lies in the frame is what  *)
(* canframe2property reads there: the low bits of the number.               *)
THEOREM FieldReadsBack ==
  ASSUME NEW f \in Fields, Inside(f), NEW word \in SUBSET Bits, NEW number
  PROVE  ReadField(WriteField(word, f, number), f) = number \cap can_mask64(f)
<1> DEFINE s == bit_shift(f)
           low == number \cap can_mask64(f)
           new == WriteField(word, f, number)
<1>1. s \in Nat /\ f.len \in Nat /\ Width \in Nat /\ s + f.len <= Width
  BY ShiftType, WidthType, FrameAssumption DEF Fields, Width, Inside
<1>2. can_mask64(f) = 0..(f.len - 1)
  BY DEF can_mask64
<1>3. /\ ShiftLeft(low, s) = {b \in Bits : b - s \in low}
      /\ ShiftLeft(can_mask64(f), s) = {b \in Bits : b - s \in can_mask64(f)}
  BY DEF ShiftLeft
<1>4. new = (word \ ShiftLeft(can_mask64(f), s)) \cup ShiftLeft(low, s)
  BY DEF WriteField
<1>5. ReadField(new, f) = {b \in Bits : b + s \in new} \cap can_mask64(f)
  BY DEF ReadField, ShiftRight
<1> HIDE DEF s, low, new
<1>6. low \subseteq can_mask64(f)
  BY DEF low
<1>7. ASSUME NEW b \in can_mask64(f)
      PROVE  b \in Bits /\ b + s \in Bits /\ (b + s) - s = b
  BY <1>1, <1>2, <1>7 DEF Bits
<1>8. ASSUME NEW b \in can_mask64(f)
      PROVE  b + s \in new <=> b \in low
  BY <1>3, <1>4, <1>7, <1>8
<1>9. ReadField(new, f) = low
  BY <1>5, <1>6, <1>7, <1>8
<1> QED BY <1>9 DEF new, low

(* It changes no field that shares no bit with it, in or out of the frame.  *)
THEOREM OthersAreKept ==
  ASSUME NEW f \in Fields, NEW g \in Fields, Place(f) \cap Place(g) = {},
         NEW word \in SUBSET Bits, NEW number
  PROVE  ReadField(WriteField(word, f, number), g) = ReadField(word, g)
<1> DEFINE s == bit_shift(f)
           t == bit_shift(g)
           new == WriteField(word, f, number)
<1>1. /\ s \in Nat /\ f.len \in Nat /\ Width \in Nat
      /\ t \in Nat /\ g.len \in Nat
  BY ShiftType, WidthType, FrameAssumption DEF Fields, Width
<1>2. can_mask64(f) = 0..(f.len - 1) /\ can_mask64(g) = 0..(g.len - 1)
  BY DEF can_mask64
<1>3. 0..(f.len - 1) \cap {b - s : b \in Place(g)} = {}
  BY <1>1 DEF Place
<1>4. ASSUME NEW b \in can_mask64(g)
      PROVE  b + t \in Place(g)
  BY <1>1, <1>2, <1>4 DEF Place
<1>5. ASSUME NEW x \in Place(g)
      PROVE  x \in new <=> x \in word
  <2>1. x - s \notin can_mask64(f)
    BY <1>2, <1>3, <1>5
  <2> QED BY <2>1 DEF new, WriteField, ShiftLeft
<1>6. /\ ReadField(new, g) = {b \in Bits : b + t \in new} \cap can_mask64(g)
      /\ ReadField(word, g) = {b \in Bits : b + t \in word} \cap can_mask64(g)
  BY DEF ReadField, ShiftRight
<1> HIDE DEF s, t, new
<1>7. ReadField(new, g) = ReadField(word, g)
  BY <1>4, <1>5, <1>6
<1> QED BY <1>7 DEF new

(* A bit of a word is in one byte of the frame.                             *)
LEMMA ByteOfBit ==
  ASSUME NEW b \in Bits
  PROVE  /\ b \div BITS_OF_BYTE \in 0..(BYTE_OF_FRAME - 1)
         /\ b % BITS_OF_BYTE \in 0..(BITS_OF_BYTE - 1)
         /\ ((b \div BITS_OF_BYTE) * BITS_OF_BYTE) + (b % BITS_OF_BYTE) = b
<1> DEFINE q == b \div BITS_OF_BYTE
           r == b % BITS_OF_BYTE
<1>1. b \in Nat /\ b < BITS_OF_BYTE * BYTE_OF_FRAME
  BY FrameAssumption, WidthType DEF Bits, Width
<1>2. q \in Int /\ r \in 0..(BITS_OF_BYTE - 1) /\ b = BITS_OF_BYTE * q + r
  BY <1>1, FrameAssumption
<1> HIDE DEF q, r
<1>3. q >= 0
  <2> SUFFICES ASSUME q <= -1 PROVE FALSE
    BY <1>2
  <2>1. BITS_OF_BYTE * q <= -BITS_OF_BYTE
    BY <1>2, FrameAssumption
  <2> QED BY <1>1, <1>2, <2>1, FrameAssumption
<1>4. q <= BYTE_OF_FRAME - 1
  <2> SUFFICES ASSUME q >= BYTE_OF_FRAME PROVE FALSE
    BY <1>2, FrameAssumption
  <2>1. BITS_OF_BYTE * q >= BITS_OF_BYTE * BYTE_OF_FRAME
    BY <1>2, FrameAssumption
  <2> QED BY <1>1, <1>2, <2>1, FrameAssumption
<1>5. q * BITS_OF_BYTE + r = b
  BY <1>2, FrameAssumption
<1> QED BY <1>2, <1>3, <1>4, <1>5, FrameAssumption DEF q, r

(* The bytes a word is stored as give the word again.                       *)
THEOREM WordReadsBack ==
  ASSUME NEW word \in SUBSET Bits
  PROVE  canvalue2host(host2canvalue(word)) = word
<1> DEFINE data == host2canvalue(word)
<1>1. ASSUME NEW b \in Bits
      PROVE  b % BITS_OF_BYTE \in data[BYTE_OF_FRAME - 1 - (b \div BITS_OF_BYTE)] <=> b \in word
  <2> DEFINE q == b \div BITS_OF_BYTE
             r == b % BITS_OF_BYTE
             k == BYTE_OF_FRAME - 1 - q
  <2>1. q \in 0..(BYTE_OF_FRAME - 1) /\ r \in 0..(BITS_OF_BYTE - 1) /\ q * BITS_OF_BYTE + r = b
    BY ByteOfBit
  <2> HIDE DEF q, r
  <2>2. k \in 0..(BYTE_OF_FRAME - 1) /\ BYTE_OF_FRAME - 1 - k = q
    BY <2>1, FrameAssumption
  <2>3. data[k] = {j \in 0..(BITS_OF_BYTE - 1) : (BYTE_OF_FRAME - 1 - k) * BITS_OF_BYTE + j \in word}
    BY <2>2 DEF host2canvalue
  <2> HIDE DEF k, data
  <2>4. r \in data[k] <=> b \in word
    BY <2>1, <2>2, <2>3
  <2> QED BY <2>4 DEF q, r, k
<1> HIDE DEF data
<1>2. canvalue2host(data) = word
  BY <1>1 DEF canvalue2host
<1> QED BY <1>2 DEF data

(* The bit of the word that bit j of byte k goes to, and back.              *)
LEMMA BitOfByte ==
  ASSUME NEW q \in 0..(BYTE_OF_FRAME - 1), NEW j \in 0..(BITS_OF_BYTE - 1)
  PROVE  LET x == q * BITS_OF_BYTE + j
         IN  x \in Bits /\ x \div BITS_OF_BYTE = q /\ x % BITS_OF_BYTE = j
<1> DEFINE x == q * BITS_OF_BYTE + j
           d == (x \div BITS_OF_BYTE) - q
<1>1. x \in Bits
  <2>1. q * BITS_OF_BYTE \in Nat /\ q * BITS_OF_BYTE <= (BYTE_OF_FRAME - 1) * BITS_OF_BYTE
    BY FrameAssumption
  <2>2. (BYTE_OF_FRAME - 1) * BITS_OF_BYTE = Width - BITS_OF_BYTE /\ Width \in Nat
    BY FrameAssumption DEF Width
  <2> QED BY <2>1, <2>2, FrameAssumption DEF Bits
<1>2. /\ x \div BITS_OF_BYTE \in Int /\ x % BITS_OF_BYTE \in 0..(BITS_OF_BYTE - 1)
      /\ ((x \div BITS_OF_BYTE) * BITS_OF_BYTE) + (x % BITS_OF_BYTE) = x
  <2> HIDE DEF x
  <2>1. x \div BITS_OF_BYTE \in 0..(BYTE_OF_FRAME - 1)
    BY <1>1, ByteOfBit
  <2>2. x \div BITS_OF_BYTE \in Int
    BY <2>1, FrameAssumption
  <2> QED BY <1>1, <2>2, ByteOfBit
<1>3. d * BITS_OF_BYTE = j - (x % BITS_OF_BYTE) /\ d \in Int
  BY <1>2, FrameAssumption
<1>4. j - (x % BITS_OF_BYTE) < BITS_OF_BYTE /\ j - (x % BITS_OF_BYTE) > -BITS_OF_BYTE
  BY <1>2, FrameAssumption
<1> HIDE DEF d
<1>5. d = 0
  <2>1. d >= 1 => d * BITS_OF_BYTE >= BITS_OF_BYTE
    BY <1>3, FrameAssumption
  <2>2. d <= -1 => d * BITS_OF_BYTE <= -BITS_OF_BYTE
    BY <1>3, FrameAssumption
  <2> QED BY <1>3, <1>4, <2>1, <2>2, FrameAssumption
<1>6. x \div BITS_OF_BYTE = q
  BY <1>2, <1>5 DEF d
<1>7. x % BITS_OF_BYTE = j
  BY <1>2, <1>3, <1>5, FrameAssumption
<1> QED BY <1>1, <1>6, <1>7

(* The word made of the bytes of a frame is stored as the same bytes.       *)
THEOREM DataReadsBack ==
  ASSUME NEW data \in Data
  PROVE  host2canvalue(canvalue2host(data)) = data
<1> DEFINE word == canvalue2host(data)
<1>1. word = {b \in Bits : b % BITS_OF_BYTE \in data[BYTE_OF_FRAME - 1 - (b \div BITS_OF_BYTE)]}
  BY DEF canvalue2host
<1> HIDE DEF word
<1>2. ASSUME NEW k \in 0..(BYTE_OF_FRAME - 1), NEW j \in 0..(BITS_OF_BYTE - 1)
      PROVE  (BYTE_OF_FRAME - 1 - k) * BITS_OF_BYTE + j \in word <=> j \in data[k]
  <2> DEFINE q == BYTE_OF_FRAME - 1 - k
             x == q * BITS_OF_BYTE + j
  <2>1. q \in 0..(BYTE_OF_FRAME - 1) /\ BYTE_OF_FRAME - 1 - q = k
    BY FrameAssumption
  <2> HIDE DEF q
  <2>2. x \in Bits /\ x \div BITS_OF_BYTE = q /\ x % BITS_OF_BYTE = j
    BY <2>1, BitOfByte
  <2> HIDE DEF x
  <2>3. x \in word <=> j \in data[k]
    BY <1>1, <2>1, <2>2
  <2> QED BY <2>3 DEF x, q
<1>3. ASSUME NEW k \in 0..(BYTE_OF_FRAME - 1)
      PROVE  {j \in 0..(BITS_OF_BYTE - 1) :
                 (BYTE_OF_FRAME - 1 - k) * BITS_OF_BYTE + j \in word} = data[k]
  BY <1>2 DEF Data
<1>4. data = [k \in 0..(BYTE_OF_FRAME - 1) |-> data[k]]
  BY DEF Data
<1>5. host2canvalue(word) = data
  BY <1>3, <1>4 DEF host2canvalue
<1> QED BY <1>5 DEF word

-----------------------------------------------------------------------------
(* The transmission.                                                        *)

(* The frame property2canframe works out is one.                            *)
LEMMA HostType ==
  ASSUME NEW word
  PROVE  host2canvalue(word) \in Data
BY DEF host2canvalue, Data

(* The bits of a field are bits of a word.                                  *)
LEMMA FieldType ==
  ASSUME NEW data, NEW p
  PROVE  FieldOf(data, p) \in SUBSET Bits
BY DEF FieldOf, ReadField, ShiftRight

(* The numbers that are sent are bits of a word.                            *)
LEMMA NumberType ==
  ASSUME NEW v
  PROVE  BitsOf(v) \in SUBSET Bits
BY DEF BitsOf

(* property2canframe gives the property its number and leaves the others.   *)
LEMMA NewFrame ==
  ASSUME Separate, NEW data \in Data, NEW p \in Property, NEW q \in Property, NEW v
  PROVE  LET new == host2canvalue(WriteField(canvalue2host(data), Field[p], BitsOf(v)))
         IN  FieldOf(new, q) = IF q = p THEN BitsOf(v) \cap can_mask64(Field[p])
                               ELSE FieldOf(data, q)
<1> DEFINE word == canvalue2host(data)
           written == WriteField(word, Field[p], BitsOf(v))
<1>1. word \in SUBSET Bits
  BY DEF canvalue2host
<1>2. written \in SUBSET Bits
  BY <1>1 DEF WriteField, ShiftLeft
<1>3. Field[p] \in Fields /\ Field[q] \in Fields
  BY SendAssumption
<1>4. Inside(Field[p]) /\ (q # p => Place(Field[p]) \cap Place(Field[q]) = {})
  BY DEF Separate
<1>5. FieldOf(host2canvalue(written), q) = ReadField(written, Field[q])
  BY <1>2, WordReadsBack DEF FieldOf
<1>6. CASE q = p
  BY <1>1, <1>3, <1>4, <1>5, <1>6, FieldReadsBack
<1>7. CASE q # p
  <2>1. ReadField(written, Field[q]) = ReadField(word, Field[q])
    BY <1>1, <1>3, <1>4, <1>7, OthersAreKept
  <2> QED BY <1>5, <1>7, <2>1 DEF FieldOf
<1> QED BY <1>6, <1>7

(* A field that lies in one byte depends on that byte alone.                *)
LEMMA NarrowField ==
  ASSUME NEW p \in Property, Narrow(Field[p]), NEW d \in Data, NEW e \in Data
  PROVE  /\ Field[p].pos - 1 \in Bytes
         /\ d[Field[p].pos - 1] = e[Field[p].pos - 1] => FieldOf(d, p) = FieldOf(e, p)
<1> DEFINE f == Field[p]
           k == f.pos - 1
           q == BYTE_OF_FRAME - f.pos
<1>1. /\ f.pos \in 1..BYTE_OF_FRAME /\ f.offs \in Nat /\ f.len \in Int
      /\ f.offs + f.len <= BITS_OF_BYTE
  BY SendAssumption, FrameAssumption, WidthType DEF Fields, Narrow
<1>2. k \in Bytes /\ q \in 0..(BYTE_OF_FRAME - 1) /\ BYTE_OF_FRAME - 1 - q = k
  BY <1>1, FrameAssumption DEF Bytes
<1>3. ASSUME NEW b \in can_mask64(f)
      PROVE  /\ bit_shift(f) = q * BITS_OF_BYTE + f.offs
             /\ b + f.offs \in 0..(BITS_OF_BYTE - 1)
             /\ b + bit_shift(f) = q * BITS_OF_BYTE + (b + f.offs)
  <2>1. b \in 0..(f.len - 1) /\ f.offs \in 0..(BITS_OF_BYTE - 1)
    BY <1>1, <1>3, FrameAssumption DEF can_mask64
  <2>2. q * BITS_OF_BYTE + f.offs \in 0..(Width - 1)
    <3>1. q * BITS_OF_BYTE + f.offs \in Bits
      BY <1>2, <2>1, BitOfByte
    <3> QED BY <3>1 DEF Bits
  <2>3. bit_shift(f) = (q * BITS_OF_BYTE + f.offs) % Width
    BY DEF bit_shift
  <2> DEFINE s == q * BITS_OF_BYTE + f.offs
  <2> HIDE DEF s
  <2>4. bit_shift(f) = s
    BY <2>2, <2>3, WidthType DEF s
  <2>5. q * BITS_OF_BYTE \in Int
    BY <1>2, FrameAssumption
  <2> QED BY <1>1, <2>1, <2>4, <2>5, FrameAssumption DEF s
<1>4. ASSUME NEW b \in can_mask64(f), NEW data \in Data
      PROVE  b + bit_shift(f) \in canvalue2host(data) <=> b + f.offs \in data[k]
  <2> DEFINE x == b + bit_shift(f)
  <2>1. x \in Bits /\ x \div BITS_OF_BYTE = q /\ x % BITS_OF_BYTE = b + f.offs
    BY <1>2, <1>3, <1>4, BitOfByte
  <2> HIDE DEF x, q, k
  <2>2. x \in canvalue2host(data) <=> x % BITS_OF_BYTE \in data[BYTE_OF_FRAME - 1 - (x \div BITS_OF_BYTE)]
    BY <2>1 DEF canvalue2host
  <2> QED BY <1>2, <2>1, <2>2 DEF x
<1>5. ASSUME NEW data
      PROVE  FieldOf(data, p) =
                {b \in Bits : b + bit_shift(f) \in canvalue2host(data)} \cap can_mask64(f)
  BY DEF FieldOf, ReadField, ShiftRight
<1> HIDE DEF f, k
<1>6. d[k] = e[k] => FieldOf(d, p) = FieldOf(e, p)
  BY <1>4, <1>5
<1> QED BY <1>2, <1>6 DEF k, f

-----------------------------------------------------------------------------
(* A request goes from step to step, and from "idle" only with the lock.    *)
LEMMA BeginType ==
  ASSUME TypeOK, NEW c \in Client, Begin(c)
  PROVE  TypeOK'
<1>0. PICK p \in Property : \E v \in SetValue[p] : property2canframe(c, p, v)
  BY DEF Begin
<1>1. PICK v \in SetValue[p] : property2canframe(c, p, v)
  BY <1>0
<1> DEFINE update == UpdateValue(Entry(p), curValue[p], v)
           word   == WriteField(canvalue2host(canraw_frame.data), Field[p], BitsOf(v))
           stored == [step |-> "store", p |-> p, v |-> v, todo |-> Bytes, data |-> host2canvalue(word)]
           r      == IF update.status = "ERROR" THEN [step |-> "unlock"] ELSE stored
<1>2. frameLock = Nobody /\ frameLock' = c
  BY DEF Begin, TakeLock
<1>3. /\ UNCHANGED <<canraw_frame, timer, wire, given, held>>
      /\ curValue' = [curValue EXCEPT ![p] = update.value]
      /\ request' = [request EXCEPT ![c] = r]
  BY <1>1 DEF Begin, property2canframe
<1>4. v \in Nat /\ curValue[p] \in Int /\ IsEntry(Entry(p))
  <2>1. SetValue[p] \subseteq Nat
    BY SendAssumption, WidthAssumption
  <2> QED BY <2>1, EntryAssumption DEF TypeOK
<1>5. update.value \in Int
  BY <1>4, UpdateValueType
<1>6. host2canvalue(word) \in Data
  BY HostType
<1>7. r \in Request /\ r.step \in {"store", "unlock"}
  BY <1>4, <1>6 DEF Request
<1> HIDE DEF update, r
<1>8. curValue' \in [Property -> Int]
  BY <1>3, <1>5 DEF TypeOK
<1>9. request' \in [Client -> Request]
  BY <1>3, <1>7 DEF TypeOK
<1>10. ASSUME NEW d \in Client
      PROVE  request'[d].step \in {"store", "send", "unlock"} <=> frameLock' = d
  <2>1. CASE d = c
    BY <1>2, <1>3, <1>7, <2>1 DEF TypeOK
  <2>2. CASE d # c
    BY <1>2, <1>3, <2>2, SendAssumption DEF TypeOK
  <2> QED BY <2>1, <2>2
<1> QED BY <1>2, <1>3, <1>8, <1>9, <1>10 DEF TypeOK

(* A client with the lock and bytes to store has one of the middle records. *)
LEMMA AtStore ==
  ASSUME NEW r \in Request, r.step = "store"
  PROVE  r \in [step : {"store"}, p : Property, v : Nat, todo : SUBSET Bytes, data : Data]
BY DEF Request

(* And one about to send has the last one.                                  *)
LEMMA AtSend ==
  ASSUME NEW r \in Request, r.step = "send"
  PROVE  r \in [step : {"send"}, p : Property, v : Nat]
BY DEF Request

(* The request of c changes to one that holds the lock like the one before. *)
LEMMA RequestMoves ==
  ASSUME TypeOK, NEW c \in Client, NEW r \in Request,
         request' = [request EXCEPT ![c] = r], c # Nobody, frameLock = c,
         \/ r.step \in {"store", "send", "unlock"} /\ frameLock' = c
         \/ r.step \notin {"store", "send", "unlock"} /\ frameLock' = Nobody
  PROVE  /\ request' \in [Client -> Request] /\ frameLock' \in Client \cup {Nobody}
         /\ \A d \in Client : request'[d].step \in {"store", "send", "unlock"} <=> frameLock' = d
<1>1. request' \in [Client -> Request]
  BY DEF TypeOK
<1>2. ASSUME NEW d \in Client
      PROVE  request'[d].step \in {"store", "send", "unlock"} <=> frameLock' = d
  <2>1. d # Nobody
    BY SendAssumption
  <2> QED BY <2>1 DEF TypeOK
<1> QED BY <1>1, <1>2

(* The other steps of a request hold the lock until it is released.         *)
LEMMA RequestType ==
  ASSUME TypeOK, NEW c \in Client, Store(c) \/ Send(c) \/ Unlock(c) \/ updateSendTimer(c)
  PROVE  TypeOK'
<1>1. c # Nobody /\ request[c] \in Request
  BY SendAssumption DEF TypeOK
<1>2. CASE Store(c)
  <2> DEFINE r == request[c]
  <2>1. /\ r.step = "store" /\ frameLock = c
        /\ UNCHANGED <<curValue, frameLock, timer, wire, given, held>>
    BY <1>2 DEF Store, TypeOK
  <2>2. PICK some \in (SUBSET r.todo) \ {{}} :
          /\ canraw_frame' = [canraw_frame EXCEPT !.data =
               [k \in Bytes |-> IF k \in some THEN r.data[k] ELSE @[k]]]
          /\ request' = [request EXCEPT ![c] =
               IF some = r.todo THEN [step |-> "send", p |-> r.p, v |-> r.v]
               ELSE [r EXCEPT !.todo = @ \ some]]
    BY <1>2 DEF Store
  <2> DEFINE next == IF some = r.todo THEN [step |-> "send", p |-> r.p, v |-> r.v]
                     ELSE [r EXCEPT !.todo = @ \ some]
  <2>3. r \in [step : {"store"}, p : Property, v : Nat, todo : SUBSET Bytes, data : Data]
    BY <1>1, <2>1, AtStore
  <2>4. next \in Request /\ next.step \in {"store", "send"}
    BY <2>3 DEF Request
  <2>5. request' = [request EXCEPT ![c] = next]
    BY <2>2
  <2>6. canraw_frame' \in Frame
    <3>1. [k \in Bytes |-> IF k \in some THEN r.data[k] ELSE canraw_frame.data[k]] \in Data
      BY <2>3 DEF TypeOK, Frame, Data, Bytes
    <3> QED BY <2>2, <3>1 DEF TypeOK, Frame
  <2> HIDE DEF next
  <2> QED BY <1>1, <2>1, <2>4, <2>5, <2>6, RequestMoves DEF TypeOK
<1>3. CASE Send(c)
  <2> DEFINE r == request[c]
             number == BitsOf(r.v) \cap can_mask64(Field[r.p])
  <2>1. /\ r.step = "send" /\ frameLock = c
        /\ wire' \in {canraw_frame, wire}
        /\ given' = [given EXCEPT ![r.p] = number]
        /\ held' = [held EXCEPT ![r.p] = number]
        /\ request' = [request EXCEPT ![c] = [step |-> "unlock"]]
        /\ UNCHANGED <<canraw_frame, curValue, frameLock, timer>>
    BY <1>3 DEF Send, socketcan_send, TypeOK
  <2>2. number \in SUBSET Bits
    BY NumberType
  <2> HIDE DEF number
  <2>3. given' \in [Property -> SUBSET Bits] /\ held' \in [Property -> SUBSET Bits]
    BY <2>1, <2>2 DEF TypeOK
  <2>4. wire' \in Frame
    BY <2>1 DEF TypeOK
  <2>5. [step |-> "unlock"] \in Request
    BY DEF Request
  <2> QED BY <1>1, <2>1, <2>3, <2>4, <2>5, RequestMoves DEF TypeOK
<1>4. CASE Unlock(c)
  <2>1. [step |-> "timer"] \in Request
    BY DEF Request
  <2> QED BY <1>1, <1>4, <2>1, RequestMoves DEF Unlock, TypeOK
<1>5. CASE updateSendTimer(c)
  <2>1. Idle \in Request /\ Idle.step = "idle"
    BY DEF Request, Idle
  <2>2. request' \in [Client -> Request]
    BY <1>5, <2>1 DEF updateSendTimer, TypeOK
  <2>3. \A d \in Client : request'[d].step \in {"store", "send", "unlock"} <=> frameLock = d
    BY <1>5, <2>1 DEF updateSendTimer, TypeOK
  <2> QED BY <1>5, <2>2, <2>3 DEF updateSendTimer, TypeOK
<1> QED BY <1>2, <1>3, <1>4, <1>5

(* So do the steps of the event loop. *)
LEMMA LoopType ==
  ASSUME TypeOK, Expire \/ on_timerEvent \/ parse_frame
  PROVE  TypeOK'
<1>1. CASE Expire
  BY <1>1 DEF Expire, TypeOK
<1>2. CASE on_timerEvent
  BY <1>2 DEF on_timerEvent, socketcan_send, TypeOK
<1>3. CASE parse_frame
  <2>1. canraw_frame' \in Frame /\ held' \in [Property -> SUBSET Bits]
    BY <1>3, SendAssumption, FieldType DEF parse_frame
  <2> QED BY <1>3, <2>1 DEF parse_frame, TypeOK
<1> QED BY <1>1, <1>2, <1>3

(* The transmission starts well typed, with an empty frame.                 *)
LEMMA InitType ==
  ASSUME Init
  PROVE  TypeOK
<1>1. Own \in Frame
  BY DEF Own, Frame, Data, Bytes
<1>2. \A c \in Client : request[c] = Idle /\ c # Nobody
  BY SendAssumption DEF Init
<1>3. request \in [Client -> Request]
  BY DEF Init, Idle, Request
<1> QED BY <1>1, <1>2, <1>3 DEF Init, TypeOK, Idle

(* Every step keeps the types. *)
LEMMA TypeStep ==
  ASSUME TypeOK, [Next]_vars
  PROVE  TypeOK'
<1>1. CASE UNCHANGED vars
  BY <1>1 DEF vars, TypeOK
<1>2. CASE Next
  BY <1>2, BeginType, RequestType, LoopType DEF Next, set
<1> QED BY <1>1, <1>2

(* Type correctness, and with it mutual exclusion: a client is between the  *)
(* lock and the unlock of can_signal_send exactly when it holds frameLock.  *)
THEOREM SendTypeCorrect == Spec => []TypeOK
<1>1. Init => TypeOK
  BY InitType
<1>2. TypeOK /\ [Next]_vars => TypeOK'
  BY TypeStep
<1> QED BY <1>1, <1>2, PTL DEF Spec

-----------------------------------------------------------------------------
(* Two frames with the same bytes are the same.                             *)
LEMMA SameData ==
  ASSUME NEW d \in Data, NEW e \in Data, \A k \in Bytes : d[k] = e[k]
  PROVE  d = e
<1>1. /\ d = [k \in Bytes |-> d[k]]
      /\ e = [k \in Bytes |-> e[k]]
  BY DEF Data, Bytes
<1>2. [k \in Bytes |-> d[k]] = [k \in Bytes |-> e[k]]
  OBVIOUS
<1> QED BY <1>1, <1>2

(* A frame whose bytes are those of one or of another frame has, in each    *)
(* field, the bits the two have in common and no bit that neither has.      *)
LEMMA MixedField ==
  ASSUME NEW old \in Data, NEW now \in Data, NEW new \in Data,
         \A k \in Bytes : now[k] = old[k] \/ now[k] = new[k],
         NEW p \in Property
  PROVE  /\ FieldOf(old, p) \cap FieldOf(new, p) \subseteq FieldOf(now, p)
         /\ FieldOf(now, p) \subseteq FieldOf(old, p) \cup FieldOf(new, p)
<1>1. \A b \in Bits : BYTE_OF_FRAME - 1 - (b \div BITS_OF_BYTE) \in Bytes
  BY ByteOfBit, FrameAssumption DEF Bytes
<1>2. ASSUME NEW b \in Bits
      PROVE  \/ b \in canvalue2host(now) <=> b \in canvalue2host(old)
             \/ b \in canvalue2host(now) <=> b \in canvalue2host(new)
  BY <1>1 DEF canvalue2host
<1>3. \A data : FieldOf(data, p) = {b \in Bits : b + bit_shift(Field[p]) \in canvalue2host(data)}
                                     \cap can_mask64(Field[p])
  BY DEF FieldOf, ReadField, ShiftRight
<1>4. \A x : \/ x \in canvalue2host(now) <=> x \in canvalue2host(old)
             \/ x \in canvalue2host(now) <=> x \in canvalue2host(new)
  <2>1. \A x, data : x \in canvalue2host(data) => x \in Bits
    BY DEF canvalue2host
  <2> QED BY <1>2, <2>1
<1> QED BY <1>3, <1>4

(* A client that takes the lock finds a frame that carries what is held.    *)
LEMMA BeginProgress ==
  ASSUME Separate, SendInvariant, NEW c \in Client, Begin(c)
  PROVE  NoSetIsLost' /\ Progress(request[c])'
<1>0. PICK p \in Property : \E v \in SetValue[p] : property2canframe(c, p, v)
  BY DEF Begin
<1>1. PICK v \in SetValue[p] : property2canframe(c, p, v)
  BY <1>0
<1> DEFINE update == UpdateValue(Entry(p), curValue[p], v)
           new    == host2canvalue(WriteField(canvalue2host(canraw_frame.data), Field[p], BitsOf(v)))
           stored == [step |-> "store", p |-> p, v |-> v, todo |-> Bytes, data |-> new]
           r      == IF update.status = "ERROR" THEN [step |-> "unlock"] ELSE stored
<1>2. /\ frameLock = Nobody /\ frameLock' = c /\ c # Nobody
      /\ UNCHANGED <<canraw_frame, held>>
      /\ request' = [request EXCEPT ![c] = r]
  BY <1>1, SendAssumption DEF Begin, TakeLock, property2canframe
<1>3. Carries(canraw_frame.data) /\ canraw_frame.data \in Data
  BY <1>2 DEF SendInvariant, NoSetIsLost, TypeOK, Frame
<1>4. \A q \in Property : FieldOf(new, q) = After(stored, q)
  <2> TAKE q \in Property
  <2>1. FieldOf(new, q) = IF q = p THEN BitsOf(v) \cap can_mask64(Field[p])
                          ELSE FieldOf(canraw_frame.data, q)
    BY <1>3, NewFrame
  <2>2. FieldOf(canraw_frame.data, q) = held[q]
    BY <1>3 DEF Carries
  <2>3. stored.p = p /\ stored.v = v
    OBVIOUS
  <2> HIDE DEF stored, new
  <2> QED BY <2>1, <2>2, <2>3 DEF After
<1>5. request'[c] = r
  BY <1>2 DEF SendInvariant, TypeOK
<1>6. r = [step |-> "unlock"] \/ r = stored
  OBVIOUS
<1>7. stored.step = "store" /\ stored.todo = Bytes /\ stored.data = new
  OBVIOUS
<1> HIDE DEF new, stored, update, r
<1>8. ASSUME r = [step |-> "unlock"]
      PROVE  Progress(request[c])'
  <2>1. request'[c].step = "unlock"
    BY <1>5, <1>8
  <2>2. Carries(canraw_frame.data)'
    BY <1>2, <1>3 DEF Carries
  <2> QED BY <2>1, <2>2 DEF Progress
<1>9. ASSUME r = stored
      PROVE  Progress(request[c])'
  <2>1. request'[c] = stored
    BY <1>5, <1>9
  <2>2. \A q \in Property : FieldOf(canraw_frame.data, q) = held[q]
    BY <1>3 DEF Carries
  <2>3. request'[c].step = "store" /\ request'[c].todo = Bytes /\ request'[c].data = new
    BY <1>7, <2>1
  <2>4. \A q \in Property : After(request[c], q)' = After(stored, q)
    BY <1>2, <2>1 DEF After
  <2> QED BY <1>2, <1>4, <2>2, <2>3, <2>4 DEF Progress
<1>10. NoSetIsLost'
  BY <1>2 DEF NoSetIsLost
<1> QED BY <1>6, <1>8, <1>9, <1>10

(* Storing some bytes brings the frame nearer to the new one, and leaves    *)
(* every field that lies in one byte old or new.                            *)
LEMMA StoreProgress ==
  ASSUME SendInvariant, NEW c \in Client, Store(c)
  PROVE  NoSetIsLost' /\ Progress(request[c])'
<1> DEFINE r == request[c]
           old == canraw_frame.data
<1>1. /\ r.step = "store" /\ frameLock = c /\ frameLock' = c /\ c # Nobody
      /\ held' = held
  BY SendAssumption DEF Store, SendInvariant, TypeOK
<1>2. r \in [step : {"store"}, p : Property, v : Nat, todo : SUBSET Bytes, data : Data]
  BY <1>1, AtStore DEF SendInvariant, TypeOK
<1>3. PICK some \in (SUBSET r.todo) \ {{}} :
        /\ canraw_frame' = [canraw_frame EXCEPT !.data =
             [k \in Bytes |-> IF k \in some THEN r.data[k] ELSE @[k]]]
        /\ request' = [request EXCEPT ![c] =
             IF some = r.todo THEN [step |-> "send", p |-> r.p, v |-> r.v]
             ELSE [r EXCEPT !.todo = @ \ some]]
  BY DEF Store
<1> DEFINE now == [k \in Bytes |-> IF k \in some THEN r.data[k] ELSE old[k]]
           sending == [step |-> "send", p |-> r.p, v |-> r.v]
           storing == [r EXCEPT !.todo = @ \ some]
<1>4. canraw_frame'.data = now /\ old \in Data
  BY <1>3 DEF SendInvariant, TypeOK, Frame
<1>5. request'[c] = IF some = r.todo THEN sending ELSE storing
  BY <1>3 DEF SendInvariant, TypeOK
<1>6. now \in Data
  BY <1>2, <1>4 DEF Data, Bytes
<1>7. /\ \A p \in Property :
           /\ FieldOf(r.data, p) = After(r, p)
           /\ p # r.p => FieldOf(old, p) = held[p]
           /\ Narrow(Field[p]) => FieldOf(old, p) \in {held[p], After(r, p)}
      /\ \A k \in Bytes \ r.todo : old[k] = r.data[k]
  BY <1>1 DEF SendInvariant, Progress
<1>8. /\ sending.step = "send" /\ storing.step = "store"
      /\ storing.p = r.p /\ storing.data = r.data /\ storing.todo = r.todo \ some
      /\ \A p \in Property : After(sending, p) = After(r, p) /\ After(storing, p) = After(r, p)
  <2>1. sending.step = "send" /\ sending.p = r.p /\ sending.v = r.v
    OBVIOUS
  <2>2. /\ storing.step = "store" /\ storing.p = r.p /\ storing.v = r.v
        /\ storing.data = r.data /\ storing.todo = r.todo \ some
    <3> HIDE DEF r
    <3> QED BY <1>1, <1>2
  <2> HIDE DEF sending, storing, r
  <2> QED BY <1>1, <2>1, <2>2 DEF After
<1>9. \A k \in Bytes \ (r.todo \ some) : now[k] = r.data[k]
  BY <1>7
<1>m. ASSUME NEW p \in Property, p # r.p
      PROVE  FieldOf(now, p) = held[p]
  <2>1. FieldOf(old, p) = held[p] /\ FieldOf(r.data, p) = held[p]
    BY <1>7, <1>m DEF After
  <2>2. r.data \in Data /\ \A k \in Bytes : now[k] = old[k] \/ now[k] = r.data[k]
    BY <1>2
  <2> HIDE DEF now, old, r
  <2>3. /\ FieldOf(old, p) \cap FieldOf(r.data, p) \subseteq FieldOf(now, p)
        /\ FieldOf(now, p) \subseteq FieldOf(old, p) \cup FieldOf(r.data, p)
    BY <1>4, <1>6, <2>2, MixedField
  <2> QED BY <2>1, <2>3
<1> HIDE DEF now, sending, storing
<1>10. ASSUME some = r.todo
       PROVE  Progress(request[c])'
  <2>1. \A k \in Bytes : now[k] = r.data[k]
    BY <1>9, <1>10
  <2>2. now = r.data
    <3> DEFINE d == r.data
    <3>1. d \in Data
      BY <1>2
    <3>2. \A k \in Bytes : now[k] = d[k]
      BY <2>1
    <3> HIDE DEF d
    <3>3. now = d
      BY <1>6, <3>1, <3>2, SameData
    <3> QED BY <3>3 DEF d
  <2>3. request'[c] = sending
    BY <1>5, <1>10
  <2>4. \A p \in Property : FieldOf(canraw_frame'.data, p) = After(sending, p)
    BY <1>4, <1>7, <1>8, <2>2
  <2>5. \A p \in Property : After(request[c], p)' = After(sending, p)
    BY <1>1, <2>3 DEF After
  <2>6. request'[c].step = "send"
    BY <1>8, <2>3
  <2> QED BY <2>4, <2>5, <2>6 DEF Progress
<1>11. ASSUME some # r.todo
       PROVE  Progress(request[c])'
  <2>1. ASSUME NEW p \in Property, Narrow(Field[p])
        PROVE  FieldOf(now, p) \in {held[p], After(r, p)}
    <3> DEFINE k == Field[p].pos - 1
    <3>1. k \in Bytes
      BY <1>4, <1>6, <2>1, NarrowField
    <3>2. now[k] = old[k] \/ now[k] = r.data[k]
      BY <3>1 DEF now
    <3>3. FieldOf(now, p) = FieldOf(old, p) \/ FieldOf(now, p) = FieldOf(r.data, p)
      BY <1>2, <1>4, <1>6, <2>1, <3>2, NarrowField
    <3> QED BY <1>7, <2>1, <3>3
  <2>2. request'[c] = storing
    BY <1>5, <1>11
  <2>3. \A p \in Property :
          /\ FieldOf(storing.data, p) = After(storing, p)
          /\ p # storing.p => FieldOf(canraw_frame'.data, p) = held'[p]
          /\ Narrow(Field[p]) => FieldOf(canraw_frame'.data, p) \in {held'[p], After(storing, p)}
    BY <1>1, <1>4, <1>7, <1>8, <1>m, <2>1
  <2>4. \A k \in Bytes \ storing.todo : canraw_frame'.data[k] = storing.data[k]
    BY <1>4, <1>8, <1>9
  <2>5. \A p \in Property : After(request[c], p)' = After(storing, p)
    BY <1>1, <2>2 DEF After
  <2>6. request'[c].step = "store"
    BY <1>8, <2>2
  <2> QED BY <2>2, <2>3, <2>4, <2>5, <2>6 DEF Progress
<1>12. NoSetIsLost'
  BY <1>1 DEF NoSetIsLost
<1> QED BY <1>10, <1>11, <1>12

(* The frame carries what the client gave by the time it is held.           *)
LEMMA SendProgress ==
  ASSUME SendInvariant, NEW c \in Client, Send(c)
  PROVE  NoSetIsLost' /\ Progress(request[c])'
<1> DEFINE r == request[c]
           number == BitsOf(r.v) \cap can_mask64(Field[r.p])
<1>1. /\ r.step = "send" /\ frameLock = c /\ frameLock' = c /\ c # Nobody
      /\ held' = [held EXCEPT ![r.p] = number]
      /\ request' = [request EXCEPT ![c] = [step |-> "unlock"]]
      /\ canraw_frame' = canraw_frame
  BY SendAssumption DEF Send, SendInvariant, TypeOK
<1>2. \A p \in Property : FieldOf(canraw_frame.data, p) = After(r, p)
  BY <1>1 DEF SendInvariant, Progress
<1>3. \A p \in Property : held'[p] = After(r, p)
  BY <1>1 DEF SendInvariant, TypeOK, After
<1>4. request'[c] = [step |-> "unlock"]
  BY <1>1 DEF SendInvariant, TypeOK
<1>5. Carries(canraw_frame.data)'
  BY <1>1, <1>2, <1>3 DEF Carries
<1>6. request'[c].step = "unlock"
  BY <1>4
<1>7. Progress(request[c])'
  BY <1>5, <1>6 DEF Progress
<1> QED BY <1>1, <1>5, <1>7 DEF NoSetIsLost

(* The invariant starts true: all fields of an empty frame are empty.       *)
LEMMA InitInvariant ==
  ASSUME Init
  PROVE  SendInvariant
<1>1. ASSUME NEW p \in Property
      PROVE  FieldOf(Own.data, p) = {}
  <2>1. \A b \in Bits : BYTE_OF_FRAME - 1 - (b \div BITS_OF_BYTE) \in Bytes
    BY ByteOfBit, FrameAssumption DEF Bytes
  <2>2. canvalue2host(Own.data) = {}
    BY <2>1 DEF canvalue2host, Own
  <2> QED BY <2>2 DEF FieldOf, ReadField, ShiftRight
<1>2. NoSetIsLost
  BY <1>1 DEF Init, NoSetIsLost, Carries
<1>3. \A c \in Client : Progress(request[c])
  BY DEF Init, Idle, Progress
<1> QED BY <1>2, <1>3, InitType DEF SendInvariant

(* A client outside the critical section has no work to account for.        *)
LEMMA OutsideProgress ==
  ASSUME NEW r, r.step \notin {"store", "send", "unlock"}
  PROVE  Progress(r)
BY DEF Progress

(* A client leaves the lock with what is held in the frame.                 *)
LEMMA UnlockProgress ==
  ASSUME SendInvariant, NEW c \in Client, Unlock(c)
  PROVE  NoSetIsLost' /\ Progress(request[c])'
<1>1. request'[c].step = "timer"
  BY DEF Unlock, SendInvariant, TypeOK
<1>2. Carries(canraw_frame.data)'
  BY DEF Unlock, SendInvariant, Progress, Carries
<1> QED BY <1>1, <1>2 DEF NoSetIsLost, Progress

(* The rest of a request changes neither frame nor lock.                    *)
LEMMA TimerProgress ==
  ASSUME SendInvariant, NEW c \in Client, updateSendTimer(c)
  PROVE  NoSetIsLost' /\ Progress(request[c])'
<1>1. request'[c].step = "idle"
  BY DEF updateSendTimer, SendInvariant, TypeOK, Idle
<1>2. NoSetIsLost'
  BY DEF updateSendTimer, SendInvariant, NoSetIsLost, Carries
<1> QED BY <1>1, <1>2 DEF Progress

(* A client with the lock is the only one that changes frame or lock, and   *)
(* no other client is in the critical section then.                         *)
LEMMA OthersProgress ==
  ASSUME SendInvariant, TypeOK', NEW c \in Client, set(c), NEW d \in Client \ {c}
  PROVE  Progress(request[d])'
<1>1. CASE updateSendTimer(c)
  <2>1. request'[d] = request[d] /\ canraw_frame' = canraw_frame /\ held' = held
    BY <1>1 DEF updateSendTimer, SendInvariant, TypeOK
  <2>2. Progress(request[d])
    BY DEF SendInvariant
  <2> QED BY <2>1, <2>2 DEF Progress, Carries, After
<1>2. CASE Begin(c) \/ Store(c) \/ Send(c) \/ Unlock(c)
  <2>1. frameLock' \in {c, Nobody} /\ d # Nobody
    BY <1>2, SendAssumption DEF Begin, TakeLock, Store, Send, Unlock, SendInvariant, TypeOK
  <2>2. request'[d].step \notin {"store", "send", "unlock"}
    BY <2>1 DEF TypeOK
  <2> QED BY <2>2 DEF Progress
<1> QED BY <1>1, <1>2 DEF set

(* A step of the event loop either leaves frame and requests alone or takes *)
(* the lock to put a received frame in place.                               *)
LEMMA LoopProgress ==
  ASSUME SendInvariant, TypeOK', Expire \/ on_timerEvent \/ parse_frame \/ UNCHANGED vars
  PROVE  SendInvariant'
<1>1. CASE Expire \/ on_timerEvent \/ UNCHANGED vars
  <2>1. UNCHANGED <<canraw_frame, frameLock, request, held>>
    BY <1>1 DEF Expire, on_timerEvent, vars
  <2>2. NoSetIsLost'
    BY <2>1 DEF SendInvariant, NoSetIsLost, Carries
  <2>3. ASSUME NEW c \in Client
        PROVE  Progress(request[c])'
    <3>1. Progress(request[c])
      BY DEF SendInvariant
    <3> QED BY <2>1, <3>1 DEF Progress, Carries, After
  <2> QED BY <2>2, <2>3 DEF SendInvariant
<1>2. CASE parse_frame
  <2>1. NoSetIsLost'
    BY <1>2 DEF parse_frame, NoSetIsLost, Carries
  <2>2. ASSUME NEW c \in Client
        PROVE  Progress(request[c])'
    <3>1. frameLock' = Nobody /\ c # Nobody
      BY <1>2, SendAssumption DEF parse_frame
    <3>2. request'[c].step \notin {"store", "send", "unlock"}
      BY <3>1 DEF TypeOK
    <3> QED BY <3>2 DEF Progress
  <2> QED BY <2>1, <2>2 DEF SendInvariant
<1> QED BY <1>1, <1>2

(* The invariant of the transmission is inductive. *)
LEMMA InvariantStep ==
  ASSUME Separate, SendInvariant, [Next]_vars
  PROVE  SendInvariant'
<1>1. TypeOK'
  BY TypeStep DEF SendInvariant
<1>2. ASSUME NEW c \in Client, set(c)
      PROVE  SendInvariant'
  <2>1. NoSetIsLost' /\ Progress(request[c])'
    BY <1>2, BeginProgress, StoreProgress, SendProgress, UnlockProgress, TimerProgress DEF set
  <2>2. \A d \in Client \ {c} : Progress(request[d])'
    BY <1>1, <1>2, OthersProgress
  <2> QED BY <1>1, <2>1, <2>2 DEF SendInvariant
<1> QED BY <1>1, <1>2, LoopProgress DEF Next

(* The invariant that ties the frame to what clients and nodes have given   *)
(* holds for any fields that do not overlap, whoever is interrupted where.  *)
THEOREM SendIsInvariant ==
  ASSUME Separate
  PROVE  Spec => []SendInvariant
<1>1. Init => SendInvariant
  BY InitInvariant
<1>2. SendInvariant /\ [Next]_vars => SendInvariant'
  BY InvariantStep
<1> QED BY <1>1, <1>2, PTL DEF Spec

(* No set is lost to that of another client on the same frame, and none     *)
(* changes a property that shares a byte with its own.                      *)
THEOREM NoneIsLost ==
  ASSUME Separate
  PROVE  Spec => []NoSetIsLost
<1>1. SendInvariant => NoSetIsLost
  BY DEF SendInvariant
<1> QED BY <1>1, SendIsInvariant, PTL

-----------------------------------------------------------------------------
(* Whenever the frame is sent, a field that lies in one byte has what is    *)
(* held or what a client is about to give.                                  *)
LEMMA FieldIsWhole ==
  ASSUME SendInvariant, NEW p \in Property, Narrow(Field[p])
  PROVE  FieldOf(canraw_frame.data, p) \in {held[p]} \cup Coming(p)
<1>1. CASE frameLock = Nobody
  BY <1>1 DEF SendInvariant, NoSetIsLost, Carries
<1>2. ASSUME NEW c \in Client, frameLock = c
      PROVE  FieldOf(canraw_frame.data, p) \in {held[p]} \cup Coming(p)
  <2> DEFINE r == request[c]
  <2>1. r.step \in {"store", "send", "unlock"} /\ Progress(r)
    BY <1>2 DEF SendInvariant, TypeOK
  <2>2. CASE r.step = "unlock"
    BY <2>1, <2>2 DEF Progress, Carries
  <2>3. CASE r.step \in {"store", "send"}
    <3>1. FieldOf(canraw_frame.data, p) \in {held[p], After(r, p)}
      BY <2>1, <2>3 DEF Progress
    <3>2. After(r, p) \in {held[p]} \cup Coming(p)
      BY <2>3 DEF After, Coming
    <3> QED BY <3>1, <3>2
  <2> QED BY <2>1, <2>2, <2>3
<1> QED BY <1>1, <1>2 DEF SendInvariant, TypeOK

(* The timer sends while a client is writing, without the lock; a field     *)
(* that lies in one byte is whole on the bus all the same.                  *)
THEOREM SendingIsWhole ==
  ASSUME Separate
  PROVE  Spec => SentIsWhole
<1> DEFINE Whole == \A p \in Property : wire' # wire /\ Narrow(Field[p])
                      => FieldOf(wire'.data, p) \in {held[p]} \cup Coming(p)
<1>1. SendInvariant /\ [Next]_vars => [Whole]_vars
  <2> SUFFICES ASSUME SendInvariant, [Next]_vars, wire' # wire
               PROVE  Whole
    BY DEF vars
  <2>1. wire' = canraw_frame
    BY DEF Next, vars, Expire, on_timerEvent, parse_frame, socketcan_send,
           set, Begin, Store, Send, Unlock, updateSendTimer
  <2> QED BY <2>1, FieldIsWhole
<1> QED BY <1>1, SendIsInvariant, PTL DEF Spec, SentIsWhole

-----------------------------------------------------------------------------
(* No bits are the number 0.                                                *)
LEMMA NoBitsAreZero == NumberOf({}) = 0
<1> DEFINE Sums(g) == g = [s \in SUBSET {} |->
             IF s = {} THEN 0 ELSE LET x == CHOOSE x \in s : TRUE IN 2^x + g[s \ {x}]]
           sum == CHOOSE g : Sums(g)
<1>1. Sums([s \in SUBSET {} |-> 0])
  OBVIOUS
<1>2. Sums(sum)
  BY <1>1, Zenon
<1>3. sum[{}] = 0
  BY <1>2
<1>4. NumberOf({}) = sum[{}]
  BY DEF NumberOf, MapThenSumSet, MapThenFoldSet
<1> QED BY <1>3, <1>4

(* A number that fits its field is put into it as it is.                    *)
LEMMA ExactNumber ==
  ASSUME NEW p \in Exact, NEW v \in SetValue[p]
  PROVE  /\ p \in Property /\ v \in Nat /\ Entry(p).conv = << >> /\ IsEntry(Entry(p))
         /\ Entry(p).type = Type[p] /\ Entry(p).type \in IntTypes \cup {"BOOL_T"}
         /\ BitsOf(v) \cap can_mask64(Field[p]) = BitsOf(v) /\ NumberOf(BitsOf(v)) = v
<1>1. p \in Property /\ BitsOf(v) \subseteq can_mask64(Field[p])
  BY DEF Exact, Fits
<1>2. v \in Nat
  <2>1. SetValue[p] \subseteq Nat
    BY <1>1, SendAssumption, WidthAssumption
  <2> QED BY <2>1
<1>3. Entry(p).conv = << >> /\ Entry(p).type = Type[p]
  BY DEF Entry
<1>4. Entry(p).type \in IntTypes \cup {"BOOL_T"}
  BY DEF Exact
<1> QED BY <1>1, <1>2, <1>3, <1>4, EntryAssumption, NumberAssumption

(* set leaves such a property at the value of its number, whatever it was   *)
(* compared with.                                                           *)
LEMMA ExactValue ==
  ASSUME NEW p \in Exact, NEW v \in SetValue[p], NEW cur \in Int,
         Type[p] = "UINT8_T" => cur \in 0..(M8 - 1)
  PROVE  LET u == UpdateValue(Entry(p), cur, v)
         IN  /\ u.status # "ERROR" /\ u.value = Stored(Entry(p), v)
             /\ Type[p] = "UINT8_T" => u.value \in 0..(M8 - 1)
<1> DEFINE e == Entry(p)
<1>1. /\ v \in Nat /\ e.conv = << >> /\ e.type = Type[p]
      /\ e.type \in IntTypes \cup {"BOOL_T"} /\ M8 \in Nat /\ 1 < M8
  BY ExactNumber, WidthAssumption
<1> HIDE DEF e
<1>2. ~Undefined(e, v) /\ e.type \notin NoValueTypes /\ Source(e, v) = v
  BY <1>1 DEF Undefined, Source, IntTypes, NoValueTypes
<1>3. CASE Type[p] = "UINT8_T"
  <2>1. Stored(e, v) = Unsigned(M8, v) /\ Compared(e, v) = Signed(M8, v)
    BY <1>1, <1>2, <1>3 DEF Stored, Compared
  <2>2. Unsigned(M8, v) \in 0..(M8 - 1)
    BY <1>1, SignedType
  <2>3. cur = Signed(M8, v) => cur = Unsigned(M8, v)
    BY <1>1, <1>3, SignedIsUnsigned
  <2> QED BY <1>2, <2>1, <2>2, <2>3 DEF UpdateValue, e
<1>4. CASE Type[p] # "UINT8_T"
  <2>1. Compared(e, v) = Stored(e, v)
    BY <1>1, <1>4 DEF Compared
  <2> QED BY <1>2, <1>4, <2>1 DEF UpdateValue, e
<1> QED BY <1>3, <1>4

(* At most the client with the lock has a number to come.                   *)
OneIsComing ==
  \A p \in Property :
    /\ frameLock = Nobody => Coming(p) = {}
    /\ \A c \in Client : frameLock = c =>
         Coming(p) = IF request[c].step \in {"store", "send"} /\ request[c].p = p
                     THEN {BitsOf(request[c].v) \cap can_mask64(Field[p])} ELSE {}

(* That follows from mutual exclusion.                                      *)
LEMMA ComingIsOne == TypeOK => OneIsComing
<1> SUFFICES ASSUME TypeOK, NEW p \in Property
             PROVE  /\ frameLock = Nobody => Coming(p) = {}
                    /\ \A c \in Client : frameLock = c =>
                         Coming(p) = IF request[c].step \in {"store", "send"} /\ request[c].p = p
                                     THEN {BitsOf(request[c].v) \cap can_mask64(Field[p])} ELSE {}
  BY DEF OneIsComing
<1>1. \A d \in Client : request[d].step \in {"store", "send"} => frameLock = d /\ d # Nobody
  BY SendAssumption DEF TypeOK
<1> QED BY <1>1 DEF Coming

(* An empty frame shows the 0 that every property starts with.              *)
LEMMA InitGiven == Init => CurrentIsGiven
<1> SUFFICES ASSUME Init, NEW p \in Exact
             PROVE  /\ Shows(p, held[p]) /\ Coming(p) = {}
                    /\ Type[p] = "UINT8_T" => curValue[p] \in 0..(M8 - 1)
  BY DEF CurrentIsGiven
<1>1. p \in Property /\ curValue[p] = 0 /\ held[p] = {} /\ Coming(p) = {}
  BY DEF Init, Idle, Coming, Exact
<1>2. Stored(Entry(p), 0) = 0
  <2>1. Entry(p).type \in IntTypes \cup {"BOOL_T"} /\ Entry(p).conv = << >>
    BY DEF Exact, Entry
  <2>2. \A m \in {M8, M16, M32} : Signed(m, 0) = 0 /\ Unsigned(m, 0) = 0
    BY WidthAssumption DEF Signed, Unsigned
  <2> QED BY <2>1, <2>2 DEF Stored, Source, Truth, IntTypes
<1> QED BY <1>1, <1>2, NoBitsAreZero, WidthAssumption DEF Shows

(* What a step that changes neither values nor what is held or to come      *)
(* leaves as it is.                                                         *)
LEMMA GivenStays ==
  ASSUME CurrentIsGiven, canraw_frame'.head = canraw_frame.head, UNCHANGED <<curValue, held>>,
         \A p \in Property : Coming(p)' = Coming(p)
  PROVE  CurrentIsGiven'
<1> SUFFICES ASSUME canraw_frame'.head = "own", NEW p \in Exact
             PROVE  /\ (Coming(p) = {} => Shows(p, held[p]))'
                    /\ (\A bits \in Coming(p) : Shows(p, bits))'
                    /\ (Type[p] = "UINT8_T" => curValue[p] \in 0..(M8 - 1))'
  BY DEF CurrentIsGiven, Exact, Fits
<1>1. /\ Coming(p) = {} => Shows(p, held[p])
      /\ \A bits \in Coming(p) : Shows(p, bits)
      /\ Type[p] = "UINT8_T" => curValue[p] \in 0..(M8 - 1)
  BY DEF CurrentIsGiven
<1>2. \A bits : Shows(p, bits)' <=> Shows(p, bits)
  BY DEF Shows
<1>3. Coming(p)' = Coming(p)
  BY DEF Exact
<1> HIDE DEF Shows, Coming
<1>4. Shows(p, held[p])' <=> Shows(p, held[p])
  BY DEF Shows
<1>5. (\A bits \in Coming(p) : Shows(p, bits))'
  <2>1. \A bits \in Coming(p)' : Shows(p, bits)'
    BY <1>1, <1>2, <1>3
  <2> QED BY <2>1
<1> QED BY <1>1, <1>3, <1>4, <1>5

(* A client that starts finds no number to come, and stores the value of    *)
(* its own.                                                                 *)
LEMMA BeginGiven ==
  ASSUME TypeOK, OneIsComing, OneIsComing', CurrentIsGiven, NEW c \in Client, Begin(c)
  PROVE  CurrentIsGiven'
<1>0. PICK p \in Property : \E v \in SetValue[p] : property2canframe(c, p, v)
  BY DEF Begin
<1>1. PICK v \in SetValue[p] : property2canframe(c, p, v)
  BY <1>0
<1> DEFINE update == UpdateValue(Entry(p), curValue[p], v)
<1>2. /\ frameLock = Nobody /\ frameLock' = c /\ canraw_frame' = canraw_frame /\ held' = held
      /\ curValue' = [curValue EXCEPT ![p] = update.value]
  BY <1>1 DEF Begin, TakeLock, property2canframe
<1>3. /\ update.status = "ERROR" => request'[c].step = "unlock"
      /\ update.status # "ERROR" =>
           request'[c].step = "store" /\ request'[c].p = p /\ request'[c].v = v
  BY <1>1 DEF property2canframe, TypeOK
<1> HIDE DEF update
<1>4. \A q \in Property :
        /\ Coming(q) = {}
        /\ Coming(q)' = IF request'[c].step \in {"store", "send"} /\ request'[c].p = q
                        THEN {BitsOf(request'[c].v) \cap can_mask64(Field[q])} ELSE {}
  BY <1>2 DEF OneIsComing
<1> SUFFICES ASSUME canraw_frame.head = "own", NEW q \in Exact
             PROVE  /\ (Coming(q) = {} => Shows(q, held[q]))'
                    /\ (\A bits \in Coming(q) : Shows(q, bits))'
                    /\ (Type[q] = "UINT8_T" => curValue[q] \in 0..(M8 - 1))'
  BY <1>2 DEF CurrentIsGiven, Exact, Fits
<1>5. /\ q \in Property /\ Shows(q, held[q])
      /\ Type[q] = "UINT8_T" => curValue[q] \in 0..(M8 - 1)
  BY <1>4 DEF CurrentIsGiven, Exact
<1>6. CASE q # p
  <2>1. curValue'[q] = curValue[q] /\ held'[q] = held[q]
    BY <1>2, <1>5, <1>6 DEF TypeOK
  <2>2. Coming(q)' = {}
    BY <1>3, <1>4, <1>5, <1>6
  <2>3. Shows(q, held[q])'
    BY <1>5, <2>1 DEF Shows
  <2> QED BY <1>5, <2>1, <2>2, <2>3
<1>7. CASE q = p
  <2>1. /\ update.status # "ERROR" /\ update.value = Stored(Entry(p), v)
        /\ Type[p] = "UINT8_T" => update.value \in 0..(M8 - 1)
    <3>1. curValue[p] \in Int
      BY DEF TypeOK
    <3> QED BY <1>5, <1>7, <3>1, ExactValue DEF update
  <2>2. curValue'[q] = Stored(Entry(q), v)
    BY <1>2, <1>7, <2>1 DEF TypeOK
  <2>3. Coming(q)' = {BitsOf(v)} /\ NumberOf(BitsOf(v)) = v
    BY <1>3, <1>4, <1>7, <2>1, ExactNumber
  <2>4. Shows(q, BitsOf(v))'
    BY <2>2, <2>3 DEF Shows
  <2>5. (\A bits \in Coming(q) : Shows(q, bits))'
    BY <2>3, <2>4
  <2> QED BY <1>2, <1>7, <2>1, <2>2, <2>3, <2>5
<1> QED BY <1>6, <1>7

(* Storing the bytes is about the same number.                              *)
LEMMA StoreGiven ==
  ASSUME TypeOK, OneIsComing, OneIsComing', CurrentIsGiven, NEW c \in Client, Store(c)
  PROVE  CurrentIsGiven'
<1>1. /\ request[c].step = "store" /\ frameLock = c /\ frameLock' = c
      /\ UNCHANGED <<curValue, held>>
  BY DEF Store, TypeOK
<1>2. canraw_frame'.head = canraw_frame.head
  BY DEF Store, TypeOK, Frame
<1>3. /\ request'[c].step \in {"store", "send"}
      /\ request'[c].p = request[c].p /\ request'[c].v = request[c].v
  <2>1. request[c] \in [step : {"store"}, p : Property, v : Nat, todo : SUBSET Bytes, data : Data]
    BY <1>1, AtStore DEF TypeOK
  <2>2. PICK some : request' = [request EXCEPT ![c] =
           IF some = request[c].todo THEN [step |-> "send", p |-> request[c].p, v |-> request[c].v]
           ELSE [request[c] EXCEPT !.todo = @ \ some]]
    BY DEF Store
  <2> QED BY <2>1, <2>2 DEF TypeOK
<1>4. ASSUME NEW p \in Property
      PROVE  Coming(p)' = Coming(p)
  <2>1. Coming(p) = IF request[c].p = p THEN {BitsOf(request[c].v) \cap can_mask64(Field[p])} ELSE {}
    BY <1>1 DEF OneIsComing
  <2>2. Coming(p)' = IF request'[c].p = p THEN {BitsOf(request'[c].v) \cap can_mask64(Field[p])} ELSE {}
    BY <1>1, <1>3 DEF OneIsComing
  <2> HIDE DEF Coming
  <2> QED BY <1>3, <2>1, <2>2
<1> QED BY <1>1, <1>2, <1>4, GivenStays

(* Once the frame is sent its number is held instead of coming.             *)
LEMMA SendGiven ==
  ASSUME TypeOK, OneIsComing, OneIsComing', CurrentIsGiven, NEW c \in Client, Send(c)
  PROVE  CurrentIsGiven'
<1> DEFINE r == request[c]
           number == BitsOf(r.v) \cap can_mask64(Field[r.p])
<1>1. /\ r.step = "send" /\ frameLock = c /\ frameLock' = c
      /\ canraw_frame' = canraw_frame /\ curValue' = curValue
      /\ held' = [held EXCEPT ![r.p] = number]
      /\ request'[c].step = "unlock"
  BY DEF Send, TypeOK
<1> HIDE DEF r
<1>2. \A q \in Property :
        /\ Coming(q) = IF r.p = q THEN {BitsOf(r.v) \cap can_mask64(Field[q])} ELSE {}
        /\ Coming(q)' = {}
  BY <1>1 DEF OneIsComing, r
<1> SUFFICES ASSUME canraw_frame.head = "own", NEW q \in Exact
             PROVE  /\ Shows(q, held[q])' /\ Coming(q)' = {}
                    /\ (Type[q] = "UINT8_T" => curValue[q] \in 0..(M8 - 1))'
  BY <1>1 DEF CurrentIsGiven, Exact, Fits
<1>3. q \in Property
  BY DEF Exact
<1>4. /\ Coming(q) = {} => Shows(q, held[q])
      /\ \A bits \in Coming(q) : Shows(q, bits)
      /\ Type[q] = "UINT8_T" => curValue[q] \in 0..(M8 - 1)
  BY DEF CurrentIsGiven
<1>5. held'[q] = (IF r.p = q THEN number ELSE held[q]) /\ Shows(q, held'[q])
  BY <1>1, <1>2, <1>3, <1>4 DEF TypeOK
<1>6. Shows(q, held[q])'
  BY <1>1, <1>5 DEF Shows
<1> QED BY <1>1, <1>2, <1>3, <1>4, <1>6

(* The other steps of a request and those of the event loop give nothing; a *)
(* frame of another node takes the place of the binder's.                   *)
LEMMA OthersGiven ==
  ASSUME ForeignIsOther, TypeOK, OneIsComing, OneIsComing', CurrentIsGiven,
         \/ \E c \in Client : Unlock(c) \/ updateSendTimer(c)
         \/ Expire \/ on_timerEvent \/ parse_frame \/ UNCHANGED vars
  PROVE  CurrentIsGiven'
<1>1. ASSUME NEW c \in Client, Unlock(c)
      PROVE  CurrentIsGiven'
  <2>1. /\ frameLock = c /\ frameLock' = Nobody /\ request[c].step = "unlock"
        /\ UNCHANGED <<canraw_frame, curValue, held>>
    BY <1>1 DEF Unlock, TypeOK
  <2>2. \A p \in Property : Coming(p)' = Coming(p)
    BY <2>1 DEF OneIsComing
  <2> QED BY <2>1, <2>2, GivenStays
<1>2. ASSUME NEW c \in Client, updateSendTimer(c)
      PROVE  CurrentIsGiven'
  <2>1. /\ UNCHANGED <<canraw_frame, curValue, held>>
        /\ request[c].step = "timer" /\ request'[c].step = "idle"
        /\ \A d \in Client : d # c => request'[d] = request[d]
    BY <1>2 DEF updateSendTimer, TypeOK, Idle
  <2>2. \A p \in Property : Coming(p)' = Coming(p)
    BY <2>1 DEF Coming
  <2> QED BY <2>1, <2>2, GivenStays
<1>3. CASE Expire \/ on_timerEvent \/ UNCHANGED vars
  <2>1. UNCHANGED <<canraw_frame, curValue, held, request>>
    BY <1>3 DEF Expire, on_timerEvent, vars
  <2>2. \A p \in Property : Coming(p)' = Coming(p)
    BY <2>1 DEF Coming
  <2> QED BY <2>1, <2>2, GivenStays
<1>4. CASE parse_frame
  <2>1. canraw_frame'.head = "other"
    BY <1>4 DEF parse_frame, ForeignIsOther
  <2> QED BY <2>1 DEF CurrentIsGiven
<1> QED BY <1>1, <1>2, <1>3, <1>4

(* The value get answers is that of the number last given or coming, for    *)
(* any number of clients and any numbers that fit.                          *)
THEOREM CurrentStaysGiven ==
  ASSUME Separate, ForeignIsOther
  PROVE  Spec => []CurrentIsGiven
<1>1. SendInvariant => TypeOK /\ OneIsComing
  BY ComingIsOne DEF SendInvariant
<1>2. SendInvariant /\ SendInvariant' /\ CurrentIsGiven /\ [Next]_vars => CurrentIsGiven'
  <2> SUFFICES ASSUME SendInvariant, SendInvariant', CurrentIsGiven, [Next]_vars
               PROVE  CurrentIsGiven'
    OBVIOUS
  <2>1. TypeOK /\ OneIsComing /\ OneIsComing'
    BY <1>1, PTL
  <2> QED
    BY <2>1, BeginGiven, StoreGiven, SendGiven, OthersGiven DEF Next, set
<1> QED BY <1>2, InitGiven, SendIsInvariant, PTL DEF Spec

(* So what get answers and what the frame carries agree between two         *)
(* critical sections.                                                       *)
THEOREM CurrentStaysInFrame ==
  ASSUME Separate, ForeignIsOther
  PROVE  Spec => []CurrentIsInFrame
<1>1. SendInvariant /\ CurrentIsGiven => CurrentIsInFrame
  <2> SUFFICES ASSUME SendInvariant, CurrentIsGiven, NEW p \in Exact,
                      frameLock = Nobody, canraw_frame.head = "own"
               PROVE  Shows(p, FieldOf(canraw_frame.data, p))
    BY DEF CurrentIsInFrame
  <2>1. p \in Property /\ FieldOf(canraw_frame.data, p) = held[p]
    BY DEF Exact, SendInvariant, NoSetIsLost, Carries
  <2>2. Coming(p) = {}
    BY <2>1, ComingIsOne DEF OneIsComing, SendInvariant
  <2> QED BY <2>1, <2>2 DEF CurrentIsGiven
<1> QED BY <1>1, SendIsInvariant, CurrentStaysGiven, PTL

-----------------------------------------------------------------------------
(* The request of the client with the lock is the one under way.            *)
OneUnderWay ==
  /\ frameLock = Nobody => UnderWay = {}
  /\ \A c \in Client : frameLock = c =>
       UnderWay = IF request[c].step \in {"store", "send"} THEN {RequestOf(request[c])} ELSE {}

(* That follows from mutual exclusion, too.                                 *)
LEMMA UnderWayIsOne == TypeOK => OneUnderWay
<1> SUFFICES ASSUME TypeOK PROVE OneUnderWay
  OBVIOUS
<1>1. \A d \in Client : request[d].step \in {"store", "send"} => frameLock = d /\ d # Nobody
  BY SendAssumption DEF TypeOK
<1> QED BY <1>1 DEF OneUnderWay, UnderWay

(* A client that takes the lock gives a number, unless set ends with an     *)
(* error.                                                                   *)
LEMMA BeginGives ==
  ASSUME TypeOK, OneUnderWay, OneUnderWay', NEW c \in Client, Begin(c)
  PROVE  Sender!Give \/ UNCHANGED Sender!vars
<1>0. PICK p \in Property : \E v \in SetValue[p] : property2canframe(c, p, v)
  BY DEF Begin
<1>1. PICK v \in SetValue[p] : property2canframe(c, p, v)
  BY <1>0
<1>2. /\ frameLock = Nobody /\ frameLock' = c /\ UNCHANGED <<canraw_frame, wire>>
      /\ request'[c].step \in {"store", "unlock"}
      /\ request'[c].step = "store" => request'[c].p = p
  BY <1>1 DEF Begin, TakeLock, property2canframe, TypeOK
<1>3. UNCHANGED <<InFrame(canraw_frame), InFrame(wire)>>
  BY <1>2 DEF InFrame
<1>4. UnderWay = {}
  BY <1>2 DEF OneUnderWay
<1>5. UnderWay' = IF request'[c].step \in {"store", "send"} THEN {RequestOf(request'[c])} ELSE {}
  BY <1>2 DEF OneUnderWay
<1>6. CASE request'[c].step = "store"
  <2>1. RequestOf(request'[c]).p = p
    BY <1>2, <1>6 DEF RequestOf
  <2> QED BY <1>3, <1>4, <1>5, <1>6, <2>1 DEF Sender!Give
<1>7. CASE request'[c].step = "unlock"
  BY <1>3, <1>4, <1>5, <1>7 DEF Sender!vars
<1> QED BY <1>2, <1>6, <1>7

(* Storing bytes brings part of its number into place, and nothing else.    *)
LEMMA StoreProceeds ==
  ASSUME SendInvariant, OneUnderWay, OneUnderWay', NEW c \in Client, Store(c)
  PROVE  \E r \in UnderWay : Sender!Proceed(r)
<1> DEFINE r == request[c]
           old == canraw_frame.data
           now == canraw_frame'.data
<1>1. /\ r.step = "store" /\ frameLock = c /\ frameLock' = c /\ wire' = wire
      /\ r \in [step : {"store"}, p : Property, v : Nat, todo : SUBSET Bytes, data : Data]
  BY AtStore DEF Store, SendInvariant, TypeOK
<1>2. PICK some \in (SUBSET r.todo) \ {{}} :
        /\ canraw_frame' = [canraw_frame EXCEPT !.data =
             [k \in Bytes |-> IF k \in some THEN r.data[k] ELSE @[k]]]
        /\ request' = [request EXCEPT ![c] =
             IF some = r.todo THEN [step |-> "send", p |-> r.p, v |-> r.v]
             ELSE [r EXCEPT !.todo = @ \ some]]
  BY DEF Store
<1>3. /\ request'[c].step \in {"store", "send"}
      /\ request'[c].p = r.p /\ request'[c].v = r.v
  BY <1>1, <1>2 DEF SendInvariant, TypeOK
<1>4. UnderWay = {RequestOf(r)} /\ UnderWay' = {RequestOf(r)}
  <2>1. UnderWay = {RequestOf(r)} /\ UnderWay' = {RequestOf(request'[c])}
    BY <1>1, <1>3 DEF OneUnderWay
  <2>2. RequestOf(request'[c]) = RequestOf(r)
    BY <1>3 DEF RequestOf
  <2> QED BY <2>1, <2>2
<1>5. /\ old \in Data /\ now \in Data
      /\ \A k \in Bytes : now[k] = old[k] \/ now[k] = r.data[k]
  <2>1. old \in Data /\ now = [k \in Bytes |-> IF k \in some THEN r.data[k] ELSE old[k]]
    BY <1>2 DEF SendInvariant, TypeOK, Frame
  <2> HIDE DEF now, old
  <2> QED BY <1>1, <2>1 DEF Data, Bytes
<1>6. \A p \in Property :
        /\ FieldOf(r.data, p) = After(r, p)
        /\ p # r.p => FieldOf(old, p) = held[p]
        /\ FieldOf(old, p) \cap After(r, p) \subseteq FieldOf(now, p)
        /\ FieldOf(now, p) \subseteq FieldOf(old, p) \cup After(r, p)
        /\ Narrow(Field[p]) => FieldOf(now, p) \in {FieldOf(old, p), After(r, p)}
  <2> TAKE p \in Property
  <2>1. FieldOf(r.data, p) = After(r, p) /\ (p # r.p => FieldOf(old, p) = held[p])
    BY <1>1 DEF SendInvariant, Progress
  <2> HIDE DEF old, now, r
  <2>2. /\ FieldOf(old, p) \cap FieldOf(r.data, p) \subseteq FieldOf(now, p)
        /\ FieldOf(now, p) \subseteq FieldOf(old, p) \cup FieldOf(r.data, p)
    BY <1>1, <1>5, MixedField
  <2>3. ASSUME Narrow(Field[p])
        PROVE  FieldOf(now, p) \in {FieldOf(old, p), FieldOf(r.data, p)}
    <3> DEFINE k == Field[p].pos - 1
    <3>1. k \in Bytes
      BY <1>5, <2>3, NarrowField
    <3>2. now[k] = old[k] \/ now[k] = r.data[k]
      BY <1>5, <3>1
    <3> QED BY <1>1, <1>5, <2>3, <3>2, NarrowField
  <2> QED BY <2>1, <2>2, <2>3
<1> DEFINE q == RequestOf(r)
<1>7. q.p = r.p /\ r.p \in Property /\ q.bits = After(r, r.p)
  BY <1>1 DEF RequestOf, After
<1>8. /\ InFrame(canraw_frame)' = [InFrame(canraw_frame) EXCEPT ![q.p] = InFrame(canraw_frame)'[q.p]]
      /\ InFrame(canraw_frame)[q.p] = FieldOf(old, q.p)
      /\ InFrame(canraw_frame)'[q.p] = FieldOf(now, q.p)
  <2>1. \A p \in Property : p # r.p => FieldOf(now, p) = FieldOf(old, p)
    <3> HIDE DEF old, now, r
    <3> QED BY <1>6 DEF After
  <2> HIDE DEF r, q
  <2> QED BY <1>7, <2>1 DEF InFrame
<1>9. UNCHANGED <<UnderWay, InFrame(wire)>>
  BY <1>1, <1>4 DEF InFrame
<1>10. Sender!Proceed(q)
  <2> HIDE DEF old, now, r, q
  <2>1. /\ Sender!Between(InFrame(canraw_frame)[q.p], InFrame(canraw_frame)'[q.p], q.bits)
        /\ Narrow(Field[q.p]) =>
             InFrame(canraw_frame)'[q.p] \in {InFrame(canraw_frame)[q.p], q.bits}
    BY <1>6, <1>7, <1>8 DEF Sender!Between
  <2> QED BY <1>8, <1>9, <2>1 DEF Sender!Proceed
<1> QED BY <1>4, <1>10

(* The end of the stores is a number in place, which is sent.               *)
LEMMA SendFinishes ==
  ASSUME SendInvariant, OneUnderWay, OneUnderWay', NEW c \in Client, Send(c)
  PROVE  \E r \in UnderWay : Sender!Finish(r)
<1> DEFINE r == request[c]
           q == RequestOf(r)
<1>1. /\ r.step = "send" /\ frameLock = c /\ frameLock' = c /\ wire' \in {canraw_frame, wire}
      /\ canraw_frame' = canraw_frame /\ request'[c].step = "unlock"
  BY DEF Send, socketcan_send, SendInvariant, TypeOK
<1>2. r.p \in Property
  BY <1>1, AtSend DEF SendInvariant, TypeOK
<1>3. UnderWay = {q} /\ UnderWay' = {}
  BY <1>1 DEF OneUnderWay
<1>4. InFrame(canraw_frame)[q.p] = q.bits
  <2>1. FieldOf(canraw_frame.data, r.p) = After(r, r.p)
    BY <1>1, <1>2 DEF SendInvariant, Progress
  <2>2. q.p = r.p /\ q.bits = After(r, r.p)
    BY DEF RequestOf, After
  <2> HIDE DEF q, r
  <2> QED BY <1>2, <2>1, <2>2 DEF InFrame
<1>5. /\ InFrame(wire)' \in {InFrame(wire), InFrame(canraw_frame)}
      /\ UNCHANGED InFrame(canraw_frame)
  BY <1>1 DEF InFrame
<1>6. Sender!Finish(q)
  BY <1>3, <1>4, <1>5 DEF Sender!Finish
<1> QED BY <1>3, <1>6

(* The timer sends what is in place, or fails; a frame of another node      *)
(* replaces it, between two requests; the other steps do not show.          *)
LEMMA OthersImplement ==
  ASSUME TypeOK, OneUnderWay, OneUnderWay',
         \/ \E c \in Client : Unlock(c) \/ updateSendTimer(c)
         \/ Expire \/ on_timerEvent \/ parse_frame \/ UNCHANGED vars
  PROVE  [Sender!Next]_(Sender!vars)
<1>1. ASSUME NEW c \in Client, Unlock(c)
      PROVE  UNCHANGED Sender!vars
  <2>1. /\ frameLock = c /\ frameLock' = Nobody /\ request[c].step = "unlock"
        /\ UNCHANGED <<canraw_frame, wire>>
    BY <1>1 DEF Unlock, TypeOK
  <2> QED BY <2>1 DEF OneUnderWay, InFrame, Sender!vars
<1>2. ASSUME NEW c \in Client, updateSendTimer(c)
      PROVE  UNCHANGED Sender!vars
  <2>1. /\ UNCHANGED <<canraw_frame, wire>>
        /\ request[c].step = "timer" /\ request'[c].step = "idle"
        /\ \A d \in Client : d # c => request'[d] = request[d]
    BY <1>2 DEF updateSendTimer, TypeOK, Idle
  <2>2. UnderWay' = UnderWay
    BY <2>1 DEF UnderWay
  <2> QED BY <2>1, <2>2 DEF InFrame, Sender!vars
<1>3. CASE Expire \/ UNCHANGED vars
  BY <1>3 DEF Expire, vars, InFrame, UnderWay, Sender!vars
<1>4. CASE on_timerEvent
  <2>1. UNCHANGED <<canraw_frame, request>> /\ wire' \in {canraw_frame, wire}
    BY <1>4 DEF on_timerEvent, socketcan_send
  <2>2. UNCHANGED <<InFrame(canraw_frame), UnderWay>>
    BY <2>1 DEF InFrame, UnderWay
  <2>3. InFrame(wire)' = InFrame(canraw_frame) \/ InFrame(wire)' = InFrame(wire)
    BY <2>1 DEF InFrame
  <2> QED BY <2>2, <2>3 DEF Sender!Next, Sender!Repeat, Sender!vars
<1>5. CASE parse_frame
  <2>1. frameLock = Nobody /\ UNCHANGED <<wire, request>>
    BY <1>5 DEF parse_frame
  <2>2. UnderWay = {} /\ UNCHANGED <<InFrame(wire), UnderWay>>
    BY <2>1 DEF OneUnderWay, InFrame, UnderWay
  <2>3. InFrame(canraw_frame)' = [p \in Property |-> InFrame(canraw_frame)'[p]]
    BY DEF InFrame
  <2> QED BY <2>2, <2>3 DEF Sender!Next, Sender!Replace
<1> QED BY <1>1, <1>2, <1>3, <1>4, <1>5 DEF Sender!Next

(* The threads, the timer and the lock together implement the abstract      *)
(* transmission, for any number of clients, properties and bytes.           *)
THEOREM SendImplementsTransmission ==
  ASSUME Separate
  PROVE  Spec => SendsWhatIsGiven
<1>1. Init => Sender!Init
  <2> SUFFICES ASSUME Init PROVE Sender!Init
    OBVIOUS
  <2>1. SendInvariant
    BY InitInvariant
  <2>2. frameLock = Nobody /\ canraw_frame = Own /\ wire = Own
        /\ \A p \in Property : held[p] = {}
    BY DEF Init
  <2>3. InFrame(Own) = [p \in Property |-> {}]
    BY <2>1, <2>2 DEF SendInvariant, NoSetIsLost, Carries, InFrame
  <2>4. UnderWay = {}
    BY DEF Init, Idle, UnderWay
  <2> QED BY <2>2, <2>3, <2>4 DEF Sender!Init
<1>2. SendInvariant => OneUnderWay
  BY UnderWayIsOne DEF SendInvariant
<1>3. SendInvariant /\ SendInvariant' /\ [Next]_vars => [Sender!Next]_(Sender!vars)
  <2> SUFFICES ASSUME SendInvariant, SendInvariant', [Next]_vars
               PROVE  [Sender!Next]_(Sender!vars)
    OBVIOUS
  <2>1. TypeOK /\ OneUnderWay /\ OneUnderWay'
    BY <1>2, PTL DEF SendInvariant
  <2>2. ASSUME NEW c \in Client, Begin(c)
        PROVE  [Sender!Next]_(Sender!vars)
    BY <2>1, <2>2, BeginGives DEF Sender!Next
  <2>3. ASSUME NEW c \in Client, Store(c)
        PROVE  [Sender!Next]_(Sender!vars)
    BY <2>1, <2>3, StoreProceeds DEF Sender!Next
  <2>4. ASSUME NEW c \in Client, Send(c)
        PROVE  [Sender!Next]_(Sender!vars)
    BY <2>1, <2>4, SendFinishes DEF Sender!Next
  <2> QED BY <2>1, <2>2, <2>3, <2>4, OthersImplement DEF Next, set
<1> QED BY <1>1, <1>3, SendIsInvariant, PTL DEF Spec, SendsWhatIsGiven, Sender!Spec

=============================================================================
