------------------------------ MODULE SendPath ------------------------------
(***************************************************************************)
(* The transmission of the properties of one CAN ID of kind CAN_KIND_SEND: *)
(* the verb set (af-canivi-binding.c, can_signal_event.c), the timer that  *)
(* sends the frame again every second, and frames with that CAN ID that    *)
(* the binder receives.  All share canraw_frame, which frameLock protects  *)
(* - but not from the timer.                                               *)
(*                                                                         *)
(* The verbs of clients run on threads of afb-daemon; timer and reception  *)
(* run one at a time on its event loop.  property2canframe stores the      *)
(* bytes of the frame without any order the timer could rely on, several   *)
(* at once if the compiler merges stores; send takes all bytes at once.    *)
(* Time is left out: the timer may expire at any moment after it was set.  *)
(***************************************************************************)
EXTENDS CanFrame, PropertyValue, FiniteSetsExt

CONSTANTS
  Client,     \* the clients, each with a request at a time
  Property,   \* the names of the CAN ID
  Field,      \* Field[p]: where p is in the frame
  Type,       \* Type[p]: its var_type
  SetValue,   \* SetValue[p]: the numbers clients pass to set for p
  Foreign,    \* the frames with this CAN ID that other nodes send
  Nobody      \* no client

(* A frame: whether its can_id and can_dlc are those the loader gave the    *)
(* CAN ID, and its data.                                                    *)
Frame == [head : {"own", "other"}, data : Data]

ASSUME SendAssumption ==
  /\ Field \in [Property -> Fields] /\ Type \in [Property -> VarType]
  /\ SetValue \in [Property -> SUBSET (0..(M32 - 1))]
  /\ Foreign \subseteq Frame
  /\ Nobody \notin Client

VARIABLES
  canraw_frame,  \* head (can_id and can_dlc) and data
  curValue,      \* curValue[p]
  frameLock,     \* the client that holds it, Nobody if it is free
  request,       \* request[c]: what the set of c is doing
  timer,         \* "running", or "expired" until it is handled or set anew
  wire,          \* the last frame the binder sent
  given,         \* history: given[p], the bits last set
  held           \* history: the same, or those of a frame received since

vars == <<canraw_frame, curValue, frameLock, request, timer, wire, given, held>>

-----------------------------------------------------------------------------
(* The bits of the unsigned number v that fit in a word, and back. *)
BitsOf(v) == {b \in Bits : (v \div 2^b) % 2 = 1}
NumberOf(bits) == MapThenSumSet(LAMBDA b : 2^b, bits)

(* A number has 32 bits and a word 64: the bits of every number that is set  *)
(* are in the word.                                                          *)
ASSUME NumberAssumption ==
  \A p \in Property : \A v \in SetValue[p] : NumberOf(BitsOf(v)) = v

(* There is no SET-DATA in the TRANSMISSION block. *)
Entry(p) == [type |-> Type[p], mask |-> 2^Field[p].len - 1, conv |-> << >>]

ASSUME EntryAssumption == \A p \in Property : IsEntry(Entry(p))

FieldOf(data, p) == ReadField(canvalue2host(data), Field[p])

Bytes == 0..(BYTE_OF_FRAME - 1)

Own == [head |-> "own", data |-> [k \in Bytes |-> {}]]

Idle == [step |-> "idle"]

Init ==
  /\ canraw_frame = Own
  /\ curValue = [p \in Property |-> 0]
  /\ frameLock = Nobody
  /\ request = [c \in Client |-> Idle]
  /\ timer = "running"
  /\ wire = Own
  /\ given = [p \in Property |-> {}] /\ held = given

-----------------------------------------------------------------------------
(* property2canframe stores the value and works out the frame from what is  *)
(* in it; a type without a conversion ends the work with an error.          *)
property2canframe(c, p, v) ==
  LET update == UpdateValue(Entry(p), curValue[p], v)
      word   == WriteField(canvalue2host(canraw_frame.data), Field[p], BitsOf(v))
  IN  /\ curValue' = [curValue EXCEPT ![p] = update.value]
      /\ request' = [request EXCEPT ![c] =
           IF update.status = "ERROR" THEN [step |-> "unlock"]
           ELSE [step |-> "store", p |-> p, v |-> v,
                 todo |-> Bytes, data |-> host2canvalue(word)]]

(* Mutant: can_signal_send does not wait for the lock. *)
TakeLockAnyway(c) == frameLock' = c

TakeLock(c) == frameLock = Nobody /\ frameLock' = c

(* set, can_signal_send: the value and the new frame, with the lock taken. *)
Begin(c) ==
  /\ request[c].step = "idle"
  /\ TakeLock(c)
  /\ \E p \in Property : \E v \in SetValue[p] : property2canframe(c, p, v)
  /\ UNCHANGED <<canraw_frame, timer, wire, given, held>>

(* Mutant: the bytes still to be stored are cleared before. *)
StoreClears(c) ==
  LET r == request[c]
  IN  /\ r.step = "store"
      /\ \E some \in (SUBSET r.todo) \ {{}} :
           /\ canraw_frame' = [canraw_frame EXCEPT !.data =
                [k \in Bytes |-> IF k \in r.todo \ some THEN {} ELSE r.data[k]]]
           /\ request' = [request EXCEPT ![c] =
                IF some = r.todo THEN [step |-> "send", p |-> r.p, v |-> r.v]
                ELSE [r EXCEPT !.todo = @ \ some]]
      /\ UNCHANGED <<curValue, frameLock, timer, wire, given, held>>

(* host2canvalue stores the bytes in some. *)
Store(c) ==
  LET r == request[c]
  IN  /\ r.step = "store"
      /\ \E some \in (SUBSET r.todo) \ {{}} :
           /\ canraw_frame' = [canraw_frame EXCEPT !.data =
                [k \in Bytes |-> IF k \in some THEN r.data[k] ELSE @[k]]]
           /\ request' = [request EXCEPT ![c] =
                IF some = r.todo THEN [step |-> "send", p |-> r.p, v |-> r.v]
                ELSE [r EXCEPT !.todo = @ \ some]]
      /\ UNCHANGED <<curValue, frameLock, timer, wire, given, held>>

(* socketcan_send, which may fail. *)
socketcan_send(frame) == wire' \in {frame, wire}

Send(c) ==
  LET r == request[c]
      number == BitsOf(r.v) \cap can_mask64(Field[r.p])
  IN  /\ r.step = "send"
      /\ socketcan_send(canraw_frame)
      /\ given' = [given EXCEPT ![r.p] = number]
      /\ held' = [held EXCEPT ![r.p] = number]
      /\ request' = [request EXCEPT ![c] = [step |-> "unlock"]]
      /\ UNCHANGED <<canraw_frame, curValue, frameLock, timer>>

Unlock(c) ==
  /\ request[c].step = "unlock"
  /\ frameLock' = Nobody
  /\ request' = [request EXCEPT ![c] = [step |-> "timer"]]
  /\ UNCHANGED <<canraw_frame, curValue, timer, wire, given, held>>

(* updateSendTimer, and the answer to the client. *)
updateSendTimer(c) ==
  /\ request[c].step = "timer"
  /\ timer' = "running"
  /\ request' = [request EXCEPT ![c] = Idle]
  /\ UNCHANGED <<canraw_frame, curValue, frameLock, wire, given, held>>

set(c) == Begin(c) \/ Store(c) \/ Send(c) \/ Unlock(c) \/ updateSendTimer(c)

Expire ==
  /\ timer = "running"
  /\ timer' = "expired"
  /\ UNCHANGED <<canraw_frame, curValue, frameLock, request, wire, given, held>>

(* Mutant: the timer is not periodic. *)
OneShot ==
  /\ timer = "expired"
  /\ timer' = "off"
  /\ socketcan_send(canraw_frame)
  /\ UNCHANGED <<canraw_frame, curValue, frameLock, request, given, held>>

(* on_timerEvent does not take the lock.  A send that fails is not tried    *)
(* again before the next expiry.                                            *)
on_timerEvent ==
  /\ timer = "expired"
  /\ timer' = "running"
  /\ socketcan_send(canraw_frame)
  /\ UNCHANGED <<canraw_frame, curValue, frameLock, request, given, held>>

(* parse_frame of a frame with this CAN ID: it is copied to canraw_frame,   *)
(* head and all, before the kind of the CAN ID is looked at.                *)
parse_frame ==
  /\ frameLock = Nobody
  /\ \E f \in Foreign :
       /\ canraw_frame' = f
       /\ held' = [p \in Property |-> FieldOf(f.data, p)]
  /\ UNCHANGED <<curValue, frameLock, request, timer, wire, given>>

Next == Expire \/ on_timerEvent \/ parse_frame \/ \E c \in Client : set(c)

Spec == Init /\ [][Next]_vars

(* A thread goes on with its request, the timer expires, the event loop     *)
(* handles it, and a send does not fail for ever.                           *)
SendSucceeds == on_timerEvent /\ wire' = canraw_frame

FairSpec ==
  /\ Spec
  /\ \A c \in Client : WF_vars(Store(c) \/ Send(c) \/ Unlock(c) \/ updateSendTimer(c))
  /\ WF_vars(Expire) /\ WF_vars(on_timerEvent) /\ SF_vars(SendSucceeds)

-----------------------------------------------------------------------------
(* What a request can be at. *)
Request ==
  [step : {"idle", "unlock", "timer"}]
    \cup [step : {"store"}, p : Property, v : Nat, todo : SUBSET Bytes, data : Data]
    \cup [step : {"send"}, p : Property, v : Nat]

(* Every variable has the type its declaration describes. *)
TypeOK ==
  /\ canraw_frame \in Frame /\ wire \in Frame
  /\ curValue \in [Property -> Int]
  /\ frameLock \in Client \cup {Nobody}
  /\ request \in [Client -> Request]
  /\ \A c \in Client : request[c].step \in {"store", "send", "unlock"} <=> frameLock = c
  /\ timer \in {"running", "expired"}
  /\ given \in [Property -> SUBSET Bits] /\ held \in [Property -> SUBSET Bits]

(* Fields that lie in the frame and have no bit in common. *)
Separate ==
  \A p \in Property : /\ Inside(Field[p])
                       /\ \A q \in Property \ {p} : Place(Field[p]) \cap Place(Field[q]) = {}

Carries(data) == \A p \in Property : FieldOf(data, p) = held[p]

(* Nobody's set is lost to that of another client on the same frame, and    *)
(* none changes a property that shares a byte with its own: between two     *)
(* critical sections every field has the number last given to it.           *)
NoSetIsLost == frameLock = Nobody => Carries(canraw_frame.data)

(* What p has once request r is done. *)
After(r, p) == IF p = r.p THEN BitsOf(r.v) \cap can_mask64(Field[r.p]) ELSE held[p]

(* What a client in the critical section has done of its work. *)
Progress(r) ==
  /\ r.step = "unlock" => Carries(canraw_frame.data)
  /\ r.step = "send" =>
       \A p \in Property : FieldOf(canraw_frame.data, p) = After(r, p)
  /\ r.step = "store" =>
       /\ \A p \in Property :
            /\ FieldOf(r.data, p) = After(r, p)
            /\ p # r.p => FieldOf(canraw_frame.data, p) = held[p]
            /\ Narrow(Field[p]) =>
                 FieldOf(canraw_frame.data, p) \in {held[p], After(r, p)}
       /\ \A k \in Bytes \ r.todo : canraw_frame.data[k] = r.data[k]

(* The inductive invariant of NoSetIsLost and SentIsWhole. *)
SendInvariant ==
  TypeOK /\ NoSetIsLost /\ \A c \in Client : Progress(request[c])

(* The numbers p is being given. *)
Coming(p) ==
  {BitsOf(request[c].v) \cap can_mask64(Field[p]) :
     c \in {d \in Client : request[d].step \in {"store", "send"} /\ request[d].p = p}}

(* A field that lies in one byte is never seen torn, although the timer     *)
(* sends a frame that a client is in the middle of writing.                 *)
SentIsWhole ==
  [][\A p \in Property : wire' # wire /\ Narrow(Field[p])
                           => FieldOf(wire'.data, p) \in {held[p]} \cup Coming(p)]_vars

Fits(p) == \A v \in SetValue[p] : BitsOf(v) \subseteq can_mask64(Field[p])

(* The value of p is shown as the number in bits is. *)
Shows(p, bits) ==
  ValueJson(Entry(p), curValue[p]) = ValueJson(Entry(p), Stored(Entry(p), NumberOf(bits)))

(* The properties with a number, given only numbers that fit their field. *)
Exact == {p \in Property : Entry(p).type \in IntTypes \cup {"BOOL_T"} /\ Fits(p)}

(* Frames of other nodes differ in can_id or can_dlc, so that one that has   *)
(* taken the place of the binder's own shows.                                *)
ForeignIsOther == \A f \in Foreign : f.head = "other"

(* As long as no frame of another node has taken the place of its own, what *)
(* get answers for a property that is given numbers that fit its field is   *)
(* what the frame carries.                                                  *)
CurrentIsInFrame ==
  frameLock = Nobody /\ canraw_frame.head = "own" =>
    \A p \in Exact : Shows(p, FieldOf(canraw_frame.data, p))

(* The inductive invariant behind CurrentIsInFrame: set stores the value    *)
(* before the frame, so it is that of the number last given or coming; and  *)
(* a UINT8_T, compared with an int8_t, holds no negative number that could  *)
(* be mistaken for it.                                                      *)
CurrentIsGiven ==
  canraw_frame.head = "own" => \A p \in Exact :
    /\ Coming(p) = {} => Shows(p, held[p])
    /\ \A bits \in Coming(p) : Shows(p, bits)
    /\ Type[p] = "UINT8_T" => curValue[p] \in 0..(M8 - 1)

(* A frame of this CAN ID that is received is ignored: all the binder sends *)
(* is its own CAN ID with the numbers its clients gave.                     *)
ReceivedIsIgnored ==
  [][wire' # wire =>
       /\ wire'.head = "own"
       /\ \A p \in Property : FieldOf(wire'.data, p) \in {given[p]} \cup Coming(p)]_vars

(* The properties as a frame has them, and the request under way. *)
InFrame(frame) == [p \in Property |-> FieldOf(frame.data, p)]

RequestOf(r) == [p |-> r.p, bits |-> BitsOf(r.v) \cap can_mask64(Field[r.p])]

UnderWay == {RequestOf(request[c]) : c \in {d \in Client : request[d].step \in {"store", "send"}}}

(* The transmission implements its abstract specification: clients give     *)
(* numbers one at a time; a frame sent in the middle of a set has old and   *)
(* new bits of that property and all others as they were; and no bit goes   *)
(* back from new to old.                                                    *)
Sender == INSTANCE Transmission WITH
  Whole  <- {p \in Property : Narrow(Field[p])},
  shown  <- InFrame(canraw_frame),
  coming <- UnderWay,
  sent   <- InFrame(wire)

SendsWhatIsGiven == Sender!Spec

(* Once the clients set nothing more, the number that was last set for a    *)
(* property gets on the bus and stays there, also when the send of set      *)
(* failed: the timer makes up for it.  Frames of other nodes may come at    *)
(* any time, as long as none puts another number in the place of that one.  *)
Settled == \A c \in Client : request[c] = Idle

LastSetIsSent ==
  \A p \in Property :
    <>[](Settled /\ held[p] = given[p]) => <>[](FieldOf(wire.data, p) = given[p])

=============================================================================
