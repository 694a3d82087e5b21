--------------------------- MODULE CanDictionary ---------------------------
(***************************************************************************)
(* The loader of the CAN definition file: can_define_init of can_json.c    *)
(* with the dictionaries of canid_search.c, the trees canid_root and       *)
(* property_root and the list support_property_list.                       *)
(*                                                                         *)
(* The file is the sequence of its CAN ID definitions in the order of the  *)
(* file, RECEPTION and TRANSMISSION blocks together.  A definition has a   *)
(* key, a kind and, when its DATA is an array, the members of that array.  *)
(* An entry of the dictionary is known by its place in that array.         *)
(***************************************************************************)
EXTENDS PropertyUpdate, CanFrame

CONSTANTS
  Files,                  \* the definition files the loader may be given
  Property,               \* the names in them
  CAN_SFF_MASK,           \* 0x7ff
  SUPPORT_PROPERTY_LIMIT  \* the capacity of support_property_list

Kinds == {"CAN_KIND_READONLY", "CAN_KIND_SEND"}

(* The JSON of one array element: numbers of any size, a TYPE that may be  *)
(* unknown, and a SET-DATA whose elements are of one JSON type or not, and *)
(* that may stand before TYPE.                                             *)
IsMember(m) ==
  /\ m.name \in Property
  /\ m.POS \in Int /\ m.OFFS \in Int /\ m.LEN \in Int
  /\ m.TYPE \in STRING
  /\ m.SET_DATA.elements \in {"none", "string", "int", "mixed"}
  /\ m.SET_DATA.elements = "string" => m.SET_DATA.array \in Seq(STRING)
  /\ m.SET_DATA.elements = "int" => m.SET_DATA.array \in Seq(Int)
  /\ m.typeIsFirst \in BOOLEAN

IsDefinition(d) ==
  /\ d.key \in Int /\ d.kind \in Kinds /\ d.dataIsArray \in BOOLEAN
  /\ Len(d.data) \in Nat /\ DOMAIN d.data = 1..Len(d.data)
  /\ \A k \in DOMAIN d.data : IsMember(d.data[k])

IsFile(f) ==
  Len(f) \in Nat /\ DOMAIN f = 1..Len(f) /\ \A k \in DOMAIN f : IsDefinition(f[k])

ASSUME LoaderAssumption ==
  /\ \A f \in Files : IsFile(f)
  /\ \A len \in 0..(Width \div 2) : 2^len \in 1..M32
  /\ CAN_SFF_MASK \in Nat \ {0} /\ SUPPORT_PROPERTY_LIMIT \in Nat

CanId == 0..CAN_SFF_MASK

VARIABLES
  file,        \* the file that is loaded
  next,        \* the definition parse_canid_def comes to next
  canid_root,  \* canid_root[id]: the definition the node of id was made from, 0 if none
  property,    \* property[id]: the array of id, each slot with the member it was
               \* made from and, in order, those chained to it by next pointers
  nData,       \* nData[id]: how many slots of the array are in use
  property_root,          \* property_root[p]: where the node of name p points
  support_property_list,  \* the names that "*" stands for
  adding,      \* where addCANID_dict is: its CAN ID, i and maxEntry
  timers       \* the CAN IDs with a send timer

dictionary == <<canid_root, property, nData, property_root, support_property_list, timers>>
vars == <<file, next, dictionary, adding>>

NoNode == [id |-> -1, slot |-> 0]
Idle   == [id |-> -1, i |-> 0, maxEntry |-> 0]

-----------------------------------------------------------------------------
(* add_propertyMember: what an element of DATA becomes. *)

vartype_strings ==
  [VOID_T |-> "void", INT8_T |-> "int8_t", INT16_T |-> "int16_t", INT_T |-> "int",
   INT32_T |-> "int32_t", INT64_T |-> "int64_t", UINT8_T |-> "uint8_t",
   UINT16_T |-> "uint16_t", UINT_T |-> "uint", UINT32_T |-> "uint32_t",
   UINT64_T |-> "uint64_t", STRING_T |-> "string", BOOL_T |-> "bool",
   ARRAY_T |-> "LIST", ENABLE1_T |-> "ENABLE-1"]

(* An unknown TYPE becomes void. *)
string2vartype(name) ==
  IF \E t \in VarType : vartype_strings[t] = name
  THEN CHOOSE t \in VarType : vartype_strings[t] = name ELSE "VOID_T"

(* Mutant: a type without tables takes one of numbers. *)
TablesForAll(set, type) ==
  IF set.elements = (IF type = "STRING_T" THEN "string" ELSE "int") THEN set.array ELSE << >>

create_convert_tables(set, type) ==
  IF type \in ConvTypes /\ set.elements = (IF type = "STRING_T" THEN "string" ELSE "int")
  THEN set.array ELSE << >>

(* A number of the file cut to an unsigned char, 0 when it is too large. *)
AtMost(limit, n) == LET c == n % M8 IN IF c > limit THEN 0 ELSE c

(* The SET-DATA table is converted with the type known so far, void before *)
(* TYPE, and a property that is sent has none.                             *)
add_propertyMember(m, kind) ==
  [name  |-> m.name,
   type  |-> string2vartype(m.TYPE),
   conv  |-> IF kind = "CAN_KIND_SEND" THEN << >>
             ELSE create_convert_tables(m.SET_DATA, IF m.typeIsFirst THEN string2vartype(m.TYPE)
                                                                     ELSE "VOID_T"),
   field |-> [pos  |-> AtMost(BYTE_OF_FRAME, m.POS),
              offs |-> AtMost(BITS_OF_BYTE, m.OFFS),
              len  |-> AtMost(Width \div 2, m.LEN)]]

(* The entry of CAN ID id that was made from member k of its definition. *)
Entry(id, k) == add_propertyMember(file[canid_root[id]].data[k], file[canid_root[id]].kind)

NameAt(id, k) == file[canid_root[id]].data[k].name

-----------------------------------------------------------------------------
Init ==
  /\ file \in Files
  /\ next = 1
  /\ canid_root = [id \in CanId |-> 0]
  /\ property = [id \in CanId |-> << >>]
  /\ nData = [id \in CanId |-> 0]
  /\ property_root = [p \in Property |-> NoNode]
  /\ support_property_list = << >>
  /\ adding = Idle
  /\ timers = {}

(* The node a key of the file stands for: a jcanid_t has 16 bits, of which *)
(* a standard frame has 11.                                                *)
CanIdOf(key) == (key % M16) % (CAN_SFF_MASK + 1)

(* parse_caninfo up to the loop of addCANID_dict: a definition is dropped  *)
(* when its CAN ID is defined already, whether getCANID_dict or tsearch    *)
(* finds it, or when DATA is missing or no array.  A key that is no CAN ID *)
(* is logged, and loaded all the same.                                     *)
parse_caninfo ==
  /\ adding = Idle /\ next \in DOMAIN file
  /\ next' = next + 1
  /\ LET d  == file[next]
         id == CanIdOf(d.key)
         n  == Len(d.data)
     IN  IF canid_root[id] # 0 \/ ~d.dataIsArray
         THEN UNCHANGED <<dictionary, adding>>
         ELSE /\ canid_root' = [canid_root EXCEPT ![id] = next]
              /\ property' = [property EXCEPT ![id] =
                                [k \in 1..n |-> [member |-> k, next |-> << >>]]]
              /\ nData' = [nData EXCEPT ![id] = n]
              /\ adding' = [id |-> id, i |-> 1, maxEntry |-> n]
              /\ UNCHANGED <<property_root, support_property_list, timers>>
  /\ UNCHANGED file

(* The array of adding.id, and the name and the node the loop is at. *)
Slots == property[adding.id]
Adding == adding # Idle /\ adding.i <= adding.maxEntry
NameAdded == NameAt(adding.id, Slots[adding.i].member)
NodeOf == property_root[NameAdded]

GoOn == adding' = [adding EXCEPT !.i = @ + 1]

(* Mutant: the limit is one too many. *)
LimitIsOver ==
  /\ Adding /\ NodeOf = NoNode
  /\ property_root' = [property_root EXCEPT ![NameAdded] = [id |-> adding.id, slot |-> adding.i]]
  /\ support_property_list' = IF Len(support_property_list) <= SUPPORT_PROPERTY_LIMIT
                              THEN Append(support_property_list, NameAdded)
                              ELSE support_property_list
  /\ GoOn
  /\ UNCHANGED <<file, next, canid_root, property, nData, timers>>

(* addProperty_dict of a name that is new: it enters the tree and, if there *)
(* is room, the list.                                                       *)
addProperty ==
  /\ Adding /\ NodeOf = NoNode
  /\ property_root' = [property_root EXCEPT ![NameAdded] = [id |-> adding.id, slot |-> adding.i]]
  /\ support_property_list' = IF Len(support_property_list) < SUPPORT_PROPERTY_LIMIT
                              THEN Append(support_property_list, NameAdded)
                              ELSE support_property_list
  /\ GoOn
  /\ UNCHANGED <<file, next, canid_root, property, nData, timers>>

(* Mutant: a refused entry is tried again. *)
ConflictIsRetried ==
  /\ Adding /\ NodeOf # NoNode /\ NodeOf.id # adding.id
  /\ UNCHANGED vars

(* Mutant: the name goes over to the new entry. *)
ConflictTakesOver ==
  /\ Adding /\ NodeOf # NoNode /\ NodeOf.id # adding.id
  /\ property_root' = [property_root EXCEPT ![NameAdded] = [id |-> adding.id, slot |-> adding.i]]
  /\ GoOn
  /\ UNCHANGED <<file, next, canid_root, property, nData, support_property_list, timers>>

(* addProperty_dict of a name that another CAN ID has: it is refused, and   *)
(* its entry stays in the array.                                            *)
addConflict ==
  /\ Adding /\ NodeOf # NoNode /\ NodeOf.id # adding.id
  /\ GoOn
  /\ UNCHANGED <<file, next, dictionary>>

(* Mutant: the last slot is not moved. *)
MoveUpShort(slots, i, maxEntry) ==
  [k \in DOMAIN slots |-> IF i <= k /\ k + 1 < maxEntry THEN slots[k + 1] ELSE slots[k]]

(* memmove of the rest of the array over slot i. *)
MoveUp(slots, i, maxEntry) ==
  [k \in DOMAIN slots |-> IF i <= k /\ k < maxEntry THEN slots[k + 1] ELSE slots[k]]

Chained ==
  [Slots EXCEPT ![NodeOf.slot] = [member |-> @.member,
                                  next   |-> Append(@.next, Slots[adding.i].member)]]

(* Mutant: the loop goes on after the slot that was moved up. *)
ChainSkips ==
  /\ Adding /\ NodeOf # NoNode /\ NodeOf.id = adding.id
  /\ property' = [property EXCEPT ![adding.id] = MoveUp(Chained, adding.i, adding.maxEntry)]
  /\ adding' = [adding EXCEPT !.maxEntry = @ - 1, !.i = @ + 1]
  /\ UNCHANGED <<file, next, canid_root, nData, property_root, support_property_list, timers>>

(* Mutant: the rest of the array is moved up over the slot before. *)
ChainMovesTooMuch ==
  /\ Adding /\ NodeOf # NoNode /\ NodeOf.id = adding.id
  /\ property' = [property EXCEPT ![adding.id] = MoveUp(Chained, adding.i - 1, adding.maxEntry)]
  /\ adding' = [adding EXCEPT !.maxEntry = @ - 1]
  /\ UNCHANGED <<file, next, canid_root, nData, property_root, support_property_list, timers>>

(* addProperty_dict of a name of the same CAN ID: a copy is chained to the  *)
(* entry the node points to, and the rest of the array moves up one slot.   *)
addToChain ==
  /\ Adding /\ NodeOf # NoNode /\ NodeOf.id = adding.id
  /\ property' = [property EXCEPT ![adding.id] = MoveUp(Chained, adding.i, adding.maxEntry)]
  /\ adding' = [adding EXCEPT !.maxEntry = @ - 1]
  /\ UNCHANGED <<file, next, canid_root, nData, property_root, support_property_list, timers>>

(* The end of addCANID_dict: the array has the slots that are left.         *)
LoopEnds ==
  /\ adding # Idle /\ adding.i > adding.maxEntry
  /\ nData' = [nData EXCEPT ![adding.id] = adding.maxEntry]
  /\ adding' = Idle

(* Mutant: a CAN ID whose array has shrunk gets no timer. *)
TimerIfWhole ==
  /\ LoopEnds
  /\ timers' = IF file[canid_root[adding.id]].kind = "CAN_KIND_SEND"
                  /\ adding.maxEntry = nData[adding.id]
               THEN timers \cup {adding.id} ELSE timers
  /\ UNCHANGED <<file, next, canid_root, property, property_root, support_property_list>>

(* The end of addCANID_dict and of parse_caninfo: a CAN ID that is sent     *)
(* gets its timer, unless DATA is empty.  Making the timer does not fail.   *)
addSendTimer ==
  /\ LoopEnds
  /\ timers' = IF file[canid_root[adding.id]].kind = "CAN_KIND_SEND" /\ nData[adding.id] > 0
               THEN timers \cup {adding.id} ELSE timers
  /\ UNCHANGED <<file, next, canid_root, property, property_root, support_property_list>>

Loaded == adding = Idle /\ next \notin DOMAIN file

(* The file is loaded. *)
Done == Loaded /\ UNCHANGED vars

Next == parse_caninfo \/ addProperty \/ addConflict \/ addToChain \/ addSendTimer \/ Done

Spec == Init /\ [][Next]_vars

(* can_define_init is one call: it does not stop half way. *)
FairSpec == Spec /\ WF_vars(Next)

-----------------------------------------------------------------------------
(* The CAN IDs in the tree, and the slots of one that are in use. *)
Defined == {id \in CanId : canid_root[id] # 0}
InUse(id) == 1..(IF adding.id = id THEN adding.maxEntry ELSE nData[id])
Settled(id) == 1..(IF adding.id = id THEN adding.i - 1 ELSE nData[id])

(* The members a slot stands for, its own and those chained to it. *)
Chain(slot) == <<slot.member>> \o slot.next

(* Every variable has the type its declaration describes. *)
TypeOK ==
  /\ IsFile(file) /\ next \in 1..(Len(file) + 1)
  /\ canid_root \in [CanId -> 0..Len(file)]
  /\ DOMAIN property = CanId
  /\ \A id \in Defined :
       LET n == Len(file[canid_root[id]].data)
       IN  property[id] \in [1..n -> [member : 1..n, next : Seq(1..n)]]
  /\ nData \in [CanId -> Nat]
  /\ \A id \in Defined : InUse(id) \subseteq DOMAIN property[id]
  /\ property_root \in [Property -> {NoNode} \cup [id : CanId, slot : Nat \ {0}]]
  /\ support_property_list \in Seq(Property)
  /\ adding \in [id : CanId \cup {-1}, i : Nat, maxEntry : Nat]
  /\ adding # Idle => adding.id \in Defined /\ adding.i \in 1..(adding.maxEntry + 1)
  /\ timers \subseteq CanId

(* A node of property_root points into the array of its CAN ID: after all   *)
(* the moves of addCANID_dict that place is in use and holds an entry with  *)
(* the name of the node.                                                    *)
TreeIsRight ==
  \A p \in Property, id \in CanId : property_root[p].id = id =>
    /\ id \in Defined
    /\ \E s \in Settled(id) : property_root[p].slot = s /\ NameAt(id, property[id][s].member) = p

(* A frame gives a property one update and the verb list names only what    *)
(* the other verbs know: every slot parse_candata and _listup_properties    *)
(* come to has a name that getProperty_dict finds, and if its CAN ID owns   *)
(* the name, it is the slot found there.                                    *)
SlotIsKnown ==
  \A id \in Defined : \A s \in Settled(id), p \in Property :
    NameAt(id, property[id][s].member) = p =>
      property_root[p] # NoNode /\ (property_root[p].id = id => property_root[p].slot = s)

(* However the array shrinks, no entry of the definition is lost or doubled: *)
(* each is reached from one slot, and that has its name.                     *)
NothingIsLost ==
  \A id \in Defined : \A k \in DOMAIN file[canid_root[id]].data :
    \E s \in InUse(id) :
      /\ k \in Range(Chain(property[id][s]))
      /\ \A t \in InUse(id) : k \in Range(Chain(property[id][t])) => t = s
      /\ NameAt(id, k) = NameAt(id, property[id][s].member)

(* The definitions the loader takes: of those with one CAN ID, the first    *)
(* with an array.                                                           *)
Taken == {k \in DOMAIN file :
            /\ file[k].dataIsArray
            /\ \A j \in 1..(k - 1) :
                 file[j].dataIsArray => CanIdOf(file[j].key) # CanIdOf(file[k].key)}

MembersOf(k, p) == {i \in DOMAIN file[k].data : file[k].data[i].name = p}

(* The dictionary is what the file says, and nothing the order of the moves  *)
(* or of the searches makes of it: the first definition that names p gives   *)
(* it its CAN ID and all its entries, in the order of the file.              *)
FirstDefinitionWins ==
  Loaded =>
    \A p \in Property :
      LET naming == {k \in Taken : MembersOf(k, p) # {}}
          node   == property_root[p]
      IN  IF naming = {} THEN node = NoNode
          ELSE LET k     == Min(naming)
                   chain == Chain(property[node.id][node.slot])
               IN  /\ node.id = CanIdOf(file[k].key) /\ canid_root[node.id] = k
                   /\ Range(chain) = MembersOf(k, p)
                   /\ \A i, j \in DOMAIN chain : i < j => chain[i] < chain[j]

(* subscribe to "*" asks for every property there is, each once, as long as *)
(* there are no more than the list holds.                                   *)
StarIsEverything ==
  LET names  == {p \in Property : property_root[p] # NoNode}
      listed == support_property_list
  IN  /\ Range(listed) \subseteq names
      /\ Len(listed) = Cardinality(Range(listed))
      /\ Len(listed) = Min({SUPPORT_PROPERTY_LIMIT, Cardinality(names)})

(* The verb set on a property of a CAN ID that is sent finds a timer to     *)
(* restart, and no other CAN ID has one, when the system has timers enough. *)
SentHasTimer ==
  LET Sent(id) == file[canid_root[id]].kind = "CAN_KIND_SEND"
  IN  /\ \A id \in timers : id \in Defined /\ Sent(id)
      /\ \A p \in Property : property_root[p] # NoNode =>
           LET id == property_root[p].id
           IN  adding.id # id /\ Sent(id) => id \in timers

(* The entry of the dictionary as _updatePropertyValue takes it. *)
AsEntry(e) == [type |-> e.type, conv |-> e.conv, mask |-> 2^e.field.len - 1]

(* What the rest of the binder takes for granted of every property, and     *)
(* Subscription and CanFrame with it, is so whatever the file says: the     *)
(* table fits the type and the field is one a frame may have.               *)
Usable ==
  \A id \in Defined : \A k \in DOMAIN file[canid_root[id]].data :
    LET e == Entry(id, k)
    IN  IsEntry(AsEntry(e)) /\ e.field \in Fields

(* The loader comes to the end of every file. *)
LoadEnds == <>Loaded

(* The file and the dictionary as DefinitionFile has them.  A definition is *)
(* its CAN ID and its names.                                                *)
Meant ==
  [k \in DOMAIN file |->
     [id |-> CanIdOf(file[k].key), isSent |-> file[k].kind = "CAN_KIND_SEND",
      isArray |-> file[k].dataIsArray,
      names |-> [m \in DOMAIN file[k].data |-> file[k].data[m].name]]]

(* The loop, which stays at a slot when the array shrinks, is at the member *)
(* that is as far from the end of DATA as the slot from that of the array.  *)
At ==
  IF adding = Idle THEN {}
  ELSE LET k == canid_root[adding.id]
       IN  {[def |-> k, member |-> adding.i + (Len(file[k].data) - adding.maxEntry)]}

(* A name belongs to the definition its node leads to, with the chain there. *)
Owner ==
  [p \in Property |->
     IF property_root[p] = NoNode THEN 0 ELSE canid_root[property_root[p].id]]

Entries ==
  [p \in Property |->
     IF property_root[p] = NoNode THEN << >>
     ELSE Chain(property[property_root[p].id][property_root[p].slot])]

(* The loader implements its abstract specification: whatever it moves, it  *)
(* comes to every member of the file once and in order, and what it makes   *)
(* of a member depends on the names before it alone.                        *)
Meaning == INSTANCE DefinitionFile WITH
  Limit <- SUPPORT_PROPERTY_LIMIT, file <- Meant, at <- At, defined <- Defined,
  owner <- Owner, entries <- Entries, list <- support_property_list, timed <- timers

LoadsWhatIsMeant == Meaning!Spec
=============================================================================
