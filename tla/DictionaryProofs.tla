-------------------------- MODULE DictionaryProofs --------------------------
(***************************************************************************)
(* The loader keeps the tree of names and the arrays of the CAN IDs in     *)
(* step while it moves the arrays' slots, for every definition file.       *)
(***************************************************************************)
EXTENDS CanDictionary, PropertyLemmas

(* The inductive invariant. *)
LoaderInvariant == TypeOK /\ TreeIsRight /\ SlotIsKnown

(* The names of the entries are names of the file. *)
LEMMA NamesAreProperties ==
  ASSUME TypeOK, NEW id \in Defined, NEW k \in 1..Len(file[canid_root[id]].data)
  PROVE  NameAt(id, k) \in Property
<1>1. canid_root[id] \in DOMAIN file
  BY DEF TypeOK, Defined, IsFile
<1>2. IsDefinition(file[canid_root[id]])
  BY <1>1 DEF TypeOK, IsFile
<1> QED
  BY <1>2 DEF IsDefinition, IsMember, NameAt

(* The slot the loop is at, and its name. *)
LEMMA SlotAdded ==
  ASSUME TypeOK, Adding
  PROVE  LET n == Len(file[canid_root[adding.id]].data)
         IN  /\ adding.id \in CanId /\ adding.id \in Defined /\ n \in Nat
             /\ Slots \in [1..n -> [member : 1..n, next : Seq(1..n)]]
             /\ adding.i \in 1..adding.maxEntry /\ adding.i \in 1..n /\ adding.maxEntry <= n
             /\ NameAdded \in Property
             /\ NodeOf \in {NoNode} \cup [id : CanId, slot : Nat \ {0}]
<1> DEFINE n == Len(file[canid_root[adding.id]].data)
<1>1. adding.id \in Defined /\ adding.i \in Nat /\ adding.maxEntry \in Nat
  BY DEF Adding, TypeOK
<1>2. adding.id \in CanId
  BY <1>1 DEF Defined
<1>3. adding.i \in 1..adding.maxEntry
  BY <1>1 DEF Adding, TypeOK
<1>4. n \in Nat
  <2>1. canid_root[adding.id] \in DOMAIN file
    BY <1>1 DEF TypeOK, Defined, IsFile
  <2> QED
    BY <2>1 DEF TypeOK, IsFile, IsDefinition
<1>5. Slots \in [1..n -> [member : 1..n, next : Seq(1..n)]]
  BY <1>1 DEF TypeOK, Slots
<1>6. 1..adding.maxEntry \subseteq 1..n
  BY <1>1, <1>5 DEF TypeOK, InUse, Slots
<1>7. adding.i \in 1..n /\ adding.maxEntry <= n
  BY <1>1, <1>3, <1>4, <1>6
<1>8. NameAdded \in Property
  BY <1>1, <1>5, <1>7, NamesAreProperties DEF NameAdded
<1> QED
  BY <1>1, <1>2, <1>3, <1>4, <1>5, <1>7, <1>8 DEF NodeOf, TypeOK

(* The loader starts with an empty dictionary. *)
LEMMA LoaderStart == Init => LoaderInvariant
<1> SUFFICES ASSUME Init PROVE LoaderInvariant
  OBVIOUS
<1>1. Defined = {}
  BY DEF Init, Defined
<1>2. IsFile(file)
  BY LoaderAssumption DEF Init
<1>3. TypeOK
  <2>1. Len(file) \in Nat
    BY <1>2 DEF IsFile
  <2> QED
    BY <1>1, <1>2, <2>1, LoaderAssumption DEF Init, TypeOK, CanId, Idle
<1> QED
  <2>1. \A p \in Property, id \in CanId : property_root[p].id # id
    BY LoaderAssumption DEF Init, NoNode, CanId
  <2> QED
    BY <1>1, <1>3, <2>1 DEF LoaderInvariant, TreeIsRight, SlotIsKnown

(* The CAN ID of a key is one of a standard frame. *)
LEMMA CanIdIsStandard == ASSUME NEW key \in Int PROVE CanIdOf(key) \in CanId
<1> DEFINE x == key % M16
           m == CAN_SFF_MASK + 1
<1>1. x \in Int
  <2>1. M16 \in Nat /\ 1 < M16
    BY WidthAssumption
  <2> QED BY <2>1, ModRange
<1>2. m \in Nat /\ 1 < m /\ CAN_SFF_MASK \in Nat
  BY LoaderAssumption
<1>3. x % m \in 0..(m - 1)
  <2> HIDE DEF x, m
  <2> QED BY <1>1, <1>2, ModRange
<1>4. m - 1 = CAN_SFF_MASK
  BY <1>2
<1> QED
  BY <1>3, <1>4 DEF CanIdOf, CanId

(* parse_canid_def comes to definition d, of CAN ID id and with n elements. *)
ComesTo(d, id, n) ==
  /\ d = file[next] /\ id = CanIdOf(d.key) /\ n = Len(d.data)
  /\ IsDefinition(d) /\ id \in CanId /\ n \in Nat
  /\ adding = Idle /\ next \in 1..Len(file) /\ DOMAIN file = 1..Len(file)
  /\ Len(file) \in Nat /\ file' = file /\ next' = next + 1
  /\ property_root' = property_root /\ support_property_list' = support_property_list
  /\ timers' = timers

(* It is dropped. *)
Drops(d, id) ==
  /\ id \in Defined \/ ~ d.dataIsArray
  /\ canid_root' = canid_root /\ property' = property /\ nData' = nData /\ adding' = adding
  /\ Defined' = Defined
  /\ \A j \in Defined : InUse(j)' = InUse(j) /\ Settled(j)' = Settled(j)

(* It is the first of its CAN ID with an array. *)
Takes(d, id, n) ==
  /\ d.dataIsArray /\ id \notin Defined /\ Defined' = Defined \cup {id}
  /\ canid_root' = [canid_root EXCEPT ![id] = next] /\ nData' = [nData EXCEPT ![id] = n]
  /\ canid_root'[id] = next /\ nData'[id] = n
  /\ DOMAIN property' = DOMAIN property
  /\ property'[id] = [k \in 1..n |-> [member |-> k, next |-> << >>]]
  /\ adding' = [id |-> id, i |-> 1, maxEntry |-> n]
  /\ InUse(id)' = 1..n /\ Settled(id)' = {}
  /\ \A j \in Defined :
       /\ j # id /\ canid_root'[j] = canid_root[j] /\ property'[j] = property[j]
       /\ nData'[j] = nData[j] /\ InUse(j)' = InUse(j)
       /\ Settled(j)' = Settled(j) /\ Settled(j) = InUse(j)

(* parse_caninfo does one or the other. *)
LEMMA ParseDropsOrTakes ==
  ASSUME TypeOK, parse_caninfo
  PROVE  \E d, id, n : ComesTo(d, id, n) /\ (Drops(d, id) \/ Takes(d, id, n))
<1> PICK d : d = file[next]
  OBVIOUS
<1> PICK id : id = CanIdOf(d.key)
  OBVIOUS
<1> PICK n : n = Len(d.data)
  OBVIOUS
<1>1. adding = Idle /\ next \in DOMAIN file
  BY DEF parse_caninfo
<1>2. /\ IsDefinition(d) /\ id \in CanId /\ n \in Nat
      /\ next \in 1..Len(file) /\ Len(file) \in Nat /\ DOMAIN file = 1..Len(file)
  <2>1. /\ IsDefinition(d) /\ next \in 1..Len(file) /\ Len(file) \in Nat
        /\ DOMAIN file = 1..Len(file)
    BY <1>1 DEF TypeOK, IsFile
  <2> QED
    BY <2>1, CanIdIsStandard DEF IsDefinition
<1>3. file' = file /\ next' = next + 1
  BY DEF parse_caninfo
<1>c. ComesTo(d, id, n)
  <2>1. /\ property_root' = property_root /\ support_property_list' = support_property_list
        /\ timers' = timers
    BY DEF parse_caninfo, dictionary
  <2> QED
    BY <1>1, <1>2, <1>3, <2>1 DEF ComesTo
<1>4. CASE canid_root[id] # 0 \/ ~ d.dataIsArray
  <2>1. /\ canid_root' = canid_root /\ property' = property /\ nData' = nData
        /\ property_root' = property_root /\ adding' = adding
        /\ support_property_list' = support_property_list /\ timers' = timers
    BY <1>4 DEF parse_caninfo, dictionary
  <2>2. id \in Defined \/ ~ d.dataIsArray
    BY <1>2, <1>4 DEF Defined
  <2>3. Defined' = Defined /\ \A j \in Defined : InUse(j)' = InUse(j) /\ Settled(j)' = Settled(j)
    BY <2>1 DEF Defined, InUse, Settled
  <2>4. Drops(d, id)
    BY <2>1, <2>2, <2>3 DEF Drops
  <2> QED
    BY <1>c, <2>4
<1>5. CASE canid_root[id] = 0 /\ d.dataIsArray
  <2>1. /\ canid_root' = [canid_root EXCEPT ![id] = next]
        /\ property' = [property EXCEPT ![id] = [k \in 1..n |-> [member |-> k, next |-> << >>]]]
        /\ nData' = [nData EXCEPT ![id] = n]
        /\ adding' = [id |-> id, i |-> 1, maxEntry |-> n]
        /\ property_root' = property_root
        /\ support_property_list' = support_property_list /\ timers' = timers
    BY <1>5 DEF parse_caninfo
  <2>2. id \notin Defined /\ Defined' = Defined \cup {id}
    BY <1>2, <1>5, <2>1 DEF Defined, TypeOK
  <2>3. /\ canid_root'[id] = next /\ nData'[id] = n
        /\ property'[id] = [k \in 1..n |-> [member |-> k, next |-> << >>]]
    BY <1>2, <2>1 DEF TypeOK
  <2>4. ASSUME NEW j \in Defined
        PROVE  /\ j # id /\ canid_root'[j] = canid_root[j] /\ property'[j] = property[j]
               /\ nData'[j] = nData[j] /\ InUse(j)' = InUse(j) /\ Settled(j)' = Settled(j)
               /\ Settled(j) = InUse(j)
    <3>1. j # id /\ j \in CanId
      BY <2>2 DEF Defined
    <3>2. adding.id # j
      BY <1>1, <3>1 DEF Idle, CanId
    <3> QED
      BY <2>1, <3>1, <3>2 DEF TypeOK, InUse, Settled
  <2>5. InUse(id)' = 1..n /\ Settled(id)' = {}
    <3>1. adding'.id = id /\ adding'.i = 1 /\ adding'.maxEntry = n
      BY <2>1
    <3>2. InUse(id)' = 1..n
      BY <3>1 DEF InUse
    <3>3. Settled(id)' = 1..0
      BY <3>1 DEF Settled
    <3> QED
      BY <3>2, <3>3
  <2>6. Takes(d, id, n)
    BY <1>5, <2>1, <2>2, <2>3, <2>4, <2>5 DEF Takes
  <2> QED
    BY <1>c, <2>6
<1> QED
  BY <1>4, <1>5

(* A new definition has slots of its own; the nodes there are stay right. *)
LEMMA ParseKeeps == LoaderInvariant /\ parse_caninfo => LoaderInvariant'
<1> SUFFICES ASSUME LoaderInvariant, parse_caninfo PROVE LoaderInvariant'
  OBVIOUS
<1>t. TypeOK
  BY DEF LoaderInvariant
<1>r. TreeIsRight
  BY DEF LoaderInvariant
<1>k. SlotIsKnown
  BY DEF LoaderInvariant
<1>1. PICK d, id, n : ComesTo(d, id, n) /\ (Drops(d, id) \/ Takes(d, id, n))
  BY <1>t, ParseDropsOrTakes
<1>2. /\ d = file[next] /\ n = Len(d.data) /\ id \in CanId /\ n \in Nat
      /\ next \in 1..Len(file) /\ Len(file) \in Nat
  BY <1>1 DEF ComesTo
<1>3. /\ file' = file /\ next' = next + 1 /\ next' \in 1..(Len(file) + 1)
      /\ property_root' = property_root /\ support_property_list' = support_property_list
      /\ timers' = timers
  BY <1>1, <1>2 DEF ComesTo
<1>4. CASE Drops(d, id)
  <2>1. /\ canid_root' = canid_root /\ property' = property /\ nData' = nData
        /\ adding' = adding
    BY <1>4 DEF Drops
  <2>2. TypeOK'
    BY <1>t, <1>3, <2>1 DEF TypeOK, Defined, InUse
  <2>3. TreeIsRight'
    BY <1>r, <1>3, <2>1 DEF TreeIsRight, Defined, Settled, NameAt
  <2>4. SlotIsKnown'
    BY <1>k, <1>3, <2>1 DEF SlotIsKnown, Defined, Settled, NameAt
  <2> QED
    BY <2>2, <2>3, <2>4 DEF LoaderInvariant
<1>5. CASE Takes(d, id, n)
  <2>1. /\ Defined' = Defined \cup {id} /\ canid_root'[id] = next
        /\ property'[id] = [k \in 1..n |-> [member |-> k, next |-> << >>]]
        /\ adding' = [id |-> id, i |-> 1, maxEntry |-> n]
        /\ InUse(id)' = 1..n /\ Settled(id)' = {}
    BY <1>5 DEF Takes
  <2>2. ASSUME NEW j \in Defined
        PROVE  /\ canid_root'[j] = canid_root[j] /\ property'[j] = property[j]
               /\ InUse(j)' = InUse(j) /\ Settled(j)' = Settled(j)
    BY <1>5 DEF Takes
  <2>3. TypeOK'
    <3>1. canid_root' \in [CanId -> 0..Len(file)] /\ DOMAIN property' = CanId
          /\ nData' \in [CanId -> Nat]
      BY <1>t, <1>1, <1>2, <1>5 DEF TypeOK, Takes
    <3>2. ASSUME NEW j \in Defined'
          PROVE  LET m == Len(file[canid_root'[j]].data)
                 IN  /\ property'[j] \in [1..m -> [member : 1..m, next : Seq(1..m)]]
                     /\ InUse(j)' \subseteq DOMAIN property'[j]
      <4>1. CASE j = id
        <5>1. Len(file[canid_root'[j]].data) = n
          BY <1>2, <2>1, <4>1
        <5>2. << >> \in Seq(1..n)
          OBVIOUS
        <5>3. \A k \in 1..n : [member |-> k, next |-> << >>] \in [member : 1..n, next : Seq(1..n)]
          BY <5>2
        <5>4. property'[id] \in [1..n -> [member : 1..n, next : Seq(1..n)]]
          BY <2>1, <5>3
        <5>5. DOMAIN property'[id] = 1..n
          BY <2>1
        <5> QED BY <2>1, <4>1, <5>1, <5>4, <5>5
      <4>2. CASE j \in Defined
        BY <1>t, <2>2, <4>2 DEF TypeOK
      <4> QED BY <2>1, <4>1, <4>2
    <3>3. /\ adding' \in [id : CanId \cup {-1}, i : Nat, maxEntry : Nat]
          /\ adding'.id \in Defined' /\ adding'.i \in 1..(adding'.maxEntry + 1)
      BY <1>2, <2>1
    <3>4. IsFile(file') /\ next' \in 1..(Len(file') + 1)
      BY <1>t, <1>3 DEF TypeOK
    <3>5. /\ property_root' \in [Property -> {NoNode} \cup [id : CanId, slot : Nat \ {0}]]
          /\ support_property_list' \in Seq(Property) /\ timers' \subseteq CanId
      BY <1>t, <1>3 DEF TypeOK
    <3> QED
      BY <1>3, <3>1, <3>2, <3>3, <3>4, <3>5 DEF TypeOK
  <2>4. ASSUME NEW j \in Defined, NEW s
        PROVE  NameAt(j, property[j][s].member)' = NameAt(j, property[j][s].member)
    BY <1>3, <2>2 DEF NameAt
  <2>5. TreeIsRight'
    <3> SUFFICES ASSUME NEW p \in Property, NEW j \in CanId, property_root'[p].id = j
                 PROVE  /\ j \in Defined'
                        /\ \E s \in Settled(j)' : property_root'[p].slot = s
                                                 /\ NameAt(j, property[j][s].member)' = p
      BY DEF TreeIsRight
    <3>1. PICK s \in Settled(j) : property_root[p].slot = s /\ NameAt(j, property[j][s].member) = p
      BY <1>r, <1>3 DEF TreeIsRight
    <3>2. j \in Defined
      BY <1>r, <1>3 DEF TreeIsRight
    <3>3. s \in Settled(j)' /\ property_root'[p].slot = s
      BY <1>3, <2>2, <3>1, <3>2
    <3>4. NameAt(j, property[j][s].member)' = p
      BY <2>4, <3>1, <3>2
    <3> QED BY <2>1, <3>2, <3>3, <3>4
  <2>6. SlotIsKnown'
    <3> SUFFICES ASSUME NEW j \in Defined', NEW s \in Settled(j)', NEW p \in Property,
                        NameAt(j, property[j][s].member)' = p
                 PROVE  property_root'[p] # NoNode
                        /\ (property_root'[p].id = j => property_root'[p].slot = s)
      BY DEF SlotIsKnown
    <3>1. j \in Defined /\ s \in Settled(j)
      BY <2>1, <2>2
    <3> QED
      BY <1>k, <1>3, <2>4, <3>1 DEF SlotIsKnown
  <2> QED
    BY <2>3, <2>5, <2>6 DEF LoaderInvariant
<1> QED
  BY <1>1, <1>4, <1>5

(* The loop of addCANID_dict goes on: one slot more is settled. *)
LEMMA GoOnSettles ==
  ASSUME TypeOK, Adding, GoOn, UNCHANGED <<file, next, canid_root, nData>>
  PROVE  /\ Defined' = Defined
         /\ \A j \in CanId : InUse(j)' = InUse(j)
         /\ \A j \in CanId : j # adding.id => Settled(j)' = Settled(j)
         /\ Settled(adding.id) = 1..(adding.i - 1)
         /\ \A j \in CanId : j = adding.id => Settled(j)' = Settled(j) \cup {adding.i}
         /\ adding' \in [id : CanId \cup {-1}, i : Nat, maxEntry : Nat]
         /\ adding' # Idle => adding'.id \in Defined /\ adding'.i \in 1..(adding'.maxEntry + 1)
<1>1. /\ adding \in [id : CanId \cup {-1}, i : Nat, maxEntry : Nat]
      /\ adding.i \in 1..adding.maxEntry /\ adding.id \in Defined
  BY DEF TypeOK, Adding
<1>2. /\ adding'.id = adding.id /\ adding'.i = adding.i + 1 /\ adding'.maxEntry = adding.maxEntry
      /\ adding' \in [id : CanId \cup {-1}, i : Nat, maxEntry : Nat]
  BY <1>1 DEF GoOn
<1>3. Defined' = Defined
  BY DEF Defined
<1>4. \A j \in CanId : InUse(j)' = InUse(j)
  BY <1>2 DEF InUse
<1>5. \A j \in CanId : j # adding.id => Settled(j)' = Settled(j)
  BY <1>2 DEF Settled
<1>6. Settled(adding.id) = 1..(adding.i - 1)
  BY DEF Settled
<1>7. \A j \in CanId : j = adding.id => Settled(j)' = 1..adding.i /\ Settled(j) = 1..(adding.i - 1)
  BY <1>1, <1>2 DEF Settled
<1>8. 1..adding.i = 1..(adding.i - 1) \cup {adding.i}
  BY <1>1
<1> QED
  BY <1>1, <1>2, <1>3, <1>4, <1>5, <1>6, <1>7, <1>8

(* A new name gets a node that points to its slot. *)
LEMMA AddPropertyKeeps == LoaderInvariant /\ addProperty => LoaderInvariant'
<1> SUFFICES ASSUME LoaderInvariant, addProperty PROVE LoaderInvariant'
  OBVIOUS
<1>t. TypeOK
  BY DEF LoaderInvariant
<1>r. TreeIsRight
  BY DEF LoaderInvariant
<1>k. SlotIsKnown
  BY DEF LoaderInvariant
<1> PICK id : id = adding.id
  OBVIOUS
<1> PICK i : i = adding.i
  OBVIOUS
<1> PICK q : q = NameAdded
  OBVIOUS
<1>1. /\ Adding /\ GoOn /\ property_root[q] = NoNode
      /\ property_root' = [property_root EXCEPT ![q] = [id |-> id, slot |-> i]]
      /\ support_property_list' \in {support_property_list, Append(support_property_list, q)}
      /\ UNCHANGED <<file, next, canid_root, property, nData, timers>>
  BY DEF addProperty, NodeOf
<1>2. /\ id \in CanId /\ id \in Defined /\ q \in Property /\ i \in Nat \ {0}
      /\ q = NameAt(id, property[id][i].member)
  BY <1>t, <1>1, SlotAdded DEF NameAdded, Slots
<1>3. /\ Defined' = Defined
      /\ \A j \in CanId : InUse(j)' = InUse(j)
      /\ \A j \in CanId : j # id => Settled(j)' = Settled(j)
      /\ Settled(id)' = Settled(id) \cup {i}
      /\ adding' \in [id : CanId \cup {-1}, i : Nat, maxEntry : Nat]
      /\ adding' # Idle => adding'.id \in Defined /\ adding'.i \in 1..(adding'.maxEntry + 1)
  BY <1>t, <1>1, <1>2, GoOnSettles
<1>4. property_root'[q] = [id |-> id, slot |-> i]
      /\ \A p \in Property : p # q => property_root'[p] = property_root[p]
  BY <1>t, <1>1, <1>2 DEF TypeOK
<1>5. TypeOK'
  <2>1. property_root' \in [Property -> {NoNode} \cup [id : CanId, slot : Nat \ {0}]]
    BY <1>t, <1>1, <1>2 DEF TypeOK
  <2>2. support_property_list' \in Seq(Property)
    <3>1. support_property_list \in Seq(Property)
      BY <1>t DEF TypeOK
    <3>2. Append(support_property_list, q) \in Seq(Property)
      BY <1>2, <3>1
    <3> QED
      BY <1>1, <3>1, <3>2
  <2>3. \A j \in Defined :
          LET n == Len(file[canid_root[j]].data)
          IN  property[j] \in [1..n -> [member : 1..n, next : Seq(1..n)]]
              /\ InUse(j)' \subseteq DOMAIN property[j]
    BY <1>t, <1>3 DEF TypeOK, Defined
  <2> QED
    BY <1>t, <1>1, <1>3, <2>1, <2>2, <2>3 DEF TypeOK
<1>6. TreeIsRight'
  <2> SUFFICES ASSUME NEW p \in Property, NEW j \in CanId, property_root'[p].id = j
               PROVE  /\ j \in Defined'
                      /\ \E s \in Settled(j)' : property_root'[p].slot = s
                                               /\ NameAt(j, property[j][s].member)' = p
    BY DEF TreeIsRight
  <2>1. CASE p = q
    <3>1. j = id /\ property_root'[p].slot = i /\ i \in Settled(j)'
      BY <1>3, <1>4, <2>1
    <3>2. NameAt(j, property[j][i].member)' = p
      BY <1>1, <1>2, <2>1, <3>1 DEF NameAt
    <3> QED
      BY <1>2, <1>3, <3>1, <3>2
  <2>2. CASE p # q
    <3>1. j \in Defined
          /\ \E s \in Settled(j) : property_root[p].slot = s /\ NameAt(j, property[j][s].member) = p
      BY <1>r, <1>4, <2>2 DEF TreeIsRight
    <3>2. PICK s \in Settled(j) : property_root[p].slot = s /\ NameAt(j, property[j][s].member) = p
      BY <3>1
    <3>3. s \in Settled(j)'
      BY <1>3
    <3>4. NameAt(j, property[j][s].member)' = p
      BY <1>1, <3>2 DEF NameAt
    <3> QED
      BY <1>3, <1>4, <2>2, <3>1, <3>2, <3>3, <3>4
  <2> QED
    BY <2>1, <2>2
<1>7. SlotIsKnown'
  <2> SUFFICES ASSUME NEW j \in Defined', NEW s \in Settled(j)', NEW p \in Property,
                      NameAt(j, property[j][s].member)' = p
               PROVE  property_root'[p] # NoNode
                      /\ (property_root'[p].id = j => property_root'[p].slot = s)
    BY DEF SlotIsKnown
  <2>1. NameAt(j, property[j][s].member) = p /\ j \in Defined /\ j \in CanId
    BY <1>1, <1>3 DEF NameAt, Defined
  <2>2. CASE s \in Settled(j)
    <3>1. property_root[p] # NoNode /\ (property_root[p].id = j => property_root[p].slot = s)
      BY <1>k, <2>1, <2>2 DEF SlotIsKnown
    <3> QED
      BY <1>1, <1>4, <3>1
  <2>3. CASE s \notin Settled(j)
    <3>1. j = id /\ s = i
      BY <1>3, <2>1, <2>3
    <3>2. p = q
      BY <1>2, <2>1, <3>1
    <3>3. property_root'[p].id = id /\ property_root'[p].slot = i
      BY <1>4, <3>2
    <3>4. NoNode.slot # i
      BY <1>2 DEF NoNode
    <3> QED
      BY <3>1, <3>3, <3>4
  <2> QED
    BY <2>2, <2>3
<1> QED
  BY <1>5, <1>6, <1>7 DEF LoaderInvariant

(* A refused entry is one whose name has a node, of another CAN ID. *)
LEMMA AddConflictKeeps == LoaderInvariant /\ addConflict => LoaderInvariant'
<1> SUFFICES ASSUME LoaderInvariant, addConflict PROVE LoaderInvariant'
  OBVIOUS
<1>t. TypeOK
  BY DEF LoaderInvariant
<1>r. TreeIsRight
  BY DEF LoaderInvariant
<1>k. SlotIsKnown
  BY DEF LoaderInvariant
<1> PICK id : id = adding.id
  OBVIOUS
<1> PICK i : i = adding.i
  OBVIOUS
<1> PICK q : q = NameAdded
  OBVIOUS
<1>1. /\ Adding /\ GoOn /\ property_root[q] # NoNode /\ property_root[q].id # id
      /\ file' = file /\ next' = next /\ canid_root' = canid_root /\ property' = property
      /\ nData' = nData /\ property_root' = property_root
      /\ support_property_list' = support_property_list /\ timers' = timers
  BY DEF addConflict, NodeOf, dictionary
<1>2. /\ id \in CanId /\ id \in Defined /\ q \in Property
      /\ q = NameAt(id, property[id][i].member)
  BY <1>t, <1>1, SlotAdded DEF NameAdded, Slots
<1>3. /\ Defined' = Defined
      /\ \A j \in CanId : InUse(j)' = InUse(j)
      /\ \A j \in CanId : j # id => Settled(j)' = Settled(j)
      /\ Settled(id)' = Settled(id) \cup {i}
      /\ adding' \in [id : CanId \cup {-1}, i : Nat, maxEntry : Nat]
      /\ adding' # Idle => adding'.id \in Defined /\ adding'.i \in 1..(adding'.maxEntry + 1)
  BY <1>t, <1>1, <1>2, GoOnSettles
<1>5. TypeOK'
  <2>3. \A j \in Defined :
          LET n == Len(file[canid_root[j]].data)
          IN  property[j] \in [1..n -> [member : 1..n, next : Seq(1..n)]]
              /\ InUse(j)' \subseteq DOMAIN property[j]
    BY <1>t, <1>3 DEF TypeOK, Defined
  <2> QED
    BY <1>t, <1>1, <1>3, <2>3 DEF TypeOK
<1>6. TreeIsRight'
  <2>1. \A j \in CanId : Settled(j) \subseteq Settled(j)'
    BY <1>3
  <2> QED
    BY <1>r, <1>1, <1>3, <2>1 DEF TreeIsRight, NameAt
<1>7. SlotIsKnown'
  <2> SUFFICES ASSUME NEW j \in Defined', NEW s \in Settled(j)', NEW p \in Property,
                      NameAt(j, property[j][s].member)' = p
               PROVE  property_root'[p] # NoNode
                      /\ (property_root'[p].id = j => property_root'[p].slot = s)
    BY DEF SlotIsKnown
  <2>1. NameAt(j, property[j][s].member) = p /\ j \in Defined /\ j \in CanId
    BY <1>1, <1>3 DEF NameAt, Defined
  <2>2. CASE s \in Settled(j)
    <3>1. property_root[p] # NoNode /\ (property_root[p].id = j => property_root[p].slot = s)
      BY <1>k, <2>1, <2>2 DEF SlotIsKnown
    <3> QED
      BY <1>1, <3>1
  <2>3. CASE s \notin Settled(j)
    <3>1. j = id /\ s = i
      BY <1>3, <2>1, <2>3
    <3> QED
      BY <1>1, <1>2, <2>1, <3>1
  <2> QED
    BY <2>2, <2>3
<1> QED
  BY <1>5, <1>6, <1>7 DEF LoaderInvariant

(* A sequence that is made longer by an element of a set stays one over it. *)
LEMMA AppendKeeps ==
  ASSUME NEW S, NEW sq \in Seq(S), NEW x \in S PROVE Append(sq, x) \in Seq(S)
  OBVIOUS

Slot(n) == [member : 1..n, next : Seq(1..n)]

(* What addToChain makes of an array: the element at i is chained to slot   *)
(* t, and the slots after i move up by one.                                 *)
MovedUp(n, max, i, t, old, new) ==
  /\ max \in 1..n /\ i \in 1..max /\ t \in 1..(i - 1)
  /\ old \in [1..n -> Slot(n)] /\ new \in [1..n -> Slot(n)]
  /\ new[t] = [member |-> old[t].member, next |-> Append(old[t].next, old[i].member)]
  /\ \A k \in 1..(i - 1) : k # t => new[k] = old[k]
  /\ \A k \in i..(max - 1) : new[k] = old[k + 1]

(* What is left are slots, and those before i keep their members. *)
MembersKept(n, i, old, new) ==
  /\ new \in [1..n -> [member : 1..n, next : Seq(1..n)]]
  /\ \A k \in 1..(i - 1) : new[k].member = old[k].member

(* MovedUp leaves it so. *)
LEMMA MovedUpKeeps ==
  ASSUME NEW n \in Nat, NEW max, NEW i, NEW t, NEW old, NEW new,
         MovedUp(n, max, i, t, old, new)
  PROVE  MembersKept(n, i, old, new)
<1>1. new \in [1..n -> [member : 1..n, next : Seq(1..n)]]
  BY DEF MovedUp, Slot
<1>2. new[t].member = old[t].member /\ \A k \in 1..(i - 1) : k # t => new[k] = old[k]
  BY DEF MovedUp
<1> QED
  BY <1>1, <1>2 DEF MembersKept

(* addToChain moves the array up: the node points to a slot before the one  *)
(* the loop is at, of the same name.                                        *)
LEMMA ChainMovesUp ==
  ASSUME LoaderInvariant, addToChain
  PROVE  \E n, t, new :
           /\ MovedUp(n, adding.maxEntry, adding.i, t, Slots, new) /\ new = property'[adding.id]
           /\ n = Len(file[canid_root[adding.id]].data) /\ n \in Nat
           /\ NameAt(adding.id, Slots[t].member) = NameAdded
<1> PICK id : id = adding.id
  OBVIOUS
<1> PICK i : i = adding.i
  OBVIOUS
<1> PICK max : max = adding.maxEntry
  OBVIOUS
<1> PICK n : n = Len(file[canid_root[id]].data)
  OBVIOUS
<1>1. /\ Adding /\ NodeOf.id = id
      /\ property' = [property EXCEPT ![id] = MoveUp(Chained, i, max)]
  BY DEF addToChain
<1>t. TypeOK
  BY DEF LoaderInvariant
<1>2. /\ id \in CanId /\ id \in Defined /\ n \in Nat /\ max \in Nat
      /\ Slots \in [1..n -> [member : 1..n, next : Seq(1..n)]]
      /\ i \in 1..max /\ i \in 1..n /\ max <= n
      /\ NameAdded \in Property
  BY <1>t, <1>1, SlotAdded DEF TypeOK
<1>3. PICK t : t = NodeOf.slot /\ t \in 1..(i - 1) /\ NameAt(id, Slots[t].member) = NameAdded
  <2>1. NodeOf.slot \in Settled(id) /\ NameAt(id, Slots[NodeOf.slot].member) = NameAdded
    BY <1>1, <1>2 DEF LoaderInvariant, TreeIsRight, NodeOf, Slots
  <2> QED
    BY <2>1 DEF Settled
<1>4. PICK old : old = Slots /\ old \in [1..n -> Slot(n)]
  BY <1>2 DEF Slot
<1>5. PICK chained : /\ chained = Chained
                     /\ chained \in [1..n -> Slot(n)]
                     /\ chained[t] = [member |-> old[t].member,
                                      next   |-> Append(old[t].next, old[i].member)]
                     /\ \A k \in 1..n : k # t => chained[k] = old[k]
  <2>1. t \in 1..n
    BY <1>2, <1>3
  <2>2. PICK sq : sq = old[t].next /\ sq \in Seq(1..n)
    BY <1>4, <2>1 DEF Slot
  <2>3. PICK own : own = old[t].member /\ own \in 1..n
    BY <1>4, <2>1 DEF Slot
  <2>4. PICK added : added = old[i].member /\ added \in 1..n
    BY <1>2, <1>4 DEF Slot
  <2>5. PICK longer : longer = Append(sq, added) /\ longer \in Seq(1..n)
    <3>1. Append(sq, added) \in Seq(1..n)
      BY <2>2, <2>4, AppendKeeps
    <3> QED
      BY <3>1
  <2>6. Chained = [old EXCEPT ![t] = [member |-> own, next |-> longer]]
    BY <1>1, <1>3, <1>4, <2>2, <2>3, <2>4, <2>5 DEF Chained
  <2>7. PICK grown : grown = [member |-> own, next |-> longer] /\ grown \in Slot(n)
    <3>1. [member |-> own, next |-> longer] \in Slot(n)
      BY <2>3, <2>5 DEF Slot
    <3> QED
      BY <3>1
  <2>8. Chained = [old EXCEPT ![t] = grown]
    BY <2>6, <2>7
  <2>9. /\ Chained \in [1..n -> Slot(n)] /\ Chained[t] = grown
        /\ \A k \in 1..n : k # t => Chained[k] = old[k]
    BY <1>4, <2>1, <2>7, <2>8
  <2>10. grown = [member |-> old[t].member, next |-> Append(old[t].next, old[i].member)]
    BY <2>2, <2>3, <2>4, <2>5, <2>7
  <2> QED
    BY <2>9, <2>10
<1>6. PICK moved : /\ moved = MoveUp(Chained, i, max)
                   /\ moved = [k \in 1..n |-> IF i <= k /\ k < max THEN chained[k + 1]
                                                                  ELSE chained[k]]
  BY <1>5 DEF MoveUp
<1>7. \A k \in 1..(i - 1) : moved[k] = chained[k]
  BY <1>2, <1>6
<1>8. \A k \in i..(max - 1) : moved[k] = old[k + 1]
  <2> SUFFICES ASSUME NEW k \in i..(max - 1) PROVE moved[k] = old[k + 1]
    OBVIOUS
  <2>1. k \in 1..n /\ i <= k /\ k < max /\ k + 1 \in 1..n /\ k + 1 # t
    BY <1>2, <1>3
  <2>2. moved[k] = chained[k + 1]
    BY <1>6, <2>1
  <2> QED
    BY <1>5, <2>1, <2>2
<1>9. moved \in [1..n -> Slot(n)]
  <2> SUFFICES ASSUME NEW k \in 1..n
               PROVE  (IF i <= k /\ k < max THEN chained[k + 1] ELSE chained[k]) \in Slot(n)
    BY <1>6
  <2>1. CASE i <= k /\ k < max
    <3>1. PICK l \in 1..n : l = k + 1
      BY <1>2, <2>1
    <3>2. chained[l] \in Slot(n)
      BY <1>5
    <3> QED
      BY <2>1, <3>1, <3>2
  <2>2. CASE ~ (i <= k /\ k < max)
    BY <1>5, <2>2
  <2> QED
    BY <2>1, <2>2
<1>10. moved = property'[id]
  BY <1>t, <1>1, <1>2, <1>6 DEF TypeOK
<1>11. MovedUp(n, max, i, t, old, moved)
  <2>1. t \in 1..n /\ t \in 1..(i - 1) /\ max \in 1..n /\ i \in 1..max
    BY <1>2, <1>3
  <2>2. moved[t] = [member |-> old[t].member, next |-> Append(old[t].next, old[i].member)]
    BY <1>5, <1>7, <2>1
  <2>3. \A k \in 1..(i - 1) : k # t => moved[k] = old[k]
    BY <1>2, <1>5, <1>7
  <2> QED
    BY <1>4, <1>8, <1>9, <2>1, <2>2, <2>3 DEF MovedUp
<1> QED
  BY <1>2, <1>3, <1>4, <1>10, <1>11

(* The slot chained to is one before the place the array is moved to, and   *)
(* the slots before that place keep their members.                          *)
LEMMA AddToChainKeeps == LoaderInvariant /\ addToChain => LoaderInvariant'
<1> SUFFICES ASSUME LoaderInvariant, addToChain PROVE LoaderInvariant'
  OBVIOUS
<1>t. TypeOK
  BY DEF LoaderInvariant
<1>r. TreeIsRight
  BY DEF LoaderInvariant
<1>k. SlotIsKnown
  BY DEF LoaderInvariant
<1> PICK id : id = adding.id
  OBVIOUS
<1> PICK i : i = adding.i
  OBVIOUS
<1> PICK max : max = adding.maxEntry
  OBVIOUS
<1> PICK n : n = Len(file[canid_root[id]].data)
  OBVIOUS
<1>1. /\ Adding /\ NodeOf.id = id
      /\ property' = [property EXCEPT ![id] = MoveUp(Chained, i, max)]
      /\ adding' = [adding EXCEPT !.maxEntry = @ - 1]
      /\ UNCHANGED <<file, next, canid_root, nData, property_root, support_property_list, timers>>
  BY DEF addToChain
<1>2. /\ id \in CanId /\ id \in Defined /\ n \in Nat /\ max \in Nat
      /\ Slots \in [1..n -> [member : 1..n, next : Seq(1..n)]]
      /\ i \in 1..max /\ i \in 1..n /\ max <= n
      /\ NameAdded \in Property
  BY <1>t, <1>1, SlotAdded DEF TypeOK
<1>3. PICK len, t, moved : MovedUp(len, max, i, t, Slots, moved) /\ moved = property'[id] /\ len = n
  BY ChainMovesUp
<1>4. MovedUp(n, max, i, t, Slots, moved)
  BY <1>3
<1>5. /\ moved \in [1..n -> [member : 1..n, next : Seq(1..n)]]
      /\ \A k \in 1..(i - 1) : moved[k].member = Slots[k].member
  <2>1. MembersKept(n, i, Slots, moved)
    BY <1>2, <1>4, MovedUpKeeps
  <2> QED
    BY <2>1 DEF MembersKept
<1>6. max - 1 \in Nat /\ i \in 1..((max - 1) + 1)
  BY <1>2
<1>7. /\ adding'.id = id /\ adding'.i = i /\ adding'.maxEntry = max - 1
      /\ adding' \in [id : CanId \cup {-1}, i : Nat, maxEntry : Nat]
      /\ i \in 1..(adding'.maxEntry + 1)
  <2>1. adding \in [id : CanId \cup {-1}, i : Nat, maxEntry : Nat]
    BY <1>t DEF TypeOK
  <2>2. PICK less : less = max - 1 /\ less \in Nat
    BY <1>6
  <2>3. adding' = [adding EXCEPT !.maxEntry = less]
    BY <1>1, <2>2
  <2>4. /\ adding'.id = id /\ adding'.i = i /\ adding'.maxEntry = less
        /\ adding' \in [id : CanId \cup {-1}, i : Nat, maxEntry : Nat]
    BY <2>1, <2>2, <2>3
  <2> QED
    BY <1>6, <2>2, <2>4
<1>8. /\ Defined' = Defined
      /\ property'[id] = moved /\ \A j \in CanId : j # id => property'[j] = property[j]
      /\ DOMAIN property' = CanId
  BY <1>t, <1>1, <1>2, <1>3 DEF Defined, TypeOK
<1>9. /\ \A j \in CanId : Settled(j)' = Settled(j)
      /\ Settled(id) = 1..(i - 1)
  BY <1>1, <1>7 DEF Settled
<1>10. TypeOK'
  <2>1. InUse(id)' = 1..(max - 1)
    BY <1>7 DEF InUse
  <2>2. \A j \in CanId : j # id => InUse(j)' = InUse(j)
    BY <1>1, <1>7 DEF InUse
  <2>3. ASSUME NEW j \in Defined
        PROVE  LET m == Len(file[canid_root[j]].data)
               IN  property'[j] \in [1..m -> [member : 1..m, next : Seq(1..m)]]
                   /\ InUse(j)' \subseteq DOMAIN property'[j]
    <3>1. j \in CanId
      BY DEF Defined
    <3>2. CASE j = id
      <4>1. 1..(max - 1) \subseteq 1..n
        BY <1>2
      <4> QED
        BY <1>5, <1>8, <2>1, <3>2, <4>1
    <3>3. CASE j # id
      BY <1>t, <1>8, <2>2, <3>1, <3>3 DEF TypeOK
    <3> QED
      BY <3>2, <3>3
  <2> QED
    BY <1>t, <1>1, <1>2, <1>7, <1>8, <2>3 DEF TypeOK
<1>11. ASSUME NEW j \in CanId, NEW s \in Settled(j)
       PROVE  NameAt(j, property[j][s].member)' = NameAt(j, property[j][s].member)
  <2>1. property'[j][s].member = property[j][s].member
    BY <1>5, <1>8, <1>9 DEF Slots
  <2> QED
    BY <1>1, <2>1 DEF NameAt
<1>12. TreeIsRight'
  <2> SUFFICES ASSUME NEW p \in Property, NEW j \in CanId, property_root'[p].id = j
               PROVE  /\ j \in Defined'
                      /\ \E s \in Settled(j)' : property_root'[p].slot = s
                                               /\ NameAt(j, property[j][s].member)' = p
    BY DEF TreeIsRight
  <2>1. j \in Defined
        /\ \E s \in Settled(j) : property_root[p].slot = s /\ NameAt(j, property[j][s].member) = p
    BY <1>r, <1>1 DEF TreeIsRight
  <2>2. PICK s \in Settled(j) : property_root[p].slot = s /\ NameAt(j, property[j][s].member) = p
    BY <2>1
  <2>3. s \in Settled(j)' /\ NameAt(j, property[j][s].member)' = p
    BY <1>9, <1>11, <2>2
  <2> QED
    BY <1>1, <1>8, <2>1, <2>2, <2>3
<1>13. SlotIsKnown'
  <2> SUFFICES ASSUME NEW j \in Defined', NEW s \in Settled(j)', NEW p \in Property,
                      NameAt(j, property[j][s].member)' = p
               PROVE  property_root'[p] # NoNode
                      /\ (property_root'[p].id = j => property_root'[p].slot = s)
    BY DEF SlotIsKnown
  <2>1. j \in Defined /\ j \in CanId
    BY <1>8 DEF Defined
  <2>2. s \in Settled(j) /\ NameAt(j, property[j][s].member) = p
    BY <1>9, <1>11, <2>1
  <2> QED
    BY <1>k, <1>1, <2>1, <2>2 DEF SlotIsKnown
<1> QED
  BY <1>10, <1>12, <1>13 DEF LoaderInvariant

(* At the end of the loop all slots in use are settled. *)
LEMMA AddSendTimerKeeps == LoaderInvariant /\ addSendTimer => LoaderInvariant'
<1> SUFFICES ASSUME LoaderInvariant, addSendTimer PROVE LoaderInvariant'
  OBVIOUS
<1>t. TypeOK
  BY DEF LoaderInvariant
<1>r. TreeIsRight
  BY DEF LoaderInvariant
<1>k. SlotIsKnown
  BY DEF LoaderInvariant
<1> PICK id : id = adding.id
  OBVIOUS
<1> PICK max : max = adding.maxEntry
  OBVIOUS
<1>1. /\ adding # Idle /\ adding.i > max
      /\ nData' = [nData EXCEPT ![id] = max]
      /\ timers' \in {timers, timers \cup {id}}
      /\ adding' = Idle
      /\ UNCHANGED <<file, next, canid_root, property, property_root, support_property_list>>
  BY DEF addSendTimer, LoopEnds
<1>2. id \in Defined /\ id \in CanId /\ max \in Nat /\ adding.i = max + 1
  BY <1>t, <1>1 DEF TypeOK, Defined
<1>3. Defined' = Defined /\ adding'.id \notin CanId
  BY <1>1 DEF Defined, Idle, CanId
<1>4. /\ \A j \in CanId : InUse(j)' = InUse(j)
      /\ \A j \in CanId : Settled(j)' = Settled(j)
  <2>1. ASSUME NEW j \in CanId, j = id
        PROVE  InUse(j)' = 1..max /\ Settled(j)' = 1..max
               /\ InUse(j) = 1..max /\ Settled(j) = 1..(adding.i - 1)
    BY <1>t, <1>1, <1>2, <1>3, <2>1 DEF InUse, Settled, TypeOK
  <2>2. ASSUME NEW j \in CanId, j # id
        PROVE  InUse(j)' = InUse(j) /\ Settled(j)' = Settled(j)
    BY <1>t, <1>1, <1>2, <1>3, <2>2 DEF InUse, Settled, TypeOK
  <2>3. adding.i - 1 = max
    BY <1>2
  <2> QED
    BY <2>1, <2>2, <2>3
<1>5. TypeOK'
  <2>1. nData' \in [CanId -> Nat] /\ timers' \subseteq CanId
    BY <1>t, <1>1, <1>2 DEF TypeOK
  <2>2. adding' \in [id : CanId \cup {-1}, i : Nat, maxEntry : Nat]
    BY <1>1 DEF Idle
  <2>3. \A j \in Defined :
          LET n == Len(file[canid_root[j]].data)
          IN  property[j] \in [1..n -> [member : 1..n, next : Seq(1..n)]]
              /\ InUse(j)' \subseteq DOMAIN property[j]
    BY <1>t, <1>4 DEF TypeOK, Defined
  <2> QED
    BY <1>t, <1>1, <1>3, <2>1, <2>2, <2>3 DEF TypeOK
<1>6. TreeIsRight'
  BY <1>r, <1>1, <1>3, <1>4 DEF TreeIsRight, NameAt
<1>7. SlotIsKnown'
  <2> SUFFICES ASSUME NEW j \in Defined', NEW s \in Settled(j)', NEW p \in Property,
                      NameAt(j, property[j][s].member)' = p
               PROVE  property_root'[p] # NoNode
                      /\ (property_root'[p].id = j => property_root'[p].slot = s)
    BY DEF SlotIsKnown
  <2>1. j \in Defined /\ j \in CanId /\ s \in Settled(j) /\ NameAt(j, property[j][s].member) = p
    BY <1>1, <1>3, <1>4 DEF NameAt, Defined
  <2> QED
    BY <1>k, <1>1, <2>1 DEF SlotIsKnown
<1> QED
  BY <1>5, <1>6, <1>7 DEF LoaderInvariant

(* A step that changes nothing. *)
LEMMA LoaderStutters == LoaderInvariant /\ UNCHANGED vars => LoaderInvariant'
<1> SUFFICES ASSUME LoaderInvariant, UNCHANGED vars PROVE LoaderInvariant'
  OBVIOUS
<1>1. /\ file' = file /\ next' = next /\ canid_root' = canid_root /\ property' = property
      /\ nData' = nData /\ property_root' = property_root /\ adding' = adding
      /\ support_property_list' = support_property_list /\ timers' = timers
  BY DEF vars, dictionary
<1>2. TypeOK'
  BY <1>1 DEF LoaderInvariant, TypeOK, Defined, InUse
<1>3. TreeIsRight'
  BY <1>1 DEF LoaderInvariant, TreeIsRight, Defined, Settled, NameAt
<1>4. SlotIsKnown'
  BY <1>1 DEF LoaderInvariant, SlotIsKnown, Defined, Settled, NameAt
<1> QED
  BY <1>2, <1>3, <1>4 DEF LoaderInvariant

(* The loader keeps the invariant, for every definition file. *)
THEOREM LoaderIsInvariant == Spec => []LoaderInvariant
<1>1. LoaderInvariant /\ [Next]_vars => LoaderInvariant'
  BY ParseKeeps, AddPropertyKeeps, AddConflictKeeps, AddToChainKeeps, AddSendTimerKeeps,
     LoaderStutters DEF Next, Done
<1> QED
  BY <1>1, LoaderStart, PTL DEF Spec

(* The loader stays well typed: no slot is read or moved outside its array. *)
THEOREM LoaderTypeCorrect == Spec => []TypeOK
<1>1. LoaderInvariant => TypeOK
  BY DEF LoaderInvariant
<1> QED
  BY <1>1, LoaderIsInvariant, PTL

(* The nodes of property_root point where they should, after all the moves. *)
THEOREM TreeStaysRight == Spec => []TreeIsRight
<1>1. LoaderInvariant => TreeIsRight
  BY DEF LoaderInvariant
<1> QED
  BY <1>1, LoaderIsInvariant, PTL

(* Every slot the binder comes to is the one its name leads to, if its CAN  *)
(* ID owns the name.                                                        *)
THEOREM SlotsAreKnown == Spec => []SlotIsKnown
<1>1. LoaderInvariant => SlotIsKnown
  BY DEF LoaderInvariant
<1> QED
  BY <1>1, LoaderIsInvariant, PTL

-----------------------------------------------------------------------------
(* What the loader makes of an element of DATA.                             *)

(* A number of the file is cut to one the field may have, or to 0. *)
LEMMA AtMostIsInside ==
  ASSUME NEW limit \in Nat, NEW n \in Int PROVE AtMost(limit, n) \in 0..limit
<1>1. M8 \in Nat /\ 1 < M8
  BY WidthAssumption
<1>2. n % M8 \in 0..(M8 - 1)
  BY <1>1, ModRange
<1> QED
  BY <1>1, <1>2 DEF AtMost

(* Every TYPE becomes a type of the binder. *)
LEMMA TypeIsKnown == ASSUME NEW name PROVE string2vartype(name) \in VarType
<1>1. "VOID_T" \in VarType
  BY DEF VarType
<1> QED
  BY <1>1 DEF string2vartype

(* A table is one of texts for a STRING_T, of numbers for other types that  *)
(* have one, and there is none for the rest.                                *)
LEMMA TableFitsType ==
  ASSUME NEW m, IsMember(m), NEW type \in VarType
  PROVE  LET conv == create_convert_tables(m.SET_DATA, type)
         IN  /\ type = "STRING_T" => conv \in Seq(STRING)
             /\ type # "STRING_T" => conv \in Seq(Int)
             /\ conv # << >> => type \in ConvTypes
<1>1. << >> \in Seq(STRING) /\ << >> \in Seq(Int)
  OBVIOUS
<1>2. /\ m.SET_DATA.elements = "string" => m.SET_DATA.array \in Seq(STRING)
      /\ m.SET_DATA.elements = "int" => m.SET_DATA.array \in Seq(Int)
  BY DEF IsMember
<1> QED
  BY <1>1, <1>2 DEF create_convert_tables

(* What the loader lets through is what the rest of the binder expects. *)
LEMMA MembersAreUsable ==
  ASSUME NEW m, IsMember(m), NEW kind \in Kinds
  PROVE  LET e == add_propertyMember(m, kind) IN IsEntry(AsEntry(e)) /\ e.field \in Fields
<1> PICK e : e = add_propertyMember(m, kind)
  OBVIOUS
<1> PICK half : half = Width \div 2
  OBVIOUS
<1>1. half \in Nat
  <2>1. PICK w \in Nat : w = Width
    BY FrameAssumption DEF Width
  <2> QED
    BY <2>1
<1>2. e.type \in VarType
  BY TypeIsKnown DEF add_propertyMember
<1>3. e.field \in Fields
  <2>1. AtMost(BYTE_OF_FRAME, m.POS) \in 0..BYTE_OF_FRAME
    BY AtMostIsInside, FrameAssumption DEF IsMember
  <2>2. AtMost(BITS_OF_BYTE, m.OFFS) \in 0..BITS_OF_BYTE
    BY AtMostIsInside, FrameAssumption DEF IsMember
  <2>3. AtMost(half, m.LEN) \in 0..half
    BY <1>1, AtMostIsInside DEF IsMember
  <2> QED
    BY <2>1, <2>2, <2>3 DEF add_propertyMember, Fields
<1>4. AsEntry(e).mask \in 0..(M32 - 1)
  <2>1. PICK len \in 0..half : len = e.field.len
    BY <1>3 DEF Fields
  <2>2. 2^len \in 1..M32 /\ M32 \in Nat
    BY LoaderAssumption, WidthAssumption
  <2>3. PICK power \in 1..M32 : power = 2^len
    BY <2>2
  <2> QED
    BY <2>1, <2>2, <2>3 DEF AsEntry
<1>5. /\ e.type = "STRING_T" => e.conv \in Seq(STRING)
      /\ e.type # "STRING_T" => e.conv \in Seq(Int)
      /\ e.conv # << >> => e.type \in ConvTypes
  <2>1. << >> \in Seq(STRING) /\ << >> \in Seq(Int)
    OBVIOUS
  <2>2. CASE kind = "CAN_KIND_SEND"
    BY <2>1, <2>2 DEF add_propertyMember
  <2>3. CASE kind # "CAN_KIND_SEND" /\ m.typeIsFirst
    <3>1. e.conv = create_convert_tables(m.SET_DATA, e.type)
      BY <2>3 DEF add_propertyMember
    <3> QED
      BY <1>2, <3>1, TableFitsType
  <2>4. CASE kind # "CAN_KIND_SEND" /\ ~ m.typeIsFirst
    <3>1. e.conv = create_convert_tables(m.SET_DATA, "VOID_T")
      BY <2>4 DEF add_propertyMember
    <3>2. e.conv = << >>
      BY <3>1 DEF create_convert_tables, ConvTypes, IntTypes
    <3> QED
      BY <2>1, <3>2
  <2> QED
    BY <2>2, <2>3, <2>4
<1> QED
  BY <1>2, <1>3, <1>4, <1>5 DEF IsEntry, AsEntry

(* Whatever the file says, each of its entries has a table that fits its    *)
(* type and a field that a frame may have.                                  *)
THEOREM EntriesAreUsable == Spec => []Usable
<1>1. TypeOK => Usable
  <2> SUFFICES ASSUME TypeOK, NEW id \in Defined, NEW k \in DOMAIN file[canid_root[id]].data
               PROVE  LET e == Entry(id, k) IN IsEntry(AsEntry(e)) /\ e.field \in Fields
    BY DEF Usable
  <2>1. IsDefinition(file[canid_root[id]])
    BY DEF TypeOK, Defined, IsFile
  <2>2. IsMember(file[canid_root[id]].data[k]) /\ file[canid_root[id]].kind \in Kinds
    BY <2>1 DEF IsDefinition
  <2> QED
    BY <2>2, MembersAreUsable DEF Entry
<1> QED
  BY <1>1, LoaderTypeCorrect, PTL

(* The loop of addCANID_dict stays with its CAN ID and its array only shrinks. *)
LEMMA LoopStays ==
  ASSUME TypeOK, addProperty \/ addConflict \/ addToChain
  PROVE  /\ Adding /\ adding # Idle /\ adding.id \in Defined /\ adding.id \in CanId
         /\ adding' # Idle /\ adding'.id = adding.id
         /\ adding'.maxEntry \in Nat /\ adding'.maxEntry <= adding.maxEntry
         /\ file' = file /\ next' = next /\ canid_root' = canid_root /\ nData' = nData
         /\ timers' = timers /\ Defined' = Defined
<1>1. Adding /\ adding # Idle
  BY DEF addProperty, addConflict, addToChain, Adding
<1>2. /\ adding.id \in Defined /\ adding.id \in CanId
      /\ adding \in [id : CanId \cup {-1}, i : Nat, maxEntry : Nat]
      /\ adding.i \in 1..adding.maxEntry
  BY <1>1, SlotAdded DEF TypeOK
<1>3. /\ file' = file /\ next' = next /\ canid_root' = canid_root /\ nData' = nData
      /\ timers' = timers
  BY DEF addProperty, addConflict, addToChain, dictionary
<1>4. Defined' = Defined
  BY <1>3 DEF Defined
<1>5. CASE GoOn
  <2>1. adding'.id = adding.id /\ adding'.maxEntry = adding.maxEntry
    BY <1>2, <1>5 DEF GoOn
  <2> QED
    BY <1>1, <1>2, <1>3, <1>4, <2>1 DEF Idle, CanId
<1>6. CASE addToChain
  <2>1. PICK less \in Nat : less = adding.maxEntry - 1
    BY <1>2
  <2>2. adding' = [adding EXCEPT !.maxEntry = less]
    BY <1>6, <2>1 DEF addToChain
  <2>3. adding'.id = adding.id /\ adding'.maxEntry = less
    BY <1>2, <2>2
  <2> QED
    BY <1>1, <1>2, <1>3, <1>4, <2>1, <2>3 DEF Idle, CanId
<1> QED
  BY <1>5, <1>6 DEF addProperty, addConflict

-----------------------------------------------------------------------------
(* The timers of the CAN IDs that are sent.                                 *)

Sent(id) == file[canid_root[id]].kind = "CAN_KIND_SEND"

(* A CAN ID has its timer as soon as its array is done, if it has entries.  *)
(* That addSendTimer asks for entries before the array has shrunk does not  *)
(* matter: what is left after the loop was there before it.                 *)
TimersAreSet ==
  /\ \A id \in timers : id \in Defined /\ Sent(id)
  /\ \A id \in Defined : adding.id # id /\ Sent(id) /\ nData[id] > 0 => id \in timers
  /\ adding # Idle => adding.maxEntry <= nData[adding.id]

(* The parser, the loop and the end of the loop keep that. *)
LEMMA TimersStaySet == LoaderInvariant /\ TimersAreSet /\ [Next]_vars => TimersAreSet'
<1> SUFFICES ASSUME LoaderInvariant, TimersAreSet, [Next]_vars PROVE TimersAreSet'
  OBVIOUS
<1>t. TypeOK
  BY DEF LoaderInvariant
<1>1. CASE parse_caninfo
  <2>1. PICK d, id, n : ComesTo(d, id, n) /\ (Drops(d, id) \/ Takes(d, id, n))
    BY <1>t, <1>1, ParseDropsOrTakes
  <2>2. CASE Drops(d, id)
    BY <2>1, <2>2 DEF TimersAreSet, ComesTo, Drops, Sent
  <2>3. CASE Takes(d, id, n)
    <3>1. /\ id \in CanId /\ adding = Idle /\ file' = file /\ timers' = timers
          /\ Defined' = Defined \cup {id} /\ nData'[id] = n /\ n \in Nat
          /\ adding'.id = id /\ adding'.maxEntry = n
      BY <2>1, <2>3 DEF ComesTo, Takes
    <3>2. \A j \in Defined : Sent(j)' = Sent(j) /\ nData'[j] = nData[j] /\ adding.id # j
      BY <2>3, <3>1 DEF Takes, Sent, Idle, Defined, CanId
    <3>3. \A j \in timers' : j \in Defined' /\ Sent(j)'
      BY <3>1, <3>2 DEF TimersAreSet
    <3>4. \A j \in Defined' : adding'.id # j /\ Sent(j)' /\ nData'[j] > 0 => j \in timers'
      BY <3>1, <3>2 DEF TimersAreSet
    <3> QED
      BY <3>1, <3>3, <3>4 DEF TimersAreSet
  <2> QED
    BY <2>1, <2>2, <2>3
<1>2. CASE addProperty \/ addConflict \/ addToChain
  <2>1. /\ adding # Idle /\ adding'.id = adding.id /\ adding.id \in CanId
        /\ adding'.maxEntry \in Nat /\ adding'.maxEntry <= adding.maxEntry
        /\ file' = file /\ canid_root' = canid_root /\ nData' = nData
        /\ timers' = timers /\ Defined' = Defined
    BY <1>t, <1>2, LoopStays
  <2>2. adding.maxEntry \in Nat /\ nData[adding.id] \in Nat
    BY <1>t, <2>1 DEF TypeOK
  <2>3. \A j \in timers' : j \in Defined' /\ Sent(j)'
    BY <2>1 DEF TimersAreSet, Sent
  <2>4. \A j \in Defined' : adding'.id # j /\ Sent(j)' /\ nData'[j] > 0 => j \in timers'
    BY <2>1 DEF TimersAreSet, Sent
  <2>5. adding'.maxEntry <= nData'[adding'.id]
    BY <2>1, <2>2 DEF TimersAreSet
  <2> QED
    BY <2>3, <2>4, <2>5 DEF TimersAreSet
<1>3. CASE addSendTimer
  <2> PICK id : id = adding.id
    OBVIOUS
  <2> PICK max : max = adding.maxEntry
    OBVIOUS
  <2>1. /\ adding # Idle /\ nData' = [nData EXCEPT ![id] = max] /\ adding' = Idle
        /\ timers' = IF Sent(id) /\ nData[id] > 0 THEN timers \cup {id} ELSE timers
        /\ file' = file /\ canid_root' = canid_root /\ Defined' = Defined
    BY <1>3 DEF addSendTimer, LoopEnds, Sent, Defined
  <2>2. id \in Defined /\ id \in CanId /\ max \in Nat /\ nData[id] \in Nat /\ max <= nData[id]
    BY <1>t, <2>1 DEF TypeOK, Defined, TimersAreSet
  <2>3. \A j \in CanId : nData'[j] = IF j = id THEN max ELSE nData[j]
    BY <1>t, <2>1, <2>2 DEF TypeOK
  <2>4. \A j \in timers' : j \in Defined' /\ Sent(j)'
    BY <2>1, <2>2 DEF TimersAreSet, Sent
  <2>5. ASSUME NEW j \in Defined, Sent(j)', nData'[j] > 0 PROVE j \in timers'
    <3>1. Sent(j) /\ j \in CanId
      BY <2>1, <2>5 DEF Sent, Defined
    <3>2. CASE j = id
      BY <2>1, <2>2, <2>3, <2>5, <3>1, <3>2
    <3>3. CASE j # id
      BY <2>1, <2>3, <2>5, <3>1, <3>3 DEF TimersAreSet
    <3> QED
      BY <3>2, <3>3
  <2> QED
    BY <2>1, <2>4, <2>5 DEF TimersAreSet
<1>4. CASE UNCHANGED vars
  BY <1>4 DEF vars, dictionary, TimersAreSet, Sent, Defined
<1> QED
  BY <1>1, <1>2, <1>3, <1>4 DEF Next, Done

(* A node of the tree points to an entry in use, so a CAN ID that owns a    *)
(* name has entries, and the timer that set restarts.                       *)
THEOREM SentStaysTimed == Spec => []SentHasTimer
<1>1. Init => TimersAreSet
  BY DEF Init, TimersAreSet, Defined
<1>2. LoaderInvariant /\ TimersAreSet => SentHasTimer
  <2> SUFFICES ASSUME LoaderInvariant, TimersAreSet PROVE SentHasTimer
    OBVIOUS
  <2>1. ASSUME NEW p \in Property, property_root[p] # NoNode,
               adding.id # property_root[p].id, Sent(property_root[p].id)
        PROVE  property_root[p].id \in timers
    <3> PICK id : id = property_root[p].id
      OBVIOUS
    <3>1. id \in CanId
      BY <2>1 DEF LoaderInvariant, TypeOK
    <3>2. id \in Defined /\ \E s \in Settled(id) : property_root[p].slot = s
      BY <3>1 DEF LoaderInvariant, TreeIsRight
    <3>3. nData[id] \in Nat
      BY <3>1 DEF LoaderInvariant, TypeOK
    <3>4. nData[id] > 0
      BY <2>1, <3>2, <3>3 DEF Settled
    <3> QED
      BY <2>1, <3>2, <3>4 DEF TimersAreSet
  <2> QED
    BY <2>1 DEF SentHasTimer, TimersAreSet, Sent
<1>3. Spec => []TimersAreSet
  BY <1>1, TimersStaySet, LoaderIsInvariant, PTL DEF Spec
<1> QED
  BY <1>2, <1>3, LoaderIsInvariant, PTL

-----------------------------------------------------------------------------
(* The list that "*" stands for.                                            *)

(* The smaller of two numbers, and of a set that has a smallest. *)
LEMMA MinIsLeast ==
  ASSUME NEW S \in SUBSET Int, NEW m \in S, \A k \in S : m <= k PROVE Min(S) = m
<1>1. \A x \in S : (\A y \in S : x <= y) => x = m
  OBVIOUS
<1> QED
  BY <1>1 DEF Min

(* What is appended to a sequence is added to its elements. *)
LEMMA RangeOfAppend ==
  ASSUME NEW S, NEW sq \in Seq(S), NEW x \in S
  PROVE  Range(Append(sq, x)) = Range(sq) \cup {x}
<1> PICK n \in Nat : n = Len(sq) /\ DOMAIN sq = 1..n
  OBVIOUS
<1>1. /\ DOMAIN Append(sq, x) = 1..(n + 1) /\ Append(sq, x)[n + 1] = x
      /\ \A k \in 1..n : Append(sq, x)[k] = sq[k]
  OBVIOUS
<1>2. 1..(n + 1) = 1..n \cup {n + 1}
  OBVIOUS
<1> QED
  BY <1>1, <1>2 DEF Range

Names == {p \in Property : property_root[p] # NoNode}

(* While there is room every name that enters the tree enters the list, and *)
(* a name enters the tree once.                                             *)
ListIsKept ==
  /\ IsFiniteSet(Names) /\ Range(support_property_list) \subseteq Names
  /\ Len(support_property_list) = Cardinality(Range(support_property_list))
  /\ Len(support_property_list) <= SUPPORT_PROPERTY_LIMIT
  /\ Len(support_property_list) < SUPPORT_PROPERTY_LIMIT => Range(support_property_list) = Names

(* Only addProperty changes the tree or the list. *)
LEMMA ListStaysKept == LoaderInvariant /\ ListIsKept /\ [Next]_vars => ListIsKept'
<1> SUFFICES ASSUME LoaderInvariant, ListIsKept, [Next]_vars PROVE ListIsKept'
  OBVIOUS
<1>t. TypeOK
  BY DEF LoaderInvariant
<1>1. CASE property_root' = property_root /\ support_property_list' = support_property_list
  <2>1. Names' = Names
    BY <1>1 DEF Names
  <2> QED
    BY <1>1, <2>1 DEF ListIsKept
<1>2. CASE addProperty
  <2> PICK q : q = NameAdded
    OBVIOUS
  <2> PICK node : node = [id |-> adding.id, slot |-> adding.i]
    OBVIOUS
  <2> PICK listed : listed = support_property_list
    OBVIOUS
  <2>1. /\ Adding /\ property_root[q] = NoNode
        /\ property_root' = [property_root EXCEPT ![q] = node]
        /\ support_property_list' = IF Len(listed) < SUPPORT_PROPERTY_LIMIT
                                    THEN Append(listed, q) ELSE listed
    BY <1>2 DEF addProperty, NodeOf
  <2>2. q \in Property /\ adding.id \in CanId /\ node # NoNode
    BY <1>t, <2>1, SlotAdded DEF NoNode, CanId
  <2>3. \A p \in Property : property_root'[p] = IF p = q THEN node ELSE property_root[p]
    BY <1>t, <2>1, <2>2 DEF TypeOK
  <2>4. Names' = Names \cup {q} /\ q \notin Names
    BY <2>1, <2>2, <2>3 DEF Names
  <2>5. IsFiniteSet(Names')
    BY <2>4, FS_AddElement DEF ListIsKept
  <2>6. /\ listed \in Seq(Property) /\ Len(listed) \in Nat /\ SUPPORT_PROPERTY_LIMIT \in Nat
        /\ Range(listed) \subseteq Names
    BY <1>t, LoaderAssumption DEF TypeOK, ListIsKept
  <2>7. CASE Len(listed) < SUPPORT_PROPERTY_LIMIT
    <3>1. support_property_list' = Append(listed, q)
      BY <2>1, <2>7
    <3>2. /\ Range(support_property_list') = Range(listed) \cup {q}
          /\ Len(support_property_list') = Len(listed) + 1
      BY <2>2, <2>6, <3>1, RangeOfAppend
    <3>3. IsFiniteSet(Range(listed))
      BY <2>6, FS_Subset DEF ListIsKept
    <3>4. Cardinality(Range(listed) \cup {q}) = Cardinality(Range(listed)) + 1
      BY <2>4, <2>6, <3>3, FS_AddElement
    <3>5. Range(listed) = Names
      BY <2>7 DEF ListIsKept
    <3>6. Len(listed) = Cardinality(Range(listed))
      BY DEF ListIsKept
    <3> QED
      BY <2>4, <2>5, <2>6, <2>7, <3>2, <3>4, <3>5, <3>6 DEF ListIsKept
  <2>8. CASE ~ (Len(listed) < SUPPORT_PROPERTY_LIMIT)
    <3>1. support_property_list' = listed
      BY <2>1, <2>8
    <3>2. Range(listed) \subseteq Names'
      BY <2>4, <2>6
    <3> QED
      BY <2>5, <2>8, <3>1, <3>2 DEF ListIsKept
  <2> QED
    BY <2>7, <2>8
<1>3. CASE parse_caninfo
  <2>1. PICK d, id, n : ComesTo(d, id, n) /\ (Drops(d, id) \/ Takes(d, id, n))
    BY <1>t, <1>3, ParseDropsOrTakes
  <2> QED
    BY <1>1, <2>1 DEF ComesTo
<1> QED
  BY <1>1, <1>2, <1>3 DEF Next, Done, vars, dictionary, addConflict, addToChain, addSendTimer, LoopEnds

(* "*" stands for every name in the tree, each once, up to the list's size. *)
THEOREM StarStaysEverything == Spec => []StarIsEverything
<1>1. Init => ListIsKept
  <2> SUFFICES ASSUME Init PROVE ListIsKept
    OBVIOUS
  <2>1. Names = {} /\ support_property_list = << >> /\ Range(<< >>) = {}
    BY DEF Init, Names, Range
  <2>2. Len(<< >>) = 0 /\ SUPPORT_PROPERTY_LIMIT \in Nat
    BY LoaderAssumption
  <2> QED
    BY <2>1, <2>2, FS_EmptySet DEF ListIsKept
<1>2. TypeOK /\ ListIsKept => StarIsEverything
  <2> SUFFICES ASSUME TypeOK, ListIsKept PROVE StarIsEverything
    OBVIOUS
  <2> PICK listed : listed = support_property_list
    OBVIOUS
  <2> PICK limit : limit = SUPPORT_PROPERTY_LIMIT
    OBVIOUS
  <2> PICK all : all = Cardinality(Names)
    OBVIOUS
  <2>1. Len(listed) \in Nat /\ limit \in Nat /\ all \in Nat
    BY LoaderAssumption, FS_CardinalityType DEF TypeOK, ListIsKept
  <2>2. Len(listed) <= all
    BY FS_Subset DEF ListIsKept
  <2>3. Len(listed) <= limit /\ (Len(listed) < limit => Len(listed) = all)
    BY DEF ListIsKept
  <2>4. Len(listed) \in {limit, all} /\ \A k \in {limit, all} : Len(listed) <= k
    BY <2>1, <2>2, <2>3
  <2>5. {limit, all} \in SUBSET Int
    BY <2>1
  <2>6. Min({limit, all}) = Len(listed)
    BY <2>4, <2>5, MinIsLeast
  <2> QED
    BY <2>6 DEF StarIsEverything, ListIsKept, Names
<1>3. Spec => []ListIsKept
  BY <1>1, ListStaysKept, LoaderIsInvariant, PTL DEF Spec
<1> QED
  BY <1>2, <1>3, LoaderTypeCorrect, PTL
=============================================================================
