---------------------------- MODULE ArrayProofs -----------------------------
(***************************************************************************)
(* However the loader moves the arrays, no entry of a definition is lost,  *)
(* the dictionary is what the definition file says, and the loader         *)
(* implements DefinitionFile.                                              *)
(***************************************************************************)
EXTENDS DictionaryProofs

(* The array of a CAN ID while it shrinks.  These definitions and lemmas    *)
(* are about one array: data, the elements of its definition; slots, of     *)
(* which max are in use and the first settled ones have been looked at.     *)

Increasing(c) == \A i, j \in DOMAIN c : i < j => c[i] < c[j]

(* Each element is reached from one slot in use, which has its name. *)
HoldsAll(data, slots, max) ==
  \A k \in DOMAIN data : \E s \in 1..max :
    /\ k \in Range(Chain(slots[s]))
    /\ \A t \in 1..max : k \in Range(Chain(slots[t])) => t = s
    /\ data[k].name = data[slots[s].member].name

(* A slot that is not settled has nothing chained and comes, in the file,   *)
(* after all that the slots before it hold; and chains follow the file.     *)
InOrder(slots, max, settled) ==
  /\ \A s \in 1..max : settled < s => slots[s].next = << >>
  /\ \A s, t \in 1..max : s < t /\ settled < t =>
       \A h \in Range(Chain(slots[s])) : h < slots[t].member
  /\ \A s \in 1..max : Increasing(Chain(slots[s]))

(* The chain of a slot is a sequence of elements. *)
LEMMA ChainType ==
  ASSUME NEW n \in Nat, NEW slot \in Slot(n)
  PROVE  /\ Chain(slot) \in Seq(1..n) /\ slot.member \in Range(Chain(slot))
         /\ slot.next = << >> => Chain(slot) = <<slot.member>>
         /\ Range(Chain(slot)) \subseteq 1..n
<1> PICK own \in 1..n : own = slot.member
  BY DEF Slot
<1> PICK rest \in Seq(1..n) : rest = slot.next
  BY DEF Slot
<1>1. Chain(slot) = <<own>> \o rest
  BY DEF Chain
<1>2. <<own>> \in Seq(1..n)
  OBVIOUS
<1>3. <<own>> \o rest \in Seq(1..n)
  BY <1>2
<1>4. Len(<<own>> \o rest) = 1 + Len(rest) /\ (<<own>> \o rest)[1] = own
  BY <1>2
<1>5. 1 \in DOMAIN (<<own>> \o rest)
  BY <1>3, <1>4
<1>6. \A k \in DOMAIN (<<own>> \o rest) : (<<own>> \o rest)[k] \in 1..n
  BY <1>3
<1>7. <<own>> \o << >> = <<own>>
  OBVIOUS
<1> QED
  BY <1>1, <1>3, <1>4, <1>5, <1>6, <1>7 DEF Range

(* What is appended to the next pointers is appended to the chain. *)
LEMMA ChainGrows ==
  ASSUME NEW n \in Nat, NEW slot \in Slot(n), NEW x \in 1..n
  PROVE  Chain([member |-> slot.member, next |-> Append(slot.next, x)]) = Append(Chain(slot), x)
<1> PICK own \in 1..n : own = slot.member
  BY DEF Slot
<1> PICK rest \in Seq(1..n) : rest = slot.next
  BY DEF Slot
<1>1. <<own>> \o Append(rest, x) = Append(<<own>> \o rest, x)
  OBVIOUS
<1> QED
  BY <1>1 DEF Chain

(* A sequence that increases still does with a greater element at its end. *)
LEMMA IncreasingGrows ==
  ASSUME NEW n \in Nat, NEW c \in Seq(1..n), NEW x \in 1..n, Increasing(c),
         \A h \in Range(c) : h < x
  PROVE  Increasing(Append(c, x))
<1>0. PICK m \in Nat : m = Len(c) /\ DOMAIN c = 1..m
  OBVIOUS
<1>d. PICK d : d = Append(c, x)
  OBVIOUS
<1>1. DOMAIN d = 1..(m + 1) /\ d[m + 1] = x /\ \A k \in 1..m : d[k] = c[k]
  BY <1>0, <1>d
<1>2. \A k \in 1..m : c[k] \in Range(c)
  BY <1>0 DEF Range
<1> SUFFICES ASSUME NEW i \in 1..(m + 1), NEW j \in 1..(m + 1), i < j PROVE d[i] < d[j]
  BY <1>1, <1>d DEF Increasing
<1>3. i \in 1..m
  BY <1>0
<1>4. CASE j \in 1..m
  BY <1>0, <1>1, <1>3, <1>4 DEF Increasing
<1>5. CASE j = m + 1
  <2>1. d[i] = c[i] /\ d[j] = x
    BY <1>1, <1>3, <1>5
  <2>2. c[i] \in Range(c)
    BY <1>2, <1>3
  <2> QED
    BY <2>1, <2>2
<1>6. j \in 1..m \/ j = m + 1
  BY <1>0
<1> QED
  BY <1>4, <1>5, <1>6

(* The array of a definition as it is made: each element has its own slot. *)
LEMMA NewArrayIsRight ==
  ASSUME NEW n \in Nat, NEW data, DOMAIN data = 1..n,
         NEW slots, slots = [k \in 1..n |-> [member |-> k, next |-> << >>]]
  PROVE  HoldsAll(data, slots, n) /\ InOrder(slots, n, 0)
<1>1. ASSUME NEW k \in 1..n
      PROVE  /\ slots[k].member = k /\ slots[k].next = << >>
             /\ Chain(slots[k]) = <<k>> /\ Range(Chain(slots[k])) = {k}
             /\ Increasing(Chain(slots[k]))
  <2>1. slots[k].member = k /\ slots[k].next = << >>
    OBVIOUS
  <2>2. << >> \in Seq(1..n)
    OBVIOUS
  <2>3. slots[k] \in Slot(n)
    BY <2>2 DEF Slot
  <2>4. Chain(slots[k]) = <<k>>
    BY <2>1, <2>3, ChainType
  <2>5. DOMAIN <<k>> = {1} /\ <<k>>[1] = k
    OBVIOUS
  <2>6. Range(<<k>>) = {k}
    BY <2>5 DEF Range
  <2>7. Increasing(<<k>>)
    BY <2>5 DEF Increasing
  <2> QED
    BY <2>1, <2>4, <2>6, <2>7
<1>2. HoldsAll(data, slots, n)
  <2> SUFFICES ASSUME NEW k \in 1..n
               PROVE  /\ k \in Range(Chain(slots[k]))
                      /\ \A t \in 1..n : k \in Range(Chain(slots[t])) => t = k
                      /\ data[k].name = data[slots[k].member].name
    BY DEF HoldsAll
  <2>1. \A t \in 1..n : Range(Chain(slots[t])) = {t}
    BY <1>1
  <2> QED
    BY <1>1, <2>1
<1>3. InOrder(slots, n, 0)
  BY <1>1 DEF InOrder
<1> QED
  BY <1>2, <1>3

(* Such an array, of which the first slots are settled. *)
Moved(n, max, i, t, old, new) == MovedUp(n, max, i, t, old, new) /\ InOrder(old, max, i - 1)

ChainMoved(i, t, old, new) ==
  /\ Chain(new[t]) = Append(Chain(old[t]), old[i].member)
  /\ Range(Chain(new[t])) = Range(Chain(old[t])) \cup Range(Chain(old[i]))
  /\ Range(Chain(old[i])) = {old[i].member}
  /\ new[t].member = old[t].member

(* The chains before and after that. *)
LEMMA MovedChains ==
  ASSUME NEW n \in Nat, NEW max, NEW i, NEW t, NEW old, NEW new,
         Moved(n, max, i, t, old, new)
  PROVE  ChainMoved(i, t, old, new)
<1>1. /\ t \in 1..n /\ i \in 1..n /\ i \in 1..max /\ i - 1 < i
      /\ old[t] \in Slot(n) /\ old[i] \in Slot(n)
  BY DEF Moved, MovedUp
<1> PICK x : x = old[i].member /\ x \in 1..n
  BY <1>1 DEF Slot
<1>2. Chain(new[t]) = Append(Chain(old[t]), x)
  BY <1>1, ChainGrows DEF Moved, MovedUp
<1>3. Range(Chain(new[t])) = Range(Chain(old[t])) \cup {x}
  <2>1. Chain(old[t]) \in Seq(1..n)
    BY <1>1, ChainType
  <2>2. PICK c : c = Chain(old[t]) /\ c \in Seq(1..n)
    BY <2>1
  <2>3. Range(Append(c, x)) = Range(c) \cup {x}
    BY <2>2, RangeOfAppend
  <2> QED
    BY <1>2, <2>2, <2>3
<1>4. Chain(old[i]) = <<x>>
  <2>1. old[i].next = << >>
    BY <1>1 DEF InOrder, Moved, MovedUp
  <2> QED
    BY <1>1, <2>1, ChainType
<1>5. Range(<<x>>) = {x}
  <2>1. DOMAIN <<x>> = {1} /\ <<x>>[1] = x
    OBVIOUS
  <2> QED
    BY <2>1 DEF Range
<1>6. new[t].member = old[t].member
  BY DEF Moved, MovedUp
<1>7. /\ Chain(new[t]) = Append(Chain(old[t]), old[i].member)
      /\ Range(Chain(old[i])) = {old[i].member}
  BY <1>2, <1>4, <1>5
<1>8. Range(Chain(new[t])) = Range(Chain(old[t])) \cup Range(Chain(old[i]))
  BY <1>3, <1>7
<1> QED
  BY <1>6, <1>7, <1>8 DEF ChainMoved

(* No element is lost or doubled by it. *)
LEMMA MovedHoldsAll ==
  ASSUME NEW n \in Nat, NEW max, NEW i, NEW t, NEW old, NEW new, NEW data,
         Moved(n, max, i, t, old, new),
         HoldsAll(data, old, max), data[old[t].member].name = data[old[i].member].name
  PROVE  HoldsAll(data, new, max - 1)
<1>1. /\ max \in Nat /\ i \in Nat /\ t \in Nat /\ t < i /\ i <= max /\ 0 < t
  BY DEF Moved, MovedUp
<1>2. ASSUME NEW u \in 1..(max - 1), u < i, u # t PROVE new[u] = old[u]
  BY <1>1, <1>2 DEF Moved, MovedUp
<1>3. ASSUME NEW u \in 1..(max - 1), i <= u PROVE new[u] = old[u + 1]
  BY <1>1, <1>3 DEF Moved, MovedUp
<1>4. ChainMoved(i, t, old, new)
  BY MovedChains
<1> SUFFICES ASSUME NEW k \in DOMAIN data
             PROVE  \E s \in 1..(max - 1) :
                      /\ k \in Range(Chain(new[s]))
                      /\ \A u \in 1..(max - 1) : k \in Range(Chain(new[u])) => u = s
                      /\ data[k].name = data[new[s].member].name
  BY DEF HoldsAll
<1>5. PICK s \in 1..max :
        /\ k \in Range(Chain(old[s]))
        /\ \A u \in 1..max : k \in Range(Chain(old[u])) => u = s
        /\ data[k].name = data[old[s].member].name
  BY DEF HoldsAll
<1>6. ASSUME NEW u \in 1..(max - 1), k \in Range(Chain(new[u]))
      PROVE  \/ u < i /\ u = s
             \/ u = t /\ s = i
             \/ i <= u /\ u + 1 = s
  <2>1. CASE u < i /\ u # t
    BY <1>1, <1>2, <1>5, <1>6, <2>1
  <2>2. CASE u = t
    <3>1. k \in Range(Chain(old[t])) \/ k \in Range(Chain(old[i]))
      BY <1>4, <1>6, <2>2 DEF ChainMoved
    <3> QED
      BY <1>1, <1>5, <2>2, <3>1
  <2>3. CASE i <= u
    <3>1. u + 1 \in 1..max
      BY <1>1
    <3> QED
      BY <1>1, <1>3, <1>5, <1>6, <2>3, <3>1
  <2> QED
    BY <1>1, <2>1, <2>2, <2>3
<1>7. CASE s < i
  <2>1. s \in 1..(max - 1) /\ k \in Range(Chain(new[s])) /\ new[s].member = old[s].member
    <3>1. s \in 1..(max - 1)
      BY <1>1, <1>7
    <3>2. CASE s = t
      BY <1>4, <1>5, <3>1, <3>2 DEF ChainMoved
    <3>3. CASE s # t
      <4>1. new[s] = old[s]
        BY <1>2, <1>7, <3>1, <3>3
      <4> QED
        BY <1>5, <3>1, <4>1
    <3> QED
      BY <3>2, <3>3
  <2>2. \A u \in 1..(max - 1) : k \in Range(Chain(new[u])) => u = s
    BY <1>1, <1>6, <1>7
  <2> QED
    BY <1>5, <2>1, <2>2
<1>8. CASE s = i
  <2>1. t \in 1..(max - 1) /\ k \in Range(Chain(new[t]))
    BY <1>1, <1>4, <1>5, <1>8 DEF ChainMoved
  <2>2. data[k].name = data[new[t].member].name
    BY <1>4, <1>5, <1>8 DEF ChainMoved
  <2>3. \A u \in 1..(max - 1) : k \in Range(Chain(new[u])) => u = t
    BY <1>1, <1>6, <1>8
  <2> QED
    BY <2>1, <2>2, <2>3
<1>9. CASE i < s
  <2>1. PICK r \in 1..(max - 1) : r + 1 = s /\ i <= r
    BY <1>1, <1>9
  <2>2. new[r] = old[s]
    BY <1>3, <2>1
  <2>3. \A u \in 1..(max - 1) : k \in Range(Chain(new[u])) => u = r
    BY <1>1, <1>6, <1>9, <2>1
  <2> QED
    BY <1>5, <2>1, <2>2, <2>3
<1> QED
  BY <1>1, <1>7, <1>8, <1>9

(* And it follows the file: the element that is chained comes after all     *)
(* that its chain has so far.                                               *)
LEMMA MovedInOrder ==
  ASSUME NEW n \in Nat, NEW max, NEW i, NEW t, NEW old, NEW new,
         Moved(n, max, i, t, old, new)
  PROVE  InOrder(new, max - 1, i - 1)
<1>1. /\ max \in Nat /\ i \in Nat /\ t \in Nat /\ t < i /\ i <= max /\ 0 < t
      /\ t \in 1..n /\ i \in 1..n
  BY DEF Moved, MovedUp
<1>2. ASSUME NEW u \in 1..(max - 1), u < i, u # t PROVE new[u] = old[u]
  BY <1>1, <1>2 DEF Moved, MovedUp
<1>3. ASSUME NEW u \in 1..(max - 1), i <= u PROVE new[u] = old[u + 1]
  BY <1>1, <1>3 DEF Moved, MovedUp
<1>4. ChainMoved(i, t, old, new)
  BY MovedChains
<1>5. \A s, u \in 1..max : s < u /\ i - 1 < u =>
        \A h \in Range(Chain(old[s])) : h < old[u].member
  BY DEF InOrder, Moved, MovedUp
<1>6. \A s \in 1..(max - 1) : i - 1 < s => new[s].next = << >>
  <2> SUFFICES ASSUME NEW s \in 1..(max - 1), i - 1 < s PROVE new[s].next = << >>
    OBVIOUS
  <2>1. i <= s /\ s + 1 \in 1..max /\ i - 1 < s + 1
    BY <1>1
  <2> QED
    BY <1>3, <2>1 DEF InOrder, Moved, MovedUp
<1>7. ASSUME NEW s \in 1..(max - 1), NEW u \in 1..(max - 1), s < u, i - 1 < u,
             NEW h \in Range(Chain(new[s]))
      PROVE  h < new[u].member
  <2>1. PICK v \in 1..max : v = u + 1 /\ i < v /\ new[u] = old[v]
    BY <1>1, <1>3, <1>7
  <2>2. CASE s < i /\ s # t
    <3>1. h \in Range(Chain(old[s])) /\ s \in 1..max /\ s < v /\ i - 1 < v
      BY <1>1, <1>2, <1>7, <2>1, <2>2
    <3> QED
      BY <1>5, <2>1, <3>1
  <2>3. CASE s = t
    <3>1. h \in Range(Chain(old[t])) \/ h \in Range(Chain(old[i]))
      BY <1>4, <1>7, <2>3 DEF ChainMoved
    <3>2. t \in 1..max /\ i \in 1..max /\ t < v /\ i - 1 < v
      BY <1>1, <2>1
    <3> QED
      BY <1>5, <2>1, <3>1, <3>2
  <2>4. CASE i <= s
    <3>1. PICK r \in 1..max : r = s + 1 /\ new[s] = old[r]
      BY <1>1, <1>3, <2>4
    <3>2. r < v /\ i - 1 < v
      BY <1>1, <1>7, <2>1, <3>1
    <3> QED
      BY <1>5, <1>7, <2>1, <3>1, <3>2
  <2> QED
    BY <1>1, <2>2, <2>3, <2>4
<1>8. ASSUME NEW s \in 1..(max - 1) PROVE Increasing(Chain(new[s]))
  <2>1. CASE s < i /\ s # t
    BY <1>1, <1>2, <2>1 DEF InOrder, Moved, MovedUp
  <2>2. CASE s = t
    <3>1. Increasing(Chain(old[t])) /\ \A h \in Range(Chain(old[t])) : h < old[i].member
      BY <1>1, <1>5 DEF InOrder, Moved, MovedUp
    <3>2. old[t] \in Slot(n) /\ old[i].member \in 1..n
      BY <1>1 DEF Moved, MovedUp, Slot
    <3>3. Chain(old[t]) \in Seq(1..n)
      BY <3>2, ChainType
    <3> QED
      BY <1>4, <2>2, <3>1, <3>2, <3>3, IncreasingGrows DEF ChainMoved
  <2>3. CASE i <= s
    <3>1. s + 1 \in 1..max
      BY <1>1
    <3> QED
      BY <1>3, <2>3, <3>1 DEF InOrder, Moved, MovedUp
  <2> QED
    BY <1>1, <2>1, <2>2, <2>3
<1> QED
  BY <1>6, <1>7, <1>8 DEF InOrder

LastInUse(id) == IF adding.id = id THEN adding.maxEntry ELSE nData[id]
LastSettled(id) == IF adding.id = id THEN adding.i - 1 ELSE nData[id]

(* The arrays of all CAN IDs are right. *)
ArraysAreRight ==
  \A id \in Defined :
    /\ HoldsAll(file[canid_root[id]].data, property[id], LastInUse(id))
    /\ InOrder(property[id], LastInUse(id), LastSettled(id))

(* The order asks less of an array when more of it is settled. *)
LEMMA SettlingKeepsOrder ==
  ASSUME NEW slots, NEW max \in Nat, NEW i \in Nat, InOrder(slots, max, i - 1)
  PROVE  InOrder(slots, max, i)
<1>1. \A s \in 1..max : i < s => i - 1 < s
  OBVIOUS
<1> QED
  BY <1>1 DEF InOrder

(* Every step keeps the arrays right. *)
LEMMA ArraysStayRight == LoaderInvariant /\ ArraysAreRight /\ [Next]_vars => ArraysAreRight'
<1> SUFFICES ASSUME LoaderInvariant, ArraysAreRight, [Next]_vars PROVE ArraysAreRight'
  OBVIOUS
<1>t. TypeOK
  BY DEF LoaderInvariant
<1>1. CASE parse_caninfo
  <2>1. PICK d, id, n : ComesTo(d, id, n) /\ (Drops(d, id) \/ Takes(d, id, n))
    BY <1>t, <1>1, ParseDropsOrTakes
  <2>2. CASE Drops(d, id)
    BY <2>1, <2>2 DEF ArraysAreRight, ComesTo, Drops, LastInUse, LastSettled
  <2>3. CASE Takes(d, id, n)
    <3>1. /\ file' = file /\ d = file[next] /\ canid_root'[id] = next
          /\ DOMAIN d.data = 1..n /\ n \in Nat
          /\ property'[id] = [k \in 1..n |-> [member |-> k, next |-> << >>]]
          /\ LastInUse(id)' = n /\ LastSettled(id)' = 0
      BY <2>1, <2>3 DEF ComesTo, Takes, IsDefinition, LastInUse, LastSettled
    <3>2. PICK data : data = d.data /\ DOMAIN data = 1..n
      BY <3>1
    <3>3. PICK slots : slots = property'[id]
                       /\ slots = [k \in 1..n |-> [member |-> k, next |-> << >>]]
      BY <3>1
    <3>4. HoldsAll(data, slots, n) /\ InOrder(slots, n, 0)
      BY <3>1, <3>2, <3>3, NewArrayIsRight
    <3>5. /\ HoldsAll(file[canid_root[id]].data, property[id], LastInUse(id))'
          /\ InOrder(property[id], LastInUse(id), LastSettled(id))'
      BY <3>1, <3>2, <3>3, <3>4
    <3>6. ASSUME NEW j \in Defined
          PROVE  /\ HoldsAll(file[canid_root[j]].data, property[j], LastInUse(j))'
                 /\ InOrder(property[j], LastInUse(j), LastSettled(j))'
      <4>1. j \in CanId /\ adding.id # j /\ adding'.id # j
        BY <2>1, <2>3 DEF Defined, ComesTo, Takes, Idle, CanId
      <4>2. /\ LastInUse(j)' = LastInUse(j) /\ LastSettled(j)' = LastSettled(j)
            /\ canid_root'[j] = canid_root[j] /\ property'[j] = property[j]
        BY <2>3, <4>1 DEF Takes, LastInUse, LastSettled
      <4> QED
        BY <3>1, <4>2 DEF ArraysAreRight
    <3>7. Defined' = Defined \cup {id}
      BY <2>3 DEF Takes
    <3> QED
      BY <3>5, <3>6, <3>7 DEF ArraysAreRight
  <2> QED
    BY <2>1, <2>2, <2>3
<1>2. CASE addProperty \/ addConflict
  <2>1. /\ Adding /\ adding.id \in CanId /\ file' = file /\ canid_root' = canid_root
        /\ nData' = nData /\ Defined' = Defined
    BY <1>t, <1>2, LoopStays
  <2>2. property' = property /\ GoOn
    BY <1>2 DEF addProperty, addConflict, dictionary
  <2>3. PICK i \in Nat : i = adding.i
    BY <1>t DEF TypeOK
  <2>4. adding' = [adding EXCEPT !.i = i + 1]
    BY <2>2, <2>3 DEF GoOn
  <2>5. /\ adding'.id = adding.id /\ adding'.maxEntry = adding.maxEntry /\ adding'.i - 1 = i
        /\ adding.maxEntry \in Nat
    BY <1>t, <2>3, <2>4 DEF TypeOK
  <2>6. ASSUME NEW j \in Defined
        PROVE  /\ HoldsAll(file[canid_root[j]].data, property[j], LastInUse(j))'
               /\ InOrder(property[j], LastInUse(j), LastSettled(j))'
    <3>1. /\ LastInUse(j)' = LastInUse(j)
          /\ HoldsAll(file[canid_root[j]].data, property[j], LastInUse(j))
          /\ InOrder(property[j], LastInUse(j), LastSettled(j))
      BY <2>1, <2>5 DEF LastInUse, ArraysAreRight
    <3>2. CASE j # adding.id
      <4>1. LastSettled(j)' = LastSettled(j)
        BY <2>1, <2>5, <3>2 DEF LastSettled
      <4> QED
        BY <2>1, <2>2, <3>1, <4>1
    <3>3. CASE j = adding.id
      <4>1. LastSettled(j)' = i /\ LastSettled(j) = i - 1 /\ LastInUse(j) \in Nat
        BY <2>3, <2>5, <3>3 DEF LastSettled, LastInUse
      <4>2. InOrder(property[j], LastInUse(j), i)
        BY <3>1, <4>1, SettlingKeepsOrder
      <4> QED
        BY <2>1, <2>2, <3>1, <4>1, <4>2
    <3> QED
      BY <3>2, <3>3
  <2> QED
    BY <2>1, <2>6 DEF ArraysAreRight
<1>3. CASE addToChain
  <2> PICK id : id = adding.id
    OBVIOUS
  <2> PICK i : i = adding.i
    OBVIOUS
  <2> PICK max : max = adding.maxEntry
    OBVIOUS
  <2>1. /\ Adding /\ id \in CanId /\ id \in Defined /\ file' = file /\ canid_root' = canid_root
        /\ nData' = nData /\ Defined' = Defined
    BY <1>t, <1>3, LoopStays
  <2>2. PICK n, t, new : /\ MovedUp(n, max, i, t, Slots, new) /\ new = property'[id]
                         /\ n = Len(file[canid_root[id]].data) /\ n \in Nat
                         /\ NameAt(id, Slots[t].member) = NameAdded
    BY <1>3, ChainMovesUp
  <2>3. PICK old : old = Slots
    OBVIOUS
  <2>4. PICK data : data = file[canid_root[id]].data
    OBVIOUS
  <2>5. PICK less \in Nat : less = max - 1 /\ max \in Nat
    BY <2>2 DEF MovedUp
  <2>6. adding'.id = id /\ adding'.i = i /\ adding'.maxEntry = less
    <3>1. adding' = [adding EXCEPT !.maxEntry = less]
      BY <1>3, <2>5 DEF addToChain
    <3> QED
      BY <1>t, <3>1 DEF TypeOK
  <2>7. HoldsAll(data, old, max) /\ InOrder(old, max, i - 1)
    <3>1. LastInUse(id) = max /\ LastSettled(id) = i - 1
      BY DEF LastInUse, LastSettled
    <3> QED
      BY <2>1, <2>3, <2>4, <3>1 DEF ArraysAreRight, Slots
  <2>8. data[old[t].member].name = data[old[i].member].name
    BY <2>2, <2>3, <2>4 DEF NameAt, NameAdded, Slots
  <2>9. Moved(n, max, i, t, old, new)
    BY <2>2, <2>3, <2>7 DEF Moved
  <2>10. HoldsAll(data, new, less) /\ InOrder(new, less, i - 1)
    BY <2>2, <2>5, <2>7, <2>8, <2>9, MovedHoldsAll, MovedInOrder
  <2>11. LastInUse(id)' = less /\ LastSettled(id)' = i - 1
    BY <2>6 DEF LastInUse, LastSettled
  <2>12. ASSUME NEW j \in Defined, j # id
         PROVE  /\ HoldsAll(file[canid_root[j]].data, property[j], LastInUse(j))'
                /\ InOrder(property[j], LastInUse(j), LastSettled(j))'
    <3>1. /\ LastInUse(j)' = LastInUse(j) /\ LastSettled(j)' = LastSettled(j)
      BY <2>1, <2>6, <2>12 DEF LastInUse, LastSettled
    <3>2. property'[j] = property[j]
      BY <1>t, <1>3, <2>12 DEF addToChain, TypeOK, Defined
    <3> QED
      BY <2>1, <3>1, <3>2 DEF ArraysAreRight
  <2>13. /\ HoldsAll(file[canid_root[id]].data, property[id], LastInUse(id))'
         /\ InOrder(property[id], LastInUse(id), LastSettled(id))'
    BY <2>1, <2>2, <2>4, <2>10, <2>11
  <2> QED
    BY <2>1, <2>12, <2>13 DEF ArraysAreRight
<1>4. CASE addSendTimer
  <2> PICK id : id = adding.id
    OBVIOUS
  <2> PICK max : max = adding.maxEntry
    OBVIOUS
  <2>1. /\ adding # Idle /\ nData' = [nData EXCEPT ![id] = max] /\ adding' = Idle
        /\ file' = file /\ canid_root' = canid_root /\ Defined' = Defined
        /\ property' = property
    BY <1>4 DEF addSendTimer, LoopEnds, Defined
  <2>2. id \in CanId /\ max \in Nat /\ adding.i = max + 1
    BY <1>t, <1>4, <2>1 DEF TypeOK, Defined, addSendTimer, LoopEnds
  <2>3. ASSUME NEW j \in Defined
        PROVE  LastInUse(j)' = LastInUse(j) /\ LastSettled(j)' = LastSettled(j)
    <3>1. j \in CanId /\ adding'.id # j
      BY <2>1 DEF Defined, Idle, CanId
    <3>2. nData'[j] = IF j = id THEN max ELSE nData[j]
      BY <1>t, <2>1, <2>2, <3>1 DEF TypeOK
    <3>3. adding.i - 1 = max
      BY <2>2
    <3> QED
      BY <3>1, <3>2, <3>3 DEF LastInUse, LastSettled
  <2> QED
    BY <2>1, <2>3 DEF ArraysAreRight
<1>5. CASE UNCHANGED vars
  BY <1>5 DEF vars, dictionary, ArraysAreRight, Defined, LastInUse, LastSettled
<1> QED
  BY <1>1, <1>2, <1>3, <1>4, <1>5 DEF Next, Done

(* The arrays are right in every state of the loader. *)
LEMMA ArraysAreInvariant == Spec => []ArraysAreRight
<1>1. Init => ArraysAreRight
  BY DEF Init, ArraysAreRight, Defined
<1> QED
  BY <1>1, ArraysStayRight, LoaderIsInvariant, PTL DEF Spec

(* However the array shrinks, no entry of a definition is lost or doubled. *)
THEOREM NothingGetsLost == Spec => []NothingIsLost
<1>1. LoaderInvariant /\ ArraysAreRight => NothingIsLost
  BY DEF ArraysAreRight, NothingIsLost, HoldsAll, InUse, LastInUse, NameAt
<1> QED
  BY <1>1, ArraysAreInvariant, LoaderIsInvariant, PTL

-----------------------------------------------------------------------------
(* The dictionary is what the file says.                                    *)

(* Of the definitions parsed so far the first with an array has its CAN ID, *)
(* and the first that names a property has the property.                    *)
FirstIsTaken ==
  /\ \A id \in Defined :
       LET k == canid_root[id]
       IN  k < next /\ file[k].dataIsArray /\ CanIdOf(file[k].key) = id
  /\ \A j \in DOMAIN file : j < next /\ file[j].dataIsArray =>
       CanIdOf(file[j].key) \in Defined /\ canid_root[CanIdOf(file[j].key)] <= j
  /\ \A p \in Property, id \in Defined :
       property_root[p] # NoNode /\ MembersOf(canid_root[id], p) # {} =>
         canid_root[property_root[p].id] <= canid_root[id]

(* A name in the tree belongs to a CAN ID that is defined. *)
LEMMA OwnerIsDefined ==
  ASSUME LoaderInvariant, NEW p \in Property, property_root[p] # NoNode
  PROVE  /\ property_root[p].id \in CanId /\ property_root[p].id \in Defined
         /\ property_root[p].slot \in Settled(property_root[p].id)
         /\ LET id == property_root[p].id
            IN  NameAt(id, property[id][property_root[p].slot].member) = p
<1>1. property_root[p].id \in CanId
  BY DEF LoaderInvariant, TypeOK
<1> QED
  BY <1>1 DEF LoaderInvariant, TreeIsRight

(* A CAN ID that is not being added and names p has p in the tree. *)
LEMMA NamedIsKnown ==
  ASSUME LoaderInvariant, ArraysAreRight, NEW p \in Property, NEW id \in Defined,
         adding.id # id, NEW k \in MembersOf(canid_root[id], p)
  PROVE  /\ property_root[p] # NoNode
         /\ property_root[p].id = id =>
              k \in Range(Chain(property[id][property_root[p].slot]))
<1>1. k \in DOMAIN file[canid_root[id]].data /\ file[canid_root[id]].data[k].name = p
  BY DEF MembersOf
<1>2. PICK s \in 1..LastInUse(id) :
        /\ k \in Range(Chain(property[id][s]))
        /\ file[canid_root[id]].data[k].name
             = file[canid_root[id]].data[property[id][s].member].name
  BY <1>1 DEF ArraysAreRight, HoldsAll
<1>3. s \in Settled(id)
  BY DEF LastInUse, Settled
<1>4. NameAt(id, property[id][s].member) = p
  BY <1>1, <1>2 DEF NameAt
<1>5. property_root[p] # NoNode /\ (property_root[p].id = id => property_root[p].slot = s)
  BY <1>3, <1>4 DEF LoaderInvariant, SlotIsKnown
<1> QED
  BY <1>2, <1>5

(* The definitions keep their order. *)
LEMMA FirstStaysTaken ==
  LoaderInvariant /\ ArraysAreRight /\ FirstIsTaken /\ [Next]_vars => FirstIsTaken'
<1> SUFFICES ASSUME LoaderInvariant, ArraysAreRight, FirstIsTaken, [Next]_vars
             PROVE  FirstIsTaken'
  OBVIOUS
<1>t. TypeOK
  BY DEF LoaderInvariant
<1>1. CASE parse_caninfo
  <2>1. PICK d, id, n : ComesTo(d, id, n) /\ (Drops(d, id) \/ Takes(d, id, n))
    BY <1>t, <1>1, ParseDropsOrTakes
  <2>2. /\ file' = file /\ next' = next + 1 /\ next \in 1..Len(file) /\ DOMAIN file = 1..Len(file)
        /\ Len(file) \in Nat /\ d = file[next] /\ id = CanIdOf(d.key)
        /\ property_root' = property_root
    BY <2>1 DEF ComesTo
  <2>3. \A j \in DOMAIN file : j < next' => j < next \/ j = next
    BY <2>2
  <2>4. \A j \in Defined : canid_root[j] \in Nat /\ canid_root[j] < next
    BY <1>t DEF FirstIsTaken, TypeOK, Defined
  <2>5. CASE Drops(d, id)
    <3>1. /\ canid_root' = canid_root /\ Defined' = Defined /\ (id \in Defined \/ ~ d.dataIsArray)
      BY <2>5 DEF Drops
    <3>2. \A j \in Defined : canid_root[j] < next'
      BY <2>2, <2>4
    <3>3. ASSUME NEW j \in DOMAIN file, j < next', file[j].dataIsArray
          PROVE  CanIdOf(file[j].key) \in Defined /\ canid_root[CanIdOf(file[j].key)] <= j
      <4>1. CASE j < next
        BY <3>3, <4>1 DEF FirstIsTaken
      <4>2. CASE j = next
        BY <2>2, <2>4, <3>1, <3>3, <4>2
      <4> QED
        BY <2>3, <3>3, <4>1, <4>2
    <3> QED
      BY <2>2, <3>1, <3>2, <3>3 DEF FirstIsTaken, MembersOf
  <2>6. CASE Takes(d, id, n)
    <3>1. /\ Defined' = Defined \cup {id} /\ id \notin Defined /\ canid_root'[id] = next
          /\ d.dataIsArray /\ \A j \in Defined : canid_root'[j] = canid_root[j]
      BY <2>6 DEF Takes
    <3>2. ASSUME NEW j \in Defined'
          PROVE  /\ canid_root'[j] < next' /\ file'[canid_root'[j]].dataIsArray
                 /\ CanIdOf(file'[canid_root'[j]].key) = j
      <4>1. CASE j = id
        BY <2>2, <3>1, <4>1
      <4>2. CASE j \in Defined
        BY <2>2, <2>4, <3>1, <4>2 DEF FirstIsTaken
      <4> QED
        BY <3>1, <4>1, <4>2
    <3>3. ASSUME NEW j \in DOMAIN file, j < next', file[j].dataIsArray
          PROVE  CanIdOf(file[j].key) \in Defined' /\ canid_root'[CanIdOf(file[j].key)] <= j
      <4>1. CASE j < next
        <5>1. CanIdOf(file[j].key) \in Defined /\ canid_root[CanIdOf(file[j].key)] <= j
          BY <3>3, <4>1 DEF FirstIsTaken
        <5> QED
          BY <3>1, <5>1
      <4>2. CASE j = next
        BY <2>2, <3>1, <4>2
      <4> QED
        BY <2>3, <3>3, <4>1, <4>2
    <3>4. ASSUME NEW p \in Property, NEW j \in Defined', property_root[p] # NoNode,
                 MembersOf(canid_root[j], p)' # {}
          PROVE  canid_root'[property_root[p].id] <= canid_root'[j]
      <4>1. PICK owner \in Defined : owner = property_root[p].id
        BY <3>4, OwnerIsDefined
      <4>2. canid_root'[owner] = canid_root[owner] /\ canid_root[owner] \in Nat
            /\ canid_root[owner] < next
        BY <2>4, <3>1
      <4>3. CASE j = id
        BY <2>2, <3>1, <4>1, <4>2, <4>3
      <4>4. CASE j \in Defined
        <5>1. MembersOf(canid_root[j], p) # {}
          BY <2>2, <3>1, <3>4, <4>4 DEF MembersOf
        <5>2. canid_root[owner] <= canid_root[j]
          BY <3>4, <4>1, <4>4, <5>1 DEF FirstIsTaken
        <5> QED
          BY <3>1, <4>1, <4>2, <4>4, <5>2
      <4> QED
        BY <3>1, <4>3, <4>4
    <3> QED
      BY <2>2, <3>2, <3>3, <3>4 DEF FirstIsTaken
  <2> QED
    BY <2>1, <2>5, <2>6
<1>2. CASE addProperty
  <2> PICK q : q = NameAdded
    OBVIOUS
  <2> PICK id : id = adding.id
    OBVIOUS
  <2> PICK node : node = [id |-> id, slot |-> adding.i]
    OBVIOUS
  <2>1. /\ Adding /\ id \in Defined /\ file' = file /\ next' = next /\ canid_root' = canid_root
        /\ Defined' = Defined
    BY <1>t, <1>2, LoopStays
  <2>2. property_root[q] = NoNode /\ property_root' = [property_root EXCEPT ![q] = node]
    BY <1>2 DEF addProperty, NodeOf
  <2>3. q \in Property
    BY <1>t, <2>1, SlotAdded
  <2>4. /\ node.id = id
        /\ \A p \in Property : property_root'[p] = IF p = q THEN node ELSE property_root[p]
    BY <1>t, <2>2, <2>3 DEF TypeOK
  <2>5. ASSUME NEW p \in Property, NEW j \in Defined, property_root'[p] # NoNode,
               MembersOf(canid_root[j], p)' # {}
        PROVE  canid_root[property_root'[p].id] <= canid_root[j]
    <3>1. MembersOf(canid_root[j], p) # {}
      BY <2>1, <2>5 DEF MembersOf
    <3>2. CASE p = q
      <4>1. j = id
        BY <2>2, <2>3, <3>1, <3>2, NamedIsKnown
      <4>2. canid_root[id] \in Nat
        BY <1>t, <2>1 DEF TypeOK, Defined
      <4> QED
        BY <2>4, <3>2, <4>1, <4>2
    <3>3. CASE p # q
      BY <2>4, <2>5, <3>1, <3>3 DEF FirstIsTaken
    <3> QED
      BY <3>2, <3>3
  <2> QED
    BY <2>1, <2>5 DEF FirstIsTaken
<1>3. CASE /\ file' = file /\ next' = next /\ canid_root' = canid_root
           /\ property_root' = property_root
  BY <1>3 DEF FirstIsTaken, Defined, MembersOf
<1> QED
  BY <1>1, <1>2, <1>3 DEF Next, Done, vars, dictionary, addConflict, addToChain, addSendTimer, LoopEnds

(* When the file is loaded, the definitions in the tree are those taken. *)
LEMMA RootsAreTaken ==
  ASSUME TypeOK, FirstIsTaken, Loaded
  PROVE  /\ \A id \in Defined : canid_root[id] \in Taken
         /\ \A k \in Taken : /\ CanIdOf(file[k].key) \in Defined
                             /\ canid_root[CanIdOf(file[k].key)] = k
<1>1. /\ Len(file) \in Nat /\ DOMAIN file = 1..Len(file) /\ next \in Nat
      /\ \A j \in DOMAIN file : j < next
  BY DEF TypeOK, IsFile, Loaded
<1>2. ASSUME NEW id \in Defined PROVE canid_root[id] \in Taken
  <2>1. PICK k \in DOMAIN file : k = canid_root[id]
    BY <1>1 DEF TypeOK, Defined
  <2>2. file[k].dataIsArray /\ CanIdOf(file[k].key) = id
    BY <2>1 DEF FirstIsTaken
  <2>3. ASSUME NEW j \in 1..(k - 1), file[j].dataIsArray, CanIdOf(file[j].key) = id
        PROVE  FALSE
    <3>1. j \in DOMAIN file /\ j < next /\ j < k
      BY <1>1
    <3>2. canid_root[id] <= j
      BY <2>3, <3>1 DEF FirstIsTaken
    <3> QED
      BY <1>1, <2>1, <3>1, <3>2
  <2> QED
    BY <2>1, <2>2, <2>3 DEF Taken
<1>3. ASSUME NEW k \in Taken
      PROVE  CanIdOf(file[k].key) \in Defined /\ canid_root[CanIdOf(file[k].key)] = k
  <2> PICK id : id = CanIdOf(file[k].key)
    OBVIOUS
  <2>1. k \in DOMAIN file /\ file[k].dataIsArray
    BY DEF Taken
  <2>2. id \in Defined /\ canid_root[id] <= k
    BY <1>1, <2>1 DEF FirstIsTaken
  <2>3. PICK c \in DOMAIN file : c = canid_root[id]
    BY <1>1, <2>2 DEF TypeOK, Defined
  <2>4. file[c].dataIsArray /\ CanIdOf(file[c].key) = id
    BY <2>2, <2>3 DEF FirstIsTaken
  <2>5. ~ (c < k)
    <3>1. c < k => c \in 1..(k - 1)
      BY <1>1, <2>1
    <3> QED
      BY <2>4, <3>1 DEF Taken
  <2> QED
    BY <1>1, <2>1, <2>2, <2>3, <2>5
<1> QED
  BY <1>2, <1>3

(* Then the first definition that names a property has it, with all its     *)
(* entries in one chain.                                                    *)
LEMMA FirstWins ==
  LoaderInvariant /\ ArraysAreRight /\ FirstIsTaken => FirstDefinitionWins
<1> SUFFICES ASSUME LoaderInvariant, ArraysAreRight, FirstIsTaken, Loaded, NEW p \in Property
             PROVE  LET naming == {k \in Taken : MembersOf(k, p) # {}}
                        node   == property_root[p]
                    IN  IF naming = {} THEN node = NoNode
                        ELSE LET k     == Min(naming)
                                 chain == Chain(property[node.id][node.slot])
                             IN  /\ node.id = CanIdOf(file[k].key) /\ canid_root[node.id] = k
                                 /\ Range(chain) = MembersOf(k, p)
                                 /\ \A i, j \in DOMAIN chain : i < j => chain[i] < chain[j]
  BY DEF FirstDefinitionWins
<1> PICK naming : naming = {k \in Taken : MembersOf(k, p) # {}}
  OBVIOUS
<1> PICK node : node = property_root[p]
  OBVIOUS
<1>t. TypeOK /\ adding = Idle
  BY DEF LoaderInvariant, Loaded
<1>1. /\ \A id \in Defined : canid_root[id] \in Taken
      /\ \A k \in Taken : CanIdOf(file[k].key) \in Defined /\ canid_root[CanIdOf(file[k].key)] = k
  BY <1>t, RootsAreTaken
<1>2. \A id \in Defined : adding.id # id
  BY <1>t DEF Idle, Defined, CanId
<1>3. ASSUME NEW k \in naming PROVE node # NoNode /\ canid_root[node.id] <= k
  <2>1. PICK id \in Defined : canid_root[id] = k
    BY <1>1
  <2>2. PICK m : m \in MembersOf(canid_root[id], p)
    BY <2>1
  <2>3. node # NoNode
    BY <1>2, <2>2, NamedIsKnown
  <2> QED
    BY <2>1, <2>2, <2>3 DEF FirstIsTaken
<1>4. ASSUME node # NoNode
      PROVE  /\ node.id \in Defined /\ canid_root[node.id] \in naming
             /\ node.slot \in 1..LastInUse(node.id)
             /\ NameAt(node.id, property[node.id][node.slot].member) = p
  <2> PICK id : id = node.id
    OBVIOUS
  <2> PICK s : s = node.slot
    OBVIOUS
  <2>1. /\ id \in Defined /\ id \in CanId /\ s \in Settled(id)
        /\ NameAt(id, property[id][s].member) = p
    BY <1>4, OwnerIsDefined
  <2>2. s \in InUse(id) /\ s \in 1..LastInUse(id)
    BY <1>2, <2>1 DEF Settled, InUse, LastInUse
  <2>3. property[id][s].member \in DOMAIN file[canid_root[id]].data
    <3>1. PICK n : n = Len(file[canid_root[id]].data)
      OBVIOUS
    <3>2. s \in 1..n /\ property[id] \in [1..n -> [member : 1..n, next : Seq(1..n)]]
      BY <1>t, <2>1, <2>2, <3>1 DEF TypeOK
    <3>3. DOMAIN file[canid_root[id]].data = 1..n
      BY <1>t, <2>1, <3>1 DEF TypeOK, IsFile, IsDefinition, Defined
    <3> QED
      BY <3>2, <3>3
  <2>4. property[id][s].member \in MembersOf(canid_root[id], p)
    BY <2>1, <2>3 DEF MembersOf, NameAt
  <2> QED
    BY <1>1, <2>1, <2>2, <2>4
<1>5. CASE naming = {}
  BY <1>4, <1>5
<1>6. CASE naming # {}
  <2>1. node # NoNode
    BY <1>3, <1>6
  <2> PICK id : id = node.id
    OBVIOUS
  <2> PICK s : s = node.slot
    OBVIOUS
  <2> PICK k : k = canid_root[id]
    OBVIOUS
  <2>2. /\ id \in Defined /\ k \in naming /\ s \in 1..LastInUse(id)
        /\ NameAt(id, property[id][s].member) = p
    BY <1>4, <2>1
  <2>3. Min(naming) = k
    <3>1. naming \in SUBSET Int
      <4>1. Taken \in SUBSET Int
        BY <1>t DEF Taken, TypeOK, IsFile
      <4> QED
        BY <4>1
    <3>2. \A j \in naming : k <= j
      BY <1>3
    <3> QED
      BY <2>2, <3>1, <3>2, MinIsLeast
  <2>4. CanIdOf(file[k].key) = id
    BY <2>2 DEF FirstIsTaken
  <2> PICK chain : chain = Chain(property[id][s])
    OBVIOUS
  <2>5. \A i, j \in DOMAIN chain : i < j => chain[i] < chain[j]
    BY <2>2 DEF ArraysAreRight, InOrder, Increasing
  <2>6. ASSUME NEW m \in MembersOf(k, p) PROVE m \in Range(chain)
    BY <1>2, <2>1, <2>2, NamedIsKnown
  <2>7. ASSUME NEW m \in Range(chain) PROVE m \in MembersOf(k, p)
    <3>1. PICK n : n = Len(file[k].data)
      OBVIOUS
    <3>2. /\ n \in Nat /\ s \in 1..n /\ DOMAIN file[k].data = 1..n
          /\ property[id] \in [1..n -> Slot(n)]
      <4>1. IsDefinition(file[k])
        BY <1>t, <2>2 DEF TypeOK, IsFile, Defined
      <4>2. s \in InUse(id)
        BY <2>2 DEF InUse, LastInUse
      <4>3. property[id] \in [1..n -> Slot(n)] /\ InUse(id) \subseteq 1..n
        BY <1>t, <2>2, <3>1 DEF TypeOK, Slot
      <4> QED
        BY <3>1, <4>1, <4>2, <4>3 DEF IsDefinition
    <3>3. m \in 1..n
      BY <3>2, ChainType
    <3>4. PICK data : data = file[k].data
      OBVIOUS
    <3>5. HoldsAll(data, property[id], LastInUse(id)) /\ m \in DOMAIN data
      BY <2>2, <3>2, <3>3, <3>4 DEF ArraysAreRight
    <3>6. \E r \in 1..LastInUse(id) :
             /\ \A u \in 1..LastInUse(id) : m \in Range(Chain(property[id][u])) => u = r
             /\ data[m].name = data[property[id][r].member].name
      BY <3>5 DEF HoldsAll
    <3>7. data[m].name = data[property[id][s].member].name
      BY <2>2, <3>6
    <3> QED
      BY <2>2, <3>2, <3>3, <3>4, <3>7 DEF MembersOf, NameAt
  <2>8. Range(chain) = MembersOf(k, p)
    BY <2>6, <2>7
  <2> QED
    BY <1>6, <2>3, <2>4, <2>5, <2>8
<1> QED
  BY <1>5, <1>6

(* The definitions are in order in every state of the loader. *)
LEMMA FirstIsInvariant == Spec => []FirstIsTaken
<1>1. Init => FirstIsTaken
  <2> SUFFICES ASSUME Init PROVE FirstIsTaken
    OBVIOUS
  <2>1. Defined = {} /\ next = 1 /\ IsFile(file)
    BY LoaderAssumption DEF Init, Defined
  <2>2. \A j \in DOMAIN file : ~ (j < next)
    BY <2>1 DEF IsFile
  <2> QED
    BY <2>1, <2>2 DEF FirstIsTaken
<1> QED
  BY <1>1, FirstStaysTaken, LoaderIsInvariant, ArraysAreInvariant, PTL DEF Spec

(* The dictionary is what the file says, whatever the order of the moves    *)
(* and of the searches: the first definition that names a property gives it *)
(* its CAN ID and all its entries, in the order of the file.                *)
THEOREM FirstAlwaysWins == Spec => []FirstDefinitionWins
  BY FirstWins, FirstIsInvariant, LoaderIsInvariant, ArraysAreInvariant, PTL

-----------------------------------------------------------------------------
(* The loader implements DefinitionFile.                                    *)

(* The slots the loop is still to come to are the last members, in order,   *)
(* and the array was as long as DATA when the loop began.                   *)
RestIsInOrder ==
  adding # Idle =>
    LET n == Len(file[canid_root[adding.id]].data)
    IN  /\ nData[adding.id] = n
        /\ \A s \in adding.i..adding.maxEntry : Slots[s].member = s + (n - adding.maxEntry)

(* The loop, and what parse_caninfo starts it with, keep it so.             *)
LEMMA RestStaysInOrder ==
  LoaderInvariant /\ RestIsInOrder /\ [Next]_vars => RestIsInOrder'
<1> SUFFICES ASSUME LoaderInvariant, RestIsInOrder, [Next]_vars, adding' # Idle
             PROVE  RestIsInOrder'
  BY DEF RestIsInOrder
<1>t. TypeOK
  BY DEF LoaderInvariant
<1>1. CASE parse_caninfo
  <2>1. PICK d, id, n : ComesTo(d, id, n) /\ (Drops(d, id) \/ Takes(d, id, n))
    BY <1>t, <1>1, ParseDropsOrTakes
  <2>2. Takes(d, id, n)
    BY <2>1 DEF ComesTo, Drops
  <2>3. /\ adding'.id = id /\ adding'.i = 1 /\ adding'.maxEntry = n /\ nData'[id] = n
        /\ file' = file /\ canid_root'[id] = next /\ n = Len(file[next].data) /\ n \in Nat
        /\ property'[id] = [k \in 1..n |-> [member |-> k, next |-> << >>]]
    BY <2>1, <2>2 DEF ComesTo, Takes
  <2>4. ASSUME NEW s \in 1..n PROVE property'[id][s].member = s + (n - n)
    BY <2>3
  <2> QED
    BY <2>3, <2>4 DEF RestIsInOrder, Slots
<1>2. CASE addProperty \/ addConflict
  <2>1. /\ Adding /\ adding # Idle /\ file' = file /\ canid_root' = canid_root /\ nData' = nData
        /\ adding'.id = adding.id
    BY <1>t, <1>2, LoopStays
  <2>2. property' = property /\ GoOn
    BY <1>2 DEF addProperty, addConflict, dictionary
  <2>3. adding.i \in Nat /\ adding.maxEntry \in Nat /\ adding'.i = adding.i + 1
        /\ adding'.maxEntry = adding.maxEntry
    BY <1>t, <2>2 DEF TypeOK, GoOn
  <2>4. \A s \in adding'.i..adding'.maxEntry : s \in adding.i..adding.maxEntry
    BY <2>3
  <2>5. Slots' = Slots
    BY <2>1, <2>2 DEF Slots
  <2> QED
    BY <2>1, <2>3, <2>4, <2>5 DEF RestIsInOrder
<1>3. CASE addToChain
  <2> PICK id : id = adding.id
    OBVIOUS
  <2> PICK i : i = adding.i
    OBVIOUS
  <2> PICK max : max = adding.maxEntry
    OBVIOUS
  <2>1. /\ Adding /\ adding # Idle /\ file' = file /\ canid_root' = canid_root /\ nData' = nData
        /\ adding'.id = id
    BY <1>t, <1>3, LoopStays
  <2>2. PICK n, t, new : /\ MovedUp(n, max, i, t, Slots, new) /\ new = property'[id]
                         /\ n = Len(file[canid_root[id]].data) /\ n \in Nat
    BY <1>3, ChainMovesUp
  <2>3. max \in Nat /\ i \in Nat /\ i <= max /\ max <= n
    BY <2>2 DEF MovedUp
  <2>4. adding'.i = i /\ adding'.maxEntry = max - 1
    BY <1>t, <1>3 DEF TypeOK, addToChain
  <2>5. \A s \in i..max : Slots[s].member = s + (n - max)
    BY <2>1, <2>2 DEF RestIsInOrder
  <2>6. ASSUME NEW s \in i..(max - 1) PROVE new[s].member = s + (n - (max - 1))
    <3>1. s + 1 \in i..max /\ (s + 1) + (n - max) = s + (n - (max - 1))
      BY <2>2, <2>3
    <3>2. new[s] = Slots[s + 1]
      BY <2>2 DEF MovedUp
    <3> QED
      BY <2>5, <3>1, <3>2
  <2>7. Slots' = new
    BY <2>1, <2>2 DEF Slots
  <2>8. nData[id] = n
    BY <2>1, <2>2 DEF RestIsInOrder
  <2> QED
    BY <2>1, <2>2, <2>4, <2>6, <2>7, <2>8 DEF RestIsInOrder
<1>4. CASE addSendTimer
  BY <1>4 DEF addSendTimer, LoopEnds
<1>5. CASE UNCHANGED vars
  BY <1>5 DEF vars, dictionary, RestIsInOrder, Slots
<1> QED
  BY <1>1, <1>2, <1>3, <1>4, <1>5 DEF Next, Done

(* What the steps are shown from. *)
MeaningInvariant == LoaderInvariant /\ ArraysAreRight /\ FirstIsTaken /\ RestIsInOrder

(* A definition is that of one CAN ID. *)
LEMMA RootsDiffer ==
  ASSUME FirstIsTaken, NEW i \in Defined, NEW j \in Defined, canid_root[i] = canid_root[j]
  PROVE  i = j
  BY DEF FirstIsTaken

(* A name has an owner when it has a node, and the definition that is added *)
(* owns the names whose node leads to its CAN ID.                           *)
LEMMA OwnerMeans ==
  ASSUME MeaningInvariant, NEW p \in Property
  PROVE  /\ Owner[p] = 0 <=> property_root[p] = NoNode
         /\ \A id \in Defined :
              Owner[p] = canid_root[id] <=> property_root[p] # NoNode /\ property_root[p].id = id
<1>1. LoaderInvariant /\ FirstIsTaken
  BY DEF MeaningInvariant
<1>2. Owner[p] = IF property_root[p] = NoNode THEN 0 ELSE canid_root[property_root[p].id]
  BY DEF Owner
<1>3. \A id \in Defined : canid_root[id] # 0
  BY DEF Defined
<1>4. property_root[p] # NoNode => property_root[p].id \in Defined
  BY <1>1, OwnerIsDefined
<1> QED
  BY <1>1, <1>2, <1>3, <1>4, RootsDiffer

(* The member the loop is at, as DefinitionFile has it. *)
Reached == [def |-> canid_root[adding.id], member |-> Slots[adding.i].member]

LEMMA LoopIsAtPlace ==
  ASSUME MeaningInvariant, Adding
  PROVE  /\ At = {Reached} /\ Reached.def \in DOMAIN file /\ Reached.member \in Nat
         /\ Reached.member \in DOMAIN Meant[Reached.def].names
         /\ NameAdded = Meant[Reached.def].names[Reached.member] /\ NameAdded \in Property
<1> PICK id : id = adding.id
  OBVIOUS
<1> PICK i : i = adding.i
  OBVIOUS
<1> PICK max : max = adding.maxEntry
  OBVIOUS
<1> PICK k : k = canid_root[id]
  OBVIOUS
<1> PICK n : n = Len(file[k].data)
  OBVIOUS
<1>t. TypeOK /\ RestIsInOrder /\ adding # Idle
  BY DEF MeaningInvariant, LoaderInvariant, Adding
<1>1. /\ id \in Defined /\ n \in Nat /\ i \in 1..max /\ i \in 1..n /\ max <= n
      /\ Slots \in [1..n -> [member : 1..n, next : Seq(1..n)]] /\ NameAdded \in Property
  BY <1>t, SlotAdded
<1>2. k \in DOMAIN file /\ DOMAIN file[k].data = 1..n
  <2>1. k \in DOMAIN file
    BY <1>t, <1>1 DEF TypeOK, Defined, IsFile
  <2> QED
    BY <1>t, <2>1 DEF TypeOK, IsFile, IsDefinition
<1>3. max \in Nat /\ i \in i..max
  BY <1>t, <1>1 DEF TypeOK
<1>4. Slots[i].member = i + (n - max)
  BY <1>t, <1>3 DEF RestIsInOrder
<1>5. Slots[i].member \in 1..n
  BY <1>1
<1>6. At = {Reached}
  BY <1>t, <1>4 DEF At, Reached
<1>7. PICK m \in 1..n : m = Slots[i].member /\ m = Reached.member
  BY <1>5 DEF Reached
<1>8. Reached.def = k
  BY DEF Reached
<1>9. DOMAIN Meant[k].names = 1..n /\ Meant[k].names[m] = file[k].data[m].name
  BY <1>2 DEF Meant
<1>10. NameAdded = file[k].data[m].name
  BY <1>7 DEF NameAdded, NameAt
<1> HIDE DEF Reached
<1> QED
  BY <1>1, <1>2, <1>6, <1>7, <1>8, <1>9, <1>10

(* A turn of the loop comes to the next member. *)
LEMMA LoopReads ==
  ASSUME MeaningInvariant, MeaningInvariant', addProperty \/ addConflict \/ addToChain
  PROVE  Meaning!Read(Reached, NameAdded)
<1> PICK id : id = adding.id
  OBVIOUS
<1> PICK i : i = adding.i
  OBVIOUS
<1> PICK max : max = adding.maxEntry
  OBVIOUS
<1>n. PICK n : n = Len(file[canid_root[id]].data)
  OBVIOUS
<1>t. TypeOK /\ RestIsInOrder
  BY DEF MeaningInvariant, LoaderInvariant
<1>1. /\ Adding /\ adding # Idle /\ adding' # Idle /\ adding'.id = id /\ file' = file
      /\ next' = next /\ canid_root' = canid_root /\ timers' = timers /\ Defined' = Defined
  BY <1>t, LoopStays
<1>2. n \in Nat /\ i \in Nat /\ max \in Nat /\ i <= max
  <2>1. i \in Nat /\ max \in Nat
    BY <1>t DEF TypeOK
  <2>2. n \in Nat /\ i \in 1..max
    BY <1>n, <1>t, <1>1, SlotAdded
  <2> QED
    BY <2>1, <2>2
<1>3. Reached.member = i + (n - max)
  <2>1. i \in i..max
    BY <1>2
  <2> QED
    BY <1>n, <1>t, <1>1, <2>1 DEF RestIsInOrder, Reached
<1>4. adding'.i + (n - adding'.maxEntry) = (i + (n - max)) + 1
  <2>1. CASE GoOn
    <3>1. adding'.i = i + 1 /\ adding'.maxEntry = max
      BY <1>t, <2>1 DEF TypeOK, GoOn
    <3>2. adding'.i + (n - adding'.maxEntry) = (i + 1) + (n - max)
      BY <3>1
    <3>3. (i + 1) + (n - max) = (i + (n - max)) + 1
      BY <1>2
    <3> QED
      BY <3>2, <3>3
  <2>2. CASE addToChain
    <3>1. adding'.i = i /\ adding'.maxEntry = max - 1
      BY <1>t, <2>2 DEF TypeOK, addToChain
    <3>2. adding'.i + (n - adding'.maxEntry) = i + (n - (max - 1))
      BY <3>1
    <3>3. i + (n - (max - 1)) = (i + (n - max)) + 1
      BY <1>2
    <3> QED
      BY <3>2, <3>3
  <2> QED
    BY <2>1, <2>2 DEF addProperty, addConflict
<1>5. At' = {[def |-> canid_root[id], member |-> Reached.member + 1]}
  <2>1. At' = {[def |-> canid_root[id], member |-> adding'.i + (n - adding'.maxEntry)]}
    BY <1>n, <1>1 DEF At
  <2> QED
    BY <1>3, <1>4, <2>1
<1>6. [Reached EXCEPT !.member = @ + 1] = [def |-> canid_root[id], member |-> Reached.member + 1]
  BY DEF Reached
<1>7. Meant' = Meant
  BY <1>1 DEF Meant
<1>8. /\ Reached.member \in DOMAIN Meant[Reached.def].names
      /\ NameAdded = Meant[Reached.def].names[Reached.member]
  BY <1>1, LoopIsAtPlace
<1> QED
  BY <1>1, <1>5, <1>6, <1>7, <1>8 DEF Meaning!Read

(* A name that is new becomes the definition's.                             *)
LEMMA PropertyIsFirst ==
  ASSUME MeaningInvariant, MeaningInvariant', addProperty
  PROVE  Meaning!First(Reached, NameAdded)
<1> PICK p : p = NameAdded
  OBVIOUS
<1> PICK id : id = adding.id
  OBVIOUS
<1> PICK i : i = adding.i
  OBVIOUS
<1> PICK node : node = [id |-> id, slot |-> i]
  OBVIOUS
<1>t. TypeOK
  BY DEF MeaningInvariant, LoaderInvariant
<1>1. /\ Adding /\ id \in Defined /\ id \in CanId /\ canid_root' = canid_root
      /\ adding # Idle
  BY <1>t, LoopStays
<1>2. /\ property_root[p] = NoNode /\ property_root' = [property_root EXCEPT ![p] = node]
      /\ property' = property
      /\ support_property_list' = IF Len(support_property_list) < SUPPORT_PROPERTY_LIMIT
                                  THEN Append(support_property_list, p)
                                  ELSE support_property_list
  BY DEF addProperty, NodeOf
<1>3. p \in Property /\ Reached.member \in Nat /\ i \in Nat
  BY <1>t, <1>1, LoopIsAtPlace DEF TypeOK
<1>4. /\ node.id = id /\ node.slot = i /\ node # NoNode
      /\ \A q \in Property : property_root'[q] = IF q = p THEN node ELSE property_root[q]
  <2>1. id # -1
    BY <1>1 DEF CanId
  <2> QED
    BY <1>t, <1>2, <1>3, <2>1 DEF TypeOK, NoNode
<1>5. Owner[p] = 0
  BY <1>2, <1>3, OwnerMeans
<1>6. Owner' = [Owner EXCEPT ![p] = Reached.def]
  <2>1. Reached.def = canid_root[id]
    BY DEF Reached
  <2>2. \A q \in Property : Owner'[q] = IF q = p THEN Reached.def ELSE Owner[q]
    BY <1>1, <1>4, <2>1 DEF Owner
  <2>3. Owner' = [q \in Property |-> Owner'[q]] /\ Owner = [q \in Property |-> Owner[q]]
    BY DEF Owner
  <2> QED
    BY <1>3, <2>2, <2>3
<1>7. Chain(property[id][i]) = <<Reached.member>>
  <2>1. PICK n \in Nat : Slots \in [1..n -> Slot(n)] /\ i \in 1..n /\ i \in 1..adding.maxEntry
    BY <1>t, <1>1, SlotAdded DEF Slot
  <2>2. LastInUse(id) = adding.maxEntry /\ LastSettled(id) = i - 1 /\ i - 1 < i
    BY <1>3 DEF LastInUse, LastSettled
  <2>3. property[id][i].next = << >>
    BY <1>1, <2>1, <2>2 DEF MeaningInvariant, ArraysAreRight, InOrder
  <2>4. Slots[i] = property[id][i] /\ Slots[i] \in Slot(n) /\ Reached.member = Slots[i].member
    BY <2>1 DEF Slots, Reached
  <2> QED
    BY <2>3, <2>4, ChainType
<1>8. Entries' = [Entries EXCEPT ![p] = <<Reached.member>>]
  <2>1. \A q \in Property : Entries'[q] = IF q = p THEN <<Reached.member>> ELSE Entries[q]
    BY <1>2, <1>4, <1>7 DEF Entries
  <2>2. Entries' = [q \in Property |-> Entries'[q]] /\ Entries = [q \in Property |-> Entries[q]]
    BY DEF Entries
  <2> QED
    BY <1>3, <2>1, <2>2
<1>9. Meaning!Read(Reached, p)
  BY LoopReads
<1> QED
  BY <1>2, <1>5, <1>6, <1>8, <1>9 DEF Meaning!First

(* A name of another CAN ID is refused.                                     *)
LEMMA ConflictIsTaken ==
  ASSUME MeaningInvariant, MeaningInvariant', addConflict
  PROVE  Meaning!Taken(Reached, NameAdded)
<1> PICK p : p = NameAdded
  OBVIOUS
<1>t. TypeOK
  BY DEF MeaningInvariant, LoaderInvariant
<1>1. /\ Adding /\ adding.id \in Defined /\ NodeOf # NoNode /\ NodeOf.id # adding.id
      /\ NodeOf = property_root[p]
  BY <1>t, LoopStays DEF addConflict, NodeOf
<1>2. p \in Property
  BY <1>1, LoopIsAtPlace
<1>3. Owner[p] # 0 /\ Owner[p] # canid_root[adding.id]
  BY <1>1, <1>2, OwnerMeans
<1>4. Owner[p] \notin {0, Reached.def}
  BY <1>3 DEF Reached
<1>5. Owner' = Owner /\ Entries' = Entries /\ support_property_list' = support_property_list
  BY DEF addConflict, dictionary, Owner, Entries
<1>6. Meaning!Read(Reached, p)
  BY LoopReads
<1> QED
  BY <1>4, <1>5, <1>6 DEF Meaning!Taken

(* A name of the same CAN ID gets a member more: the slot its node points   *)
(* to is the one the member is chained to, and no other slot before the one *)
(* the loop is at changes.                                                  *)
LEMMA ChainIsAgain ==
  ASSUME MeaningInvariant, MeaningInvariant', addToChain
  PROVE  Meaning!Again(Reached, NameAdded)
<1> PICK p : p = NameAdded
  OBVIOUS
<1> PICK id : id = adding.id
  OBVIOUS
<1> PICK i : i = adding.i
  OBVIOUS
<1>i. LoaderInvariant /\ ArraysAreRight /\ TypeOK
  BY DEF MeaningInvariant, LoaderInvariant
<1>1. /\ Adding /\ id \in Defined /\ id \in CanId /\ canid_root' = canid_root
      /\ p \in Property
  BY <1>i, LoopStays, LoopIsAtPlace
<1>2. /\ property_root[p] # NoNode /\ property_root[p].id = id
      /\ property_root' = property_root /\ support_property_list' = support_property_list
      /\ \A j \in CanId : j # id => property'[j] = property[j]
  BY <1>i DEF addToChain, NodeOf, TypeOK
<1>3. PICK n, t, old, new :
        /\ MovedUp(n, adding.maxEntry, i, t, old, new) /\ new = property'[id]
        /\ old = property[id] /\ n \in Nat /\ NameAt(id, old[t].member) = p
  BY <1>i, ChainMovesUp DEF Slots
<1>4. t \in 1..(i - 1) /\ \A s \in 1..(i - 1) : s # t => new[s] = old[s]
  BY <1>3 DEF MovedUp
<1>5. ChainMoved(i, t, old, new)
  <2>1. LastInUse(id) = adding.maxEntry /\ LastSettled(id) = i - 1
    BY DEF LastInUse, LastSettled
  <2>2. InOrder(old, adding.maxEntry, i - 1)
    BY <1>i, <1>1, <1>3, <2>1 DEF ArraysAreRight
  <2> QED
    BY <1>3, <2>2, MovedChains DEF Moved
<1>6. Chain(new[t]) = Append(Chain(old[t]), Reached.member)
  BY <1>3, <1>5 DEF ChainMoved, Reached, Slots
<1>7. property_root[p].slot = t
  <2>1. t \in Settled(id)
    BY <1>4 DEF Settled
  <2> QED
    BY <1>i, <1>1, <1>2, <1>3, <2>1 DEF LoaderInvariant, SlotIsKnown
<1>8. ASSUME NEW q \in Property, property_root[q] # NoNode, q # p
      PROVE  Chain(property[property_root[q].id][property_root[q].slot])'
               = Chain(property[property_root[q].id][property_root[q].slot])
  <2> PICK j : j = property_root[q].id
    OBVIOUS
  <2> PICK s : s = property_root[q].slot
    OBVIOUS
  <2>1. j \in CanId /\ s \in Settled(j) /\ NameAt(j, property[j][s].member) = q
    BY <1>i, <1>8, OwnerIsDefined
  <2>2. property'[j][s] = property[j][s]
    <3>1. CASE j # id
      BY <1>2, <2>1, <3>1
    <3>2. CASE j = id
      <4>1. s \in 1..(i - 1)
        BY <2>1, <3>2 DEF Settled
      <4>2. s # t
        BY <1>3, <1>8, <2>1, <3>2
      <4> QED
        BY <1>3, <1>4, <3>2, <4>1, <4>2
    <3> QED
      BY <3>1, <3>2
  <2> QED
    BY <1>2, <2>2 DEF Chain
<1>9. Entries' = [Entries EXCEPT ![p] = Append(@, Reached.member)]
  <2>1. ASSUME NEW q \in Property
        PROVE  Entries'[q] = IF q = p THEN Append(Entries[p], Reached.member) ELSE Entries[q]
    <3>1. CASE q = p
      <4>1. Entries[p] = Chain(old[t])
        BY <1>1, <1>2, <1>3, <1>7 DEF Entries
      <4>2. Entries'[p] = Chain(new[t])
        BY <1>1, <1>2, <1>3, <1>7 DEF Entries
      <4> QED
        BY <1>6, <3>1, <4>1, <4>2
    <3>2. CASE q # p
      BY <1>2, <1>8, <3>2 DEF Entries
    <3> QED
      BY <3>1, <3>2
  <2>2. Entries' = [q \in Property |-> Entries'[q]] /\ Entries = [q \in Property |-> Entries[q]]
    BY DEF Entries
  <2> QED
    BY <1>1, <2>1, <2>2
<1>10. Owner' = Owner
  BY <1>1, <1>2 DEF Owner
<1>11. Owner[p] = Reached.def
  BY <1>1, <1>2, OwnerMeans DEF Reached
<1>12. Meaning!Read(Reached, p)
  BY LoopReads
<1> QED
  BY <1>2, <1>9, <1>10, <1>11, <1>12 DEF Meaning!Again

(* The end of the loop is the end of the definition.                        *)
LEMMA TimerCloses ==
  ASSUME MeaningInvariant, addSendTimer
  PROVE  \E r \in At : Meaning!Close(r)
<1> PICK id : id = adding.id
  OBVIOUS
<1> PICK k : k = canid_root[id]
  OBVIOUS
<1>i. TypeOK /\ FirstIsTaken /\ RestIsInOrder /\ adding # Idle
  BY DEF MeaningInvariant, LoaderInvariant, addSendTimer, LoopEnds
<1>1. id \in Defined /\ k \in DOMAIN file
  BY <1>i DEF TypeOK, Defined, IsFile
<1>2. PICK n \in Nat : n = Len(file[k].data) /\ DOMAIN file[k].data = 1..n
  BY <1>i, <1>1 DEF TypeOK, IsFile, IsDefinition
<1>3. nData[id] = n
  BY <1>i, <1>2 DEF RestIsInOrder
<1>4. adding.i = adding.maxEntry + 1 /\ adding.maxEntry \in Nat
  BY <1>i DEF TypeOK, addSendTimer, LoopEnds
<1>5. adding.i + (n - adding.maxEntry) = n + 1
  BY <1>4
<1> PICK r : r = [def |-> k, member |-> n + 1]
  OBVIOUS
<1>6. At = {r} /\ r.def = k /\ r.member = n + 1
  BY <1>i, <1>2, <1>5 DEF At
<1>7. /\ Meant[k].id = id /\ Meant[k].isSent = (file[k].kind = "CAN_KIND_SEND")
      /\ DOMAIN Meant[k].names = 1..n
  BY <1>i, <1>1, <1>2 DEF Meant, FirstIsTaken
<1>8. r.member \notin DOMAIN Meant[r.def].names
  BY <1>6, <1>7
<1>9. nData[id] > 0 <=> DOMAIN Meant[r.def].names # {}
  <2>1. DOMAIN Meant[r.def].names = 1..n
    BY <1>6, <1>7
  <2>2. n > 0 => 1 \in 1..n
    OBVIOUS
  <2>3. ~ (n > 0) => 1..n = {}
    OBVIOUS
  <2> QED
    BY <1>3, <2>1, <2>2, <2>3
<1>10. /\ UNCHANGED <<file, next, canid_root, property, property_root, support_property_list>>
       /\ adding' = Idle
       /\ timers' = IF file[k].kind = "CAN_KIND_SEND" /\ nData[id] > 0
                    THEN timers \cup {id} ELSE timers
  BY DEF addSendTimer, LoopEnds
<1>11. At' = {} /\ UNCHANGED <<Meant, next, Defined, Owner, Entries, support_property_list>>
  BY <1>10 DEF At, Meant, Defined, Owner, Entries
<1>12. timers' = IF Meant[r.def].isSent /\ DOMAIN Meant[r.def].names # {}
                 THEN timers \cup {Meant[r.def].id} ELSE timers
  BY <1>6, <1>7, <1>9, <1>10
<1> QED
  BY <1>6, <1>8, <1>11, <1>12 DEF Meaning!Close

(* A definition is left out or opened.                                      *)
LEMMA ParseOpens ==
  ASSUME MeaningInvariant, parse_caninfo
  PROVE  Meaning!LeaveOut \/ Meaning!Open
<1>i. LoaderInvariant /\ TypeOK
  BY DEF MeaningInvariant, LoaderInvariant
<1>1. PICK d, id, n : ComesTo(d, id, n) /\ (Drops(d, id) \/ Takes(d, id, n))
  BY <1>i, ParseDropsOrTakes
<1>2. /\ d = file[next] /\ id = CanIdOf(d.key) /\ id \in CanId /\ n = Len(d.data) /\ n \in Nat
      /\ adding = Idle /\ next \in DOMAIN file /\ file' = file /\ next' = next + 1
      /\ property_root' = property_root /\ support_property_list' = support_property_list
      /\ timers' = timers
  BY <1>1 DEF ComesTo
<1>3. /\ At = {} /\ next \in DOMAIN Meant /\ Meant' = Meant
      /\ Meant[next].isArray = d.dataIsArray /\ Meant[next].id = id
  BY <1>2 DEF At, Meant
<1>4. CASE Drops(d, id)
  <2>1. /\ UNCHANGED <<canid_root, property, adding, Defined>>
        /\ d.dataIsArray => id \in Defined
    BY <1>4 DEF Drops
  <2>2. UNCHANGED <<At, Owner, Entries>>
    BY <1>2, <2>1 DEF At, Owner, Entries
  <2> QED
    BY <1>2, <1>3, <2>1, <2>2 DEF Meaning!LeaveOut
<1>5. CASE Takes(d, id, n)
  <2>1. /\ d.dataIsArray /\ id \notin Defined /\ Defined' = Defined \cup {id}
        /\ canid_root'[id] = next /\ adding' = [id |-> id, i |-> 1, maxEntry |-> n]
        /\ \A j \in Defined : canid_root'[j] = canid_root[j] /\ property'[j] = property[j]
    BY <1>5 DEF Takes
  <2>2. At' = {[def |-> next, member |-> 1]}
    <3>1. adding'.id = id /\ adding'.i = 1 /\ adding'.maxEntry = n /\ adding' # Idle
      BY <1>2, <2>1 DEF Idle, CanId
    <3>2. 1 + (n - n) = 1
      BY <1>2
    <3>3. At' = {[def |-> next, member |-> 1 + (n - n)]}
      BY <1>2, <2>1, <3>1 DEF At
    <3> QED
      BY <3>2, <3>3
  <2>3. \A p \in Property : property_root[p] # NoNode => property_root[p].id \in Defined
    BY <1>i, OwnerIsDefined
  <2>4. Owner' = Owner
    BY <1>2, <2>1, <2>3 DEF Owner
  <2>5. Entries' = Entries
    BY <1>2, <2>1, <2>3 DEF Entries, Chain
  <2> QED
    BY <1>2, <1>3, <2>1, <2>2, <2>4, <2>5 DEF Meaning!Open
<1> QED
  BY <1>1, <1>4, <1>5

(* The definitions are records of CAN IDs and names.                        *)
LEMMA FileIsMeant == ASSUME IsFile(file) PROVE Meant \in Seq(Meaning!Definitions)
<1> PICK n \in Nat : n = Len(file) /\ DOMAIN file = 1..n
  BY DEF IsFile
<1>1. ASSUME NEW k \in 1..n PROVE Meant[k] \in Meaning!Definitions
  <2>1. IsDefinition(file[k])
    BY DEF IsFile
  <2>2. CanIdOf(file[k].key) \in CanId
    BY <2>1, CanIdIsStandard DEF IsDefinition
  <2> PICK names : names = [m \in DOMAIN file[k].data |-> file[k].data[m].name]
    OBVIOUS
  <2>3. names \in Seq(Property)
    <3> PICK l \in Nat : l = Len(file[k].data) /\ DOMAIN file[k].data = 1..l
      BY <2>1 DEF IsDefinition
    <3>1. \A m \in 1..l : file[k].data[m].name \in Property
      BY <2>1 DEF IsDefinition, IsMember
    <3>2. names \in [1..l -> Property]
      BY <3>1
    <3> QED
      BY <3>2
  <2>4. Meant[k] = [id |-> CanIdOf(file[k].key), isSent |-> file[k].kind = "CAN_KIND_SEND",
                    isArray |-> file[k].dataIsArray, names |-> names]
    BY DEF Meant
  <2>5. file[k].dataIsArray \in BOOLEAN
    BY <2>1 DEF IsDefinition
  <2> QED
    BY <2>2, <2>3, <2>4, <2>5 DEF Meaning!Definitions
<1>2. Meant \in [1..n -> Meaning!Definitions]
  BY <1>1 DEF Meant
<1> QED
  BY <1>2

(* The loader implements DefinitionFile: whatever it moves, it comes to     *)
(* every member of the file once and in order, and what it makes of a       *)
(* member depends on the names before it alone.                             *)
THEOREM LoaderImplementsMeaning == Spec => LoadsWhatIsMeant
<1>1. Init => Meaning!Init
  <2> SUFFICES ASSUME Init PROVE Meaning!Init
    OBVIOUS
  <2>1. IsFile(file) /\ next = 1 /\ adding = Idle /\ Defined = {} /\ timers = {}
        /\ support_property_list = << >> /\ property_root = [p \in Property |-> NoNode]
    BY LoaderAssumption DEF Init, Defined
  <2>2. At = {} /\ Owner = [p \in Property |-> 0] /\ Entries = [p \in Property |-> << >>]
    BY <2>1 DEF At, Owner, Entries
  <2> QED
    BY <2>1, <2>2, FileIsMeant DEF Meaning!Init
<1>2. Spec => []MeaningInvariant
  <2>1. Init => RestIsInOrder
    BY DEF Init, RestIsInOrder
  <2>2. Spec => []RestIsInOrder
    BY <2>1, RestStaysInOrder, LoaderIsInvariant, PTL DEF Spec
  <2> QED
    BY <2>2, LoaderIsInvariant, ArraysAreInvariant, FirstIsInvariant, PTL DEF MeaningInvariant
<1>3. MeaningInvariant /\ MeaningInvariant' /\ [Next]_vars => [Meaning!Next]_(Meaning!vars)
  <2> SUFFICES ASSUME MeaningInvariant, MeaningInvariant', [Next]_vars
               PROVE  [Meaning!Next]_(Meaning!vars)
    OBVIOUS
  <2>1. CASE parse_caninfo
    BY <2>1, ParseOpens DEF Meaning!Next
  <2>2. ASSUME addProperty \/ addConflict \/ addToChain
        PROVE  Reached \in At /\ NameAdded \in Property
    <3>1. Adding
      BY <2>2 DEF addProperty, addConflict, addToChain
    <3> QED
      BY <3>1, LoopIsAtPlace
  <2>3. CASE addProperty
    BY <2>2, <2>3, PropertyIsFirst DEF Meaning!Next
  <2>4. CASE addConflict
    BY <2>2, <2>4, ConflictIsTaken DEF Meaning!Next
  <2>5. CASE addToChain
    BY <2>2, <2>5, ChainIsAgain DEF Meaning!Next
  <2>6. CASE addSendTimer
    BY <2>6, TimerCloses DEF Meaning!Next
  <2>7. CASE UNCHANGED vars
    BY <2>7 DEF vars, dictionary, Meaning!vars, Meant, At, Defined, Owner, Entries, Chain
  <2> QED
    BY <2>1, <2>3, <2>4, <2>5, <2>6, <2>7 DEF Next, Done
<1> QED
  BY <1>1, <1>2, <1>3, PTL DEF Spec, LoadsWhatIsMeant, Meaning!Spec
=============================================================================
