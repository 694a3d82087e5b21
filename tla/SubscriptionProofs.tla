------------------------- MODULE SubscriptionProofs -------------------------
(***************************************************************************)
(* The safety of the subscription service, for every value of the          *)
(* constants.  Types, the registry and the filter are inductive one after  *)
(* the other; the feed is inductive on top of them.                        *)
(***************************************************************************)
EXTENDS Subscription, PropertyLemmas

(* The raw numbers of a frame are naturals.                                 *)
LEMMA RawsType ==
  ASSUME NEW p \in Property, NEW raw \in Raws(p)
  PROVE  raw \in [DOMAIN Chain[p] -> Nat]
<1>1. \A i \in DOMAIN Chain[p] : Chain[p][i].mask \in Nat
  BY ConstantAssumption, WidthAssumption DEF IsChain, IsEntry
<1> QED BY <1>1 DEF Raws

(* getSubscribedCanids returns CAN IDs of the dictionary.                   *)
LEMMA SubscribedType ==
  ASSUME NEW events \in SUBSET Property, NEW ids \in SubscribedCanids(events)
  PROVE  ids \subseteq CanId
BY ConstantAssumption DEF SubscribedCanids, IdsOf

(* parse_frame leaves values and applyinfo well typed.                      *)
LEMMA ParseType ==
  ASSUME TypeOK, NEW id \in CanId, NEW f \in Frames(id),
         NEW expired, NEW failed, parse_frame(id, f, expired, failed)
  PROVE  /\ DOMAIN curValue' = Property
         /\ \A p \in Property : curValue'[p] \in [DOMAIN Chain[p] -> Int]
         /\ DOMAIN applyinfo' = Property
         /\ \A p \in Property : applyinfo'[p] \in DOMAIN Chain[p] \cup {0}
<1> DEFINE touched == IF id \in Readonly THEN PropertiesOf(id) ELSE {}
           U(p)    == Updated(p, f, p \in expired)
<1>1. ASSUME NEW p \in PropertiesOf(id)
      PROVE  /\ U(p).cur \in [DOMAIN Chain[p] -> Int]
             /\ U(p).applyinfo \in DOMAIN Chain[p] \cup {0}
  <2>1. p \in Property /\ f[p] \in Raws(p)
    BY DEF Frames, PropertiesOf
  <2>2. f[p] \in [DOMAIN Chain[p] -> Nat]
    BY <2>1, RawsType
  <2>3. IsChain(Chain[p])
    BY <2>1, ConstantAssumption
  <2>4. curValue[p] \in [DOMAIN Chain[p] -> Int] /\ applyinfo[p] \in DOMAIN Chain[p] \cup {0}
    BY <2>1 DEF TypeOK
  <2>5. (p \in expired) \in BOOLEAN
    OBVIOUS
  <2> QED BY <2>2, <2>3, <2>4, <2>5, UpdateType DEF Updated
<1>2. touched \subseteq PropertiesOf(id)
  OBVIOUS
<1>3. /\ curValue' = [p \in Property |-> IF p \in touched THEN U(p).cur ELSE curValue[p]]
      /\ applyinfo' = [p \in Property |-> IF p \in touched THEN U(p).applyinfo
                                                           ELSE applyinfo[p]]
  BY DEF parse_frame
<1> HIDE DEF touched, U
<1> QED BY <1>1, <1>2, <1>3 DEF TypeOK

(* The last frame on the bus is one its properties can be read from.        *)
LEMMA HeardType ==
  ASSUME TypeOK, NEW id, NEW f \in Frames(id), Heard(id, f)
  PROVE  DOMAIN bus' = Property /\ \A p \in Property : bus'[p] # << >> => bus'[p] \in Raws(p)
BY DEF TypeOK, Heard, Frames, PropertiesOf

(* The state of the service stays well typed, for every dictionary, set of  *)
(* clients and pattern of failures of afb.                                  *)
THEOREM TypeCorrect == Spec => []TypeOK
<1>1. Init => TypeOK
  BY DEF Init, TypeOK
<1>2. TypeOK /\ [Next]_vars => TypeOK'
  <2> SUFFICES ASSUME TypeOK, [Next]_vars
               PROVE  TypeOK'
    OBVIOUS
  <2>1. ASSUME NEW c \in Client, subscribe(c)
        PROVE  TypeOK'
    <3>1. PICK r \in Request, made \in SUBSET Property, joined \in SUBSET Property :
            /\ joined \subseteq made
            /\ register_event(made)
            /\ \E ids \in SubscribedCanids(bind_event') : socketcan_update_filter(ids)
            /\ watch' = [p \in Property |-> IF p \in joined THEN watch[p] \cup {c} ELSE watch[p]]
            /\ view' = IF joined = r.names /\ ~r.unknown
                       THEN [view EXCEPT ![c] = [p \in Property |-> IF p \in joined THEN JsonOf(p)
                                                                                    ELSE @[p]]]
                       ELSE view
            /\ UNCHANGED <<curValue, applyinfo, bus, missed>>
      BY <2>1 DEF subscribe
    <3>2. bind_event' \subseteq Property
      BY <3>1 DEF register_event, TypeOK
    <3>3. rfilter' \subseteq CanId \cup {CAN_SFF_MASK}
      BY <3>1, <3>2, SubscribedType DEF socketcan_update_filter, TypeOK
    <3>4. watch' \in [Property -> SUBSET Client]
      BY <3>1 DEF TypeOK
    <3>5. /\ DOMAIN view' = Client
          /\ \A d \in Client, p \in Property : view'[d][p] # << >> => d \in watch'[p]
      BY <3>1 DEF TypeOK
    <3> QED BY <3>1, <3>2, <3>3, <3>4, <3>5 DEF TypeOK
  <2>2. ASSUME NEW c \in Client, NEW names, Leave(c, names)
        PROVE  TypeOK'
    BY <2>2 DEF Leave, registry, values, TypeOK
  <2>3. ASSUME NEW p \in Settable, NEW v \in SetValue, set(p, v)
        PROVE  TypeOK'
    <3>1. p \in Property /\ v \in Nat
      BY ConstantAssumption
    <3>2. 1 \in DOMAIN Chain[p] /\ IsEntry(Chain[p][1])
      BY <3>1, ConstantAssumption DEF IsChain
    <3>3. UpdateValue(Chain[p][1], curValue[p][1], v).value \in Int
      BY <3>1, <3>2, UpdateValueType DEF TypeOK
    <3> QED BY <2>3, <3>1, <3>2, <3>3 DEF set, registry, TypeOK
  <2>4. ASSUME NEW id \in CanId, Receive(id)
        PROVE  TypeOK'
    <3>1. PICK f \in Frames(id), expired \in SUBSET PropertiesOf(id),
               failed \in SUBSET PropertiesOf(id) :
            parse_frame(id, f, expired, failed) /\ Heard(id, f)
      BY <2>4 DEF Receive
    <3>2. bind_event' \subseteq Property
      BY <3>1 DEF parse_frame, notify_property_changed, remove_event, TypeOK
    <3>3. /\ DOMAIN view' = Client
          /\ \A c \in Client, p \in Property : view'[c][p] # << >> => c \in watch'[p]
      BY <3>1 DEF parse_frame, notify_property_changed, Told, TypeOK
    <3>4. UNCHANGED <<rfilter, watch>>
      BY <3>1 DEF parse_frame
    <3>5. missed' \subseteq Property
      BY <3>1 DEF parse_frame, notify_property_changed, Missed, PropertiesOf, TypeOK
    <3> QED BY <3>1, <3>2, <3>3, <3>4, <3>5, ParseType, HeardType DEF TypeOK
  <2>5. ASSUME NEW id \in CanId, FilteredOut(id)
        PROVE  TypeOK'
    <3>1. PICK f \in Frames(id) : Heard(id, f)
      BY <2>5 DEF FilteredOut
    <3>2. UNCHANGED <<bind_event, rfilter, curValue, applyinfo, watch, view, missed>>
      BY <2>5 DEF FilteredOut, registry, values
    <3> QED BY <3>1, <3>2, HeardType DEF TypeOK
  <2>6. CASE UNCHANGED vars
    BY <2>6 DEF vars, TypeOK
  <2> QED
    BY <2>1, <2>2, <2>3, <2>4, <2>5, <2>6 DEF Next, unsubscribe, Disconnect
<1> QED BY <1>1, <1>2, PTL DEF Spec

(* Whatever fails, remove_event never takes an event from a subscribed      *)
(* client.                                                                  *)
THEOREM WatchedStaysRegistered == Spec => []WatchedIsRegistered
<1>1. Init => WatchedIsRegistered
  BY DEF Init, WatchedIsRegistered
<1>2. WatchedIsRegistered /\ [Next]_vars => WatchedIsRegistered'
  <2> SUFFICES ASSUME WatchedIsRegistered, [Next]_vars
               PROVE  WatchedIsRegistered'
    OBVIOUS
  <2>1. ASSUME NEW c \in Client, subscribe(c)
        PROVE  WatchedIsRegistered'
    BY <2>1 DEF subscribe, register_event, WatchedIsRegistered
  <2>2. ASSUME NEW c \in Client, NEW names, Leave(c, names)
        PROVE  WatchedIsRegistered'
    BY <2>2 DEF Leave, registry, WatchedIsRegistered
  <2>3. ASSUME NEW p \in Settable, NEW v \in SetValue, set(p, v)
        PROVE  WatchedIsRegistered'
    BY <2>3 DEF set, registry, WatchedIsRegistered
  <2>4. ASSUME NEW id \in CanId, Receive(id)
        PROVE  WatchedIsRegistered'
    BY <2>4 DEF Receive, parse_frame, notify_property_changed, remove_event, WatchedIsRegistered
  <2>5. ASSUME NEW id \in CanId, FilteredOut(id)
        PROVE  WatchedIsRegistered'
    BY <2>5 DEF FilteredOut, registry, WatchedIsRegistered
  <2>6. CASE UNCHANGED vars
    BY <2>6 DEF vars, WatchedIsRegistered
  <2> QED
    BY <2>1, <2>2, <2>3, <2>4, <2>5, <2>6 DEF Next, unsubscribe, Disconnect
<1> QED BY <1>1, <1>2, PTL DEF Spec

(* When they all fit, getSubscribedCanids returns every CAN ID with an      *)
(* event.                                                                   *)
LEMMA NothingLeftOut ==
  ASSUME FilterFits, NEW events \in SUBSET Property, NEW ids \in SubscribedCanids(events)
  PROVE  ids = IdsOf(events)
<1>1. IdsOf(events) \subseteq IdsOf(Property) /\ ids \subseteq IdsOf(events)
  BY DEF SubscribedCanids, IdsOf
<1>2. /\ IsFiniteSet(IdsOf(events))
      /\ Cardinality(IdsOf(events)) <= Cardinality(IdsOf(Property))
  BY <1>1, FS_Subset DEF FilterFits
<1>3. CASE Cardinality(ids) = SUPPORT_CANID_MAX
  <2>1. /\ Cardinality(ids) <= Cardinality(IdsOf(events))
        /\ Cardinality(IdsOf(events)) = Cardinality(ids) => IdsOf(events) = ids
    BY <1>1, <1>2, FS_Subset
  <2>2. Cardinality(IdsOf(Property)) \in Nat /\ Cardinality(IdsOf(events)) \in Nat
    BY <1>2, FS_CardinalityType DEF FilterFits
  <2>3. SUPPORT_CANID_MAX \in Nat
    BY ConstantAssumption
  <2> QED BY <1>2, <1>3, <2>1, <2>2, <2>3 DEF FilterFits
<1> QED BY <1>3 DEF SubscribedCanids

(* When the CAN IDs of the dictionary fit in subscribed_canids, the frames  *)
(* of every registered event pass the receive filter at all times.          *)
THEOREM FilterStaysWide == FilterFits => (Spec => []FilterCoversEvents)
<1> SUFFICES ASSUME FilterFits
             PROVE  Spec => []FilterCoversEvents
  OBVIOUS
<1>1. Init => FilterCoversEvents
  BY DEF Init, FilterCoversEvents
<1>2. TypeOK /\ FilterCoversEvents /\ [Next]_vars => FilterCoversEvents'
  <2> SUFFICES ASSUME TypeOK, FilterCoversEvents, [Next]_vars
               PROVE  FilterCoversEvents'
    OBVIOUS
  <2>1. ASSUME NEW c \in Client, subscribe(c)
        PROVE  FilterCoversEvents'
    <3>1. PICK made \in SUBSET Property :
            /\ register_event(made)
            /\ \E ids \in SubscribedCanids(bind_event') : socketcan_update_filter(ids)
      BY <2>1 DEF subscribe
    <3>2. bind_event' \in SUBSET Property
      BY <3>1 DEF register_event, TypeOK
    <3>3. socketcan_update_filter(IdsOf(bind_event'))
      BY <3>1, <3>2, NothingLeftOut
    <3> QED BY <3>3 DEF socketcan_update_filter, IdsOf, FilterCoversEvents
  <2>2. ASSUME NEW c \in Client, NEW names, Leave(c, names)
        PROVE  FilterCoversEvents'
    BY <2>2 DEF Leave, registry, FilterCoversEvents
  <2>3. ASSUME NEW p \in Settable, NEW v \in SetValue, set(p, v)
        PROVE  FilterCoversEvents'
    BY <2>3 DEF set, registry, FilterCoversEvents
  <2>4. ASSUME NEW id \in CanId, Receive(id)
        PROVE  FilterCoversEvents'
    BY <2>4 DEF Receive, parse_frame, notify_property_changed, remove_event, FilterCoversEvents
  <2>5. ASSUME NEW id \in CanId, FilteredOut(id)
        PROVE  FilterCoversEvents'
    BY <2>5 DEF FilteredOut, registry, FilterCoversEvents
  <2>6. CASE UNCHANGED vars
    BY <2>6 DEF vars, FilterCoversEvents
  <2> QED
    BY <2>1, <2>2, <2>3, <2>4, <2>5, <2>6 DEF Next, unsubscribe, Disconnect
<1> QED BY <1>1, <1>2, TypeCorrect, PTL DEF Spec

(* When every name is in the list, there are no more CAN IDs with an event  *)
(* than names in the list, and the list is no longer than subscribed_canids.*)
LEMMA ListFits == Listed = Property => FilterFits
<1> SUFFICES ASSUME Listed = Property
             PROVE  FilterFits
  OBVIOUS
<1>1. CanIdOf \in Surjection(Property, IdsOf(Property))
  BY ConstantAssumption DEF Surjection, IdsOf
<1>2. /\ IsFiniteSet(IdsOf(Property))
      /\ Cardinality(IdsOf(Property)) <= Cardinality(Property)
  BY <1>1, FS_Surjection, ConstantAssumption
<1>3. Cardinality(IdsOf(Property)) \in Nat /\ Cardinality(Property) \in Nat
  BY <1>2, FS_CardinalityType, ConstantAssumption
<1> QED BY <1>2, <1>3, ConstantAssumption DEF FilterFits

(* With a dictionary whose names all fit in support_property_list no event  *)
(* is ever without its filter, however many CAN IDs the names are spread    *)
(* over and whatever is subscribed to, "*" or names.                        *)
THEOREM ListedStaysCovered == Listed = Property => (Spec => []FilterCoversEvents)
BY ListFits, FilterStaysWide

-----------------------------------------------------------------------------
(* The three parts of FeedInvariant that are about one property. *)
PropertyInSync(p) ==
  /\ \A c \in Client : c \in watch[p] /\ view[c][p] # << >> /\ p \notin missed
       => view[c][p] = JsonOf(p) \/ Muted(Chain[p], curValue[p], applyinfo[p])
  /\ bus[p] # << >> /\ Speaks(Chain[p], bus[p])
       => JsonOf(p) = Said(Chain[p], bus[p]) /\ ~Muted(Chain[p], curValue[p], applyinfo[p])
  /\ \A i \in DOMAIN Chain[p] : Possible(Chain[p][i], curValue[p][i])

AllInSync == \A p \in Property : CanIdOf[p] \in Readonly => PropertyInSync(p)

(* AllInSync is what the runs check as three parts of FeedInvariant.             *)
LEMMA FeedParts == AllInSync <=> ViewIsCurrent /\ ValueIsOnBus /\ ValuesArePossible
BY DEF AllInSync, PropertyInSync, ViewIsCurrent, ValueIsOnBus, ValuesArePossible

(* The invariant gives the property.                                        *)
LEMMA FeedGivesSync == AllInSync => FeedInSync
BY DEF AllInSync, PropertyInSync, FeedInSync

(* A binder that has just started has told nothing and heard nothing.       *)
LEMMA FeedInit == Init => AllInSync
<1> SUFFICES ASSUME Init, NEW p \in Property
             PROVE  PropertyInSync(p)
  BY DEF AllInSync
<1>1. \A i \in DOMAIN Chain[p] : Possible(Chain[p][i], curValue[p][i])
  BY DEF Init, Possible
<1>2. bus[p] = << >> /\ watch[p] = {}
  BY DEF Init
<1> QED BY <1>1, <1>2 DEF PropertyInSync

(* A subscription tells the current value and changes none.                 *)
LEMMA FeedSubscribe ==
  ASSUME TypeOK, AllInSync, NEW c \in Client, subscribe(c)
  PROVE  AllInSync'
<1> SUFFICES ASSUME NEW p \in Property, CanIdOf[p] \in Readonly
             PROVE  PropertyInSync(p)'
  BY DEF AllInSync
<1>1. PICK r \in Request, joined \in SUBSET Property :
        /\ watch' = [q \in Property |-> IF q \in joined THEN watch[q] \cup {c} ELSE watch[q]]
        /\ view' = IF joined = r.names /\ ~r.unknown
                   THEN [view EXCEPT ![c] = [q \in Property |-> IF q \in joined THEN JsonOf(q)
                                                                                ELSE @[q]]]
                   ELSE view
        /\ UNCHANGED <<curValue, applyinfo, bus, missed>>
  BY DEF subscribe
<1>2. JsonOf(p)' = JsonOf(p)
  BY <1>1 DEF JsonOf
<1>3. ASSUME NEW d \in Client, d \in watch'[p], view'[d][p] # << >>
      PROVE  view'[d][p] = JsonOf(p) \/ (d \in watch[p] /\ view'[d][p] = view[d][p])
  BY <1>1, <1>3 DEF TypeOK
<1> QED BY <1>1, <1>2, <1>3 DEF AllInSync, PropertyInSync

(* A client that leaves is not owed anything.                               *)
LEMMA FeedLeave ==
  ASSUME TypeOK, AllInSync, NEW c \in Client, NEW names, Leave(c, names)
  PROVE  AllInSync'
<1> SUFFICES ASSUME NEW p \in Property, CanIdOf[p] \in Readonly
             PROVE  PropertyInSync(p)'
  BY DEF AllInSync
<1>1. UNCHANGED <<curValue, applyinfo, bus, missed>>
  BY DEF Leave, values
<1>2. JsonOf(p)' = JsonOf(p)
  BY <1>1 DEF JsonOf
<1>3. ASSUME NEW d \in Client, d \in watch'[p], view'[d][p] # << >>
      PROVE  d \in watch[p] /\ view'[d][p] = view[d][p]
  BY <1>3 DEF Leave, TypeOK
<1> QED BY <1>1, <1>2, <1>3 DEF AllInSync, PropertyInSync

(* The verb set only touches properties that are sent.                      *)
LEMMA FeedSet ==
  ASSUME Reliable, TypeOK, AllInSync, NEW q \in Settable, NEW v \in SetValue, set(q, v)
  PROVE  AllInSync'
<1> SUFFICES ASSUME NEW p \in Property, CanIdOf[p] \in Readonly
             PROVE  PropertyInSync(p)'
  BY DEF AllInSync
<1>1. p # q
  BY DEF Reliable
<1>2. UNCHANGED <<applyinfo, watch, view, bus, missed>> /\ curValue'[p] = curValue[p]
  BY <1>1 DEF set, TypeOK
<1>3. JsonOf(p)' = JsonOf(p)
  BY <1>2 DEF JsonOf
<1> QED BY <1>2, <1>3 DEF AllInSync, PropertyInSync

(* A frame that passes the filter: every property of its CAN ID ends at what*)
(* the frame says, and a client that is not told was told the same before.  *)
LEMMA FeedReceive ==
  ASSUME Reliable, TypeOK, WatchedIsRegistered, AllInSync, NEW id \in CanId, Receive(id)
  PROVE  AllInSync'
<1> SUFFICES ASSUME NEW p \in Property, CanIdOf[p] \in Readonly
             PROVE  PropertyInSync(p)'
  BY DEF AllInSync
<1>1. PICK f \in Frames(id), expired \in SUBSET PropertiesOf(id),
           failed \in SUBSET PropertiesOf(id) :
        parse_frame(id, f, expired, failed) /\ Heard(id, f)
  BY DEF Receive
<1>2. watch' = watch
  BY <1>1 DEF parse_frame
<1>3. CASE CanIdOf[p] # id
  <2>1. p \notin PropertiesOf(id)
    BY <1>3 DEF PropertiesOf
  <2>2. curValue'[p] = curValue[p] /\ applyinfo'[p] = applyinfo[p]
    BY <1>1, <2>1 DEF parse_frame
  <2>3. \A c \in Client : view'[c][p] = view[c][p]
    BY <1>1, <2>1 DEF parse_frame, notify_property_changed, Told
  <2>4. bus'[p] = << >> \/ bus'[p] = bus[p]
    BY <1>1, <1>3 DEF Heard
  <2>5. JsonOf(p)' = JsonOf(p)
    BY <2>2 DEF JsonOf
  <2>6. p \in missed' <=> p \in missed
    BY <1>1, <2>1 DEF parse_frame, notify_property_changed, Missed
  <2> QED BY <1>2, <2>2, <2>3, <2>4, <2>5, <2>6 DEF AllInSync, PropertyInSync
<1>4. CASE CanIdOf[p] = id
  <2> DEFINE u == Updated(p, f, p \in expired)
  <2>1. p \in PropertiesOf(id) /\ id \in Readonly
    BY <1>4 DEF PropertiesOf
  <2>2. curValue'[p] = u.cur /\ applyinfo'[p] = u.applyinfo
    BY <1>1, <2>1 DEF parse_frame
  <2>3. \A i \in DOMAIN Chain[p] : f[p][i] \in 0..Chain[p][i].mask
    BY <2>1 DEF Frames, Raws
  <2>4. UpdateIsSound(Chain[p], curValue[p], f[p], applyinfo[p], u)
    <3>1. IsChain(Chain[p]) /\ Faithful(Chain[p])
      BY ConstantAssumption DEF Reliable
    <3>2. \A i \in DOMAIN Chain[p] : Possible(Chain[p][i], curValue[p][i])
      BY DEF AllInSync, PropertyInSync
    <3>3. applyinfo[p] \in DOMAIN Chain[p] \cup {0} /\ (p \in expired) \in BOOLEAN
      BY DEF TypeOK
    <3> QED BY <2>3, <3>1, <3>2, <3>3, UpdateIsSoundForAll DEF Updated
  <2>5. JsonOf(p)' = property2json(Chain[p], u.cur, u.applyinfo)
    BY <2>2 DEF JsonOf
  <2>6. JsonOf(p) = property2json(Chain[p], curValue[p], applyinfo[p])
    BY DEF JsonOf
  <2>7. ASSUME NEW c \in Client, c \in watch[p], p \notin missed'
        PROVE  IF u.notify THEN view'[c][p] = JsonOf(p)'
                           ELSE view'[c][p] = view[c][p] /\ p \notin missed
    <3>1. p \in bind_event
      BY <2>7 DEF WatchedIsRegistered
    <3>2. property2json(Chain[p], curValue'[p], applyinfo'[p]) = JsonOf(p)'
      BY DEF JsonOf
    <3> DEFINE updated  == [q \in PropertiesOf(id) |-> Updated(q, f, q \in expired)]
               notified == {q \in PropertiesOf(id) : updated[q].notify}
    <3>3. notify_property_changed(notified, failed)
      BY <1>1, <2>1 DEF parse_frame
    <3>4. p \in notified <=> u.notify
      BY <2>1
    <3> HIDE DEF u, notified
    <3>5. u.notify => p \notin failed
      BY <2>7, <3>1, <3>3, <3>4 DEF notify_property_changed, Missed
    <3>6. view'[c][p] = IF u.notify THEN JsonOf(p)' ELSE view[c][p]
      BY <2>7, <3>1, <3>2, <3>3, <3>4, <3>5 DEF notify_property_changed, Told
    <3>7. ~u.notify => p \notin missed
      BY <2>7, <3>3, <3>4 DEF notify_property_changed, Missed
    <3> QED BY <3>6, <3>7
  <2>8. bus'[p] = << >> \/ bus'[p] = f[p]
    BY <1>1, <1>4 DEF Heard
  <2> HIDE DEF u
  <2>9. PropertyInSync(p)
    BY DEF AllInSync
  <2>10. ASSUME NEW c \in Client, c \in watch'[p], view'[c][p] # << >>, p \notin missed'
         PROVE  view'[c][p] = JsonOf(p)' \/ Muted(Chain[p], curValue'[p], applyinfo'[p])
    <3>1. CASE u.notify
      BY <1>2, <2>7, <2>10, <3>1
    <3>2. CASE ~u.notify
      <4>1. view'[c][p] = view[c][p]
        BY <1>2, <2>7, <2>10, <3>2
      <4>2. view[c][p] = JsonOf(p) \/ Muted(Chain[p], curValue[p], applyinfo[p])
        BY <1>2, <2>7, <2>9, <2>10, <3>2, <4>1 DEF PropertyInSync
      <4> QED BY <2>2, <2>4, <2>5, <2>6, <3>2, <4>1, <4>2 DEF UpdateIsSound
    <3> QED BY <3>1, <3>2
  <2>11. ASSUME bus'[p] # << >>, Speaks(Chain[p], bus'[p])
         PROVE  /\ JsonOf(p)' = Said(Chain[p], bus'[p])
                /\ ~Muted(Chain[p], curValue'[p], applyinfo'[p])
    BY <2>2, <2>4, <2>5, <2>8, <2>11 DEF UpdateIsSound
  <2>12. \A i \in DOMAIN Chain[p] : Possible(Chain[p][i], curValue'[p][i])
    BY <2>2, <2>4 DEF UpdateIsSound
  <2> QED BY <2>10, <2>11, <2>12 DEF PropertyInSync
<1> QED BY <1>3, <1>4

(* A frame that the filter keeps out belongs to no registered event.        *)
LEMMA FeedFilteredOut ==
  ASSUME FilterCoversEvents, AllInSync, NEW id \in CanId, FilteredOut(id)
  PROVE  AllInSync'
<1> SUFFICES ASSUME NEW p \in Property, CanIdOf[p] \in Readonly
             PROVE  PropertyInSync(p)'
  BY DEF AllInSync
<1>1. UNCHANGED <<bind_event, curValue, applyinfo, watch, view, missed>> /\ id \notin rfilter
  BY DEF FilteredOut, registry, values
<1>2. bus'[p] = << >> \/ bus'[p] = bus[p]
  BY <1>1 DEF FilteredOut, Heard, FilterCoversEvents
<1>3. JsonOf(p)' = JsonOf(p)
  BY <1>1 DEF JsonOf
<1> QED BY <1>1, <1>2, <1>3 DEF AllInSync, PropertyInSync

(* The invariant the runs check holds for every value of the constants,     *)
(* under the conditions Reliable names.                                     *)
THEOREM FeedInvariantHolds == Reliable => (Spec => []FeedInvariant)
<1> SUFFICES ASSUME Reliable
             PROVE  Spec => []FeedInvariant
  OBVIOUS
<1>1. TypeOK /\ WatchedIsRegistered /\ FilterCoversEvents /\ AllInSync /\ [Next]_vars => AllInSync'
  <2> SUFFICES ASSUME TypeOK, WatchedIsRegistered, FilterCoversEvents, AllInSync, [Next]_vars
               PROVE  AllInSync'
    OBVIOUS
  <2>1. ASSUME UNCHANGED vars
        PROVE  AllInSync'
    BY <2>1 DEF vars, AllInSync, PropertyInSync, JsonOf
  <2> QED
    BY <2>1, FeedSubscribe, FeedLeave, FeedSet, FeedReceive, FeedFilteredOut
    DEF Next, unsubscribe, Disconnect
<1>2. FilterFits
  BY DEF Reliable
<1>3. TypeOK /\ WatchedIsRegistered /\ FilterCoversEvents /\ AllInSync => FeedInvariant
  BY FeedParts DEF FeedInvariant
<1> QED
  BY <1>1, <1>2, <1>3, FeedInit, TypeCorrect, WatchedStaysRegistered, FilterStaysWide,
     PTL DEF Spec

(* End to end and for every value of the constants: what a subscribed client*)
(* was last told is what the last frame on the bus says, from parse_frame to*)
(* afb_event_push, under the conditions Reliable names.                     *)
THEOREM FeedStaysInSync == Reliable => (Spec => []FeedInSync)
<1>1. FeedInvariant => FeedInSync
  BY FeedParts, FeedGivesSync DEF FeedInvariant
<1> QED BY <1>1, FeedInvariantHolds, PTL

(* After a frame was read a client that had been told something still has.  *)
LEMMA ToldStaysTold ==
  ASSUME TypeOK, NEW id \in CanId, Receive(id), NEW p \in Property, NEW c \in Client,
         view[c][p] # << >>
  PROVE  view'[c][p] # << >>
<1>1. PICK pushed : view' = Told(pushed)
  <2>1. PICK f, expired, failed : parse_frame(id, f, expired, failed)
    BY DEF Receive
  <2>2. PICK notified : notify_property_changed(notified, failed)
    BY <2>1 DEF parse_frame
  <2> QED BY <2>2 DEF notify_property_changed
<1>2. \A chain, cur, apply : property2json(chain, cur, apply) # << >>
  BY DEF property2json, ValueJson
<1> QED BY <1>1, <1>2 DEF Told

(* A client that a frame is not pushed to knows what it says: the claim of  *)
(* "same data in thinout_cycle", from the invariant before and after the    *)
(* frame.                                                                   *)
THEOREM IgnoredStaysSame == Reliable => (Spec => IgnoredIsSame)
<1>1. FeedInvariant /\ FeedInvariant' /\ [Next]_vars =>
        [\A p \in Received, c \in Client :
           /\ c \in watch[p] /\ p \notin missed' /\ view[c][p] # << >>
           /\ bus'[p] # << >> /\ Speaks(Chain[p], bus'[p])
           /\ view'[c][p] # Said(Chain[p], bus'[p])
           => ~Receive(CanIdOf[p])]_vars
  <2> SUFFICES ASSUME FeedInvariant, FeedInvariant',
                      NEW p \in Received, NEW c \in Client, Receive(CanIdOf[p]),
                      c \in watch[p], p \notin missed', view[c][p] # << >>,
                      bus'[p] # << >>, Speaks(Chain[p], bus'[p])
               PROVE  view'[c][p] = Said(Chain[p], bus'[p])
    OBVIOUS
  <2>1. TypeOK /\ FeedInSync'
    BY FeedParts, FeedGivesSync, PTL DEF FeedInvariant
  <2>2. p \in Property /\ CanIdOf[p] \in Readonly /\ CanIdOf[p] \in CanId
    BY ConstantAssumption DEF Received
  <2>3. c \in watch'[p]
    BY DEF Receive, parse_frame
  <2>4. view'[c][p] # << >>
    BY <2>1, <2>2, ToldStaysTold
  <2> QED BY <2>1, <2>2, <2>3, <2>4 DEF FeedInSync
<1> QED BY <1>1, FeedInvariantHolds, PTL DEF Spec, IgnoredIsSame

-----------------------------------------------------------------------------
(* The subscription service implements PropertyFeed, once for each received *)
(* property.  Each action of Subscription is mapped to one action of        *)
(* PropertyFeed: subscribe to Join, unsubscribe and Disconnect to Leave, a  *)
(* frame to Push, Ignore or Miss.                                           *)

(* A binder that has just started is a feed that has just started.          *)
LEMMA FeedInitial == ASSUME Init, NEW p \in Received PROVE Feed(p)!Init
BY DEF Init, Received, SaidOf, Feed!Init

(* A subscription is a Join of every property it names.                     *)
LEMMA FeedJoin ==
  ASSUME TypeOK, AllInSync, NEW c \in Client, subscribe(c), NEW p \in Received
  PROVE  [Feed(p)!Next]_(Feed(p)!vars)
<1>1. PICK r \in Request, joined \in SUBSET Property :
        /\ watch' = [q \in Property |-> IF q \in joined THEN watch[q] \cup {c} ELSE watch[q]]
        /\ view' = IF joined = r.names /\ ~r.unknown
                   THEN [view EXCEPT ![c] = [q \in Property |-> IF q \in joined THEN JsonOf(q)
                                                                                ELSE @[q]]]
                   ELSE view
        /\ UNCHANGED <<curValue, applyinfo, bus, missed>>
  BY DEF subscribe
<1>2. p \in Property /\ CanIdOf[p] \in Readonly /\ PropertyInSync(p)
  BY DEF Received, AllInSync
<1>3. SaidOf(p)' = SaidOf(p) /\ (p \in missed)' = (p \in missed)
  BY <1>1 DEF SaidOf
<1>4. SaidOf(p) # << >> => SaidOf(p) = JsonOf(p)
  BY <1>2 DEF SaidOf, PropertyInSync
<1>5. CASE p \in joined
  <2>1. watch'[p] = watch[p] \cup {c}
    BY <1>1, <1>2, <1>5
  <2>2. \A d \in Client : d # c => view'[d][p] = view[d][p]
    BY <1>1, <1>2 DEF TypeOK
  <2>3. view'[c][p] \in {view[c][p], JsonOf(p)}
    BY <1>1, <1>2, <1>5 DEF TypeOK
  <2>4. Feed(p)!Join(c)
    BY <1>3, <1>4, <2>1, <2>2, <2>3 DEF Feed!Join
  <2> QED BY <2>4 DEF Feed!Next
<1>6. CASE p \notin joined
  <2>1. watch'[p] = watch[p] /\ \A d \in Client : view'[d][p] = view[d][p]
    BY <1>1, <1>2, <1>6 DEF TypeOK
  <2> QED BY <1>3, <2>1 DEF Feed!vars
<1> QED BY <1>5, <1>6

(* A client that unsubscribes or disconnects leaves the feeds it names.     *)
LEMMA FeedLeft ==
  ASSUME TypeOK, NEW c \in Client, NEW names, Leave(c, names), NEW p \in Received
  PROVE  [Feed(p)!Next]_(Feed(p)!vars)
<1>1. p \in Property /\ SaidOf(p)' = SaidOf(p) /\ (p \in missed)' = (p \in missed)
  BY DEF Leave, Received, SaidOf
<1>2. \A d \in Client : d # c => view'[d][p] = view[d][p]
  BY <1>1 DEF Leave, TypeOK
<1>3. CASE p \in names
  <2>1. watch'[p] = watch[p] \ {c} /\ view'[c][p] = << >>
    BY <1>1, <1>3 DEF Leave, TypeOK
  <2>2. Feed(p)!Leave(c)
    BY <1>1, <1>2, <2>1 DEF Feed!Leave
  <2> QED BY <2>2 DEF Feed!Next
<1>4. CASE p \notin names
  <2>1. watch'[p] = watch[p] /\ \A d \in Client : view'[d][p] = view[d][p]
    BY <1>1, <1>4 DEF Leave, TypeOK
  <2> QED BY <1>1, <2>1 DEF Feed!vars
<1> QED BY <1>3, <1>4

(* The verb set changes nothing that a feed is about.                       *)
LEMMA FeedUntouched ==
  ASSUME NEW q, NEW v, set(q, v), NEW p \in Received
  PROVE  [Feed(p)!Next]_(Feed(p)!vars)
<1>1. SaidOf(p)' = SaidOf(p) /\ UNCHANGED <<watch, view, missed>>
  BY DEF set, SaidOf
<1> QED BY <1>1 DEF Feed!vars

(* Once a frame was handled and p was not pushed, its subscribers know what *)
(* the frame says or a push is still to be made up for.                     *)
LEMMA FeedIgnored ==
  ASSUME NEW p \in Received, AllInSync',
         watch'[p] = watch[p], \A c \in Client : view'[c][p] = view[c][p],
         watch[p] \subseteq Client, (p \in missed') <=> (p \in missed)
  PROVE  Feed(p)!Ignore
<1>1. (p \in missed)' = (p \in missed)
  OBVIOUS
<1>2. p \in Property /\ CanIdOf[p] \in Readonly
  BY DEF Received
<1>3. PropertyInSync(p)'
  BY <1>2 DEF AllInSync
<1>4. ASSUME p \notin missed, SaidOf(p)' # << >>, NEW c \in watch[p]
      PROVE  view[c][p] \in {<< >>, SaidOf(p)'}
  BY <1>1, <1>3, <1>4 DEF PropertyInSync, SaidOf
<1>5. p \in missed \/ Feed(p)!Known(SaidOf(p)')
  BY <1>4 DEF Feed!Known
<1> QED BY <1>1, <1>5 DEF Feed!Ignore

(* A frame that passes the filter is a Push, a Miss or an Ignore.           *)
LEMMA FeedFrame ==
  ASSUME TypeOK, AllInSync', NEW id \in CanId, Receive(id), NEW p \in Received
  PROVE  [Feed(p)!Next]_(Feed(p)!vars)
<1>1. PICK f \in Frames(id), expired \in SUBSET PropertiesOf(id),
           failed \in SUBSET PropertiesOf(id) : parse_frame(id, f, expired, failed)
  BY DEF Receive
<1>2. PICK notified : notify_property_changed(notified, failed)
  BY <1>1 DEF parse_frame
<1> DEFINE found  == notified \cap bind_event
           pushed == found \ failed
<1>3. view' = Told(pushed) /\ missed' = (missed \ found) \cup (found \cap failed)
  BY <1>2 DEF notify_property_changed, Missed
<1>4. p \in Property /\ CanIdOf[p] \in Readonly /\ watch' = watch /\ watch[p] \subseteq Client
  BY <1>1 DEF Received, parse_frame, TypeOK
<1>5. PropertyInSync(p)'
  BY <1>4 DEF AllInSync
<1>6. \A c \in Client : view'[c][p] = IF p \in pushed /\ c \in watch[p] THEN JsonOf(p)'
                                                                       ELSE view[c][p]
  BY <1>3, <1>4 DEF Told, JsonOf
<1>7. p \in pushed => p \notin missed'
  BY <1>3
<1>8. p \in found /\ p \notin pushed => p \in missed'
  BY <1>3
<1>9. p \notin found => (p \notin pushed /\ (p \in missed' <=> p \in missed))
  BY <1>3
<1> HIDE DEF found, pushed
<1>10. CASE p \in pushed
  <2>1. SaidOf(p)' # << >> => JsonOf(p)' = SaidOf(p)'
    BY <1>5 DEF PropertyInSync, SaidOf
  <2>2. Feed(p)!Push
    BY <1>4, <1>6, <1>7, <1>10, <2>1 DEF Feed!Push
  <2> QED BY <2>2 DEF Feed!Next
<1>11. CASE p \in found /\ p \notin pushed
  <2>1. Feed(p)!Miss
    BY <1>4, <1>6, <1>8, <1>11 DEF Feed!Miss
  <2> QED BY <2>1 DEF Feed!Next
<1>12. CASE p \notin found
  <2>1. Feed(p)!Ignore
    BY <1>4, <1>6, <1>9, <1>12, FeedIgnored
  <2> QED BY <2>1 DEF Feed!Next
<1> QED BY <1>10, <1>11, <1>12

(* A frame that the filter keeps out is an Ignore.                          *)
LEMMA FeedUnheard ==
  ASSUME TypeOK, AllInSync', NEW id \in CanId, FilteredOut(id), NEW p \in Received
  PROVE  [Feed(p)!Next]_(Feed(p)!vars)
<1>1. UNCHANGED <<watch, view, missed>> /\ watch[p] \subseteq Client
  BY DEF FilteredOut, Received, TypeOK
<1>2. Feed(p)!Ignore
  BY <1>1, FeedIgnored
<1> QED BY <1>2 DEF Feed!Next

(* Every step of the service is a step of each feed, or none of its.        *)
LEMMA FeedStep ==
  ASSUME Reliable, FeedInvariant, FeedInvariant', [Next]_vars, NEW p \in Received
  PROVE  [Feed(p)!Next]_(Feed(p)!vars)
<1>1. TypeOK /\ AllInSync /\ AllInSync'
  BY FeedParts, PTL DEF FeedInvariant
<1>2. CASE UNCHANGED vars
  BY <1>2 DEF vars, SaidOf, Feed!vars
<1> QED
  BY <1>1, <1>2, FeedJoin, FeedLeft, FeedUntouched, FeedFrame, FeedUnheard
  DEF Next, unsubscribe, Disconnect

(* The binder gives the clients of every received property the feed that    *)
(* PropertyFeed promises, whatever fails: the registry, the filter, the     *)
(* conversion, the change detection and the thinning do not show.           *)
THEOREM ServiceImplementsFeed == Reliable => (Spec => ServesFeeds)
<1> SUFFICES ASSUME Reliable
             PROVE  Spec => ServesFeeds
  OBVIOUS
<1>1. Init => \A p \in Received : Feed(p)!Init
  BY FeedInitial
<1>2. FeedInvariant /\ FeedInvariant' /\ [Next]_vars
        => [\A p \in Received : [Feed(p)!Next]_(Feed(p)!vars)]_vars
  BY FeedStep
<1> QED BY <1>1, <1>2, FeedInvariantHolds, PTL DEF Spec, ServesFeeds
=============================================================================
