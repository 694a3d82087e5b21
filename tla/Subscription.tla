---------------------------- MODULE Subscription ----------------------------
(***************************************************************************)
(* The subscription service of the binder: the verbs subscribe,            *)
(* unsubscribe and set (af-canivi-binding.c), the registry of events       *)
(* (bind_event.c), the receive filter of the CAN socket (socketcan_raw.c)  *)
(* and the path of a received frame from parse_frame to afb_event_push     *)
(* (can_signal_event.c).                                                   *)
(*                                                                         *)
(* afb-daemon runs one callback at a time here, so a verb or one frame is  *)
(* one step.  The state is that of a binder whose afbBindingV1ServiceInit  *)
(* succeeded, with a dictionary in which no definition was refused: a name *)
(* that the file gives to two CAN IDs leaves a slot under the second that  *)
(* is pushed with the event of the first, which is not modelled.           *)
(* The frame buffer and the send timer of a CAN ID are not in this module. *)
(***************************************************************************)
EXTENDS PropertyUpdate

CONSTANTS
  Client,              \* the sessions that call the verbs
  Property,            \* the names in property_root
  CanId,               \* the CAN IDs in canid_root
  CanIdOf,             \* mycanid of the property with a name
  Readonly,            \* the CAN IDs of kind CAN_KIND_READONLY (RECEPTION)
  Chain,               \* the entries of the property with a name
  Unthinned,           \* the CAN IDs with cycle 0 (CAN_THINOUT_NON)
  Listed,              \* the names in support_property_list, what "*" stands for
  SUPPORT_PROPERTY_LIMIT, \* the capacity of support_property_list
  SUPPORT_CANID_MAX,   \* the capacity of subscribed_canids
  CAN_SFF_MASK,        \* the one CAN ID the filter lets in before any subscription
  Settable,            \* the names clients pass to the verb set
  SetValue,            \* the numbers they pass
  AfbSubscribeFails,   \* whether making or subscribing an afb event may fail
  AfbPushFails         \* whether afb_event_push may report an error

ASSUME ConstantAssumption ==
  /\ CanIdOf \in [Property -> CanId]
  /\ Readonly \subseteq CanId
  /\ Unthinned \subseteq CanId
  /\ \A p \in Property : IsChain(Chain[p])
  /\ Listed \subseteq Property /\ IsFiniteSet(Listed)
  /\ SUPPORT_PROPERTY_LIMIT \in Nat /\ Cardinality(Listed) <= SUPPORT_PROPERTY_LIMIT
  /\ Listed = Property \/ Cardinality(Listed) = SUPPORT_PROPERTY_LIMIT
  /\ SUPPORT_CANID_MAX \in Nat \ {0} /\ SUPPORT_PROPERTY_LIMIT <= SUPPORT_CANID_MAX
  /\ Settable \subseteq Property
  /\ SetValue \subseteq Nat
  /\ AfbSubscribeFails \in BOOLEAN
  /\ AfbPushFails \in BOOLEAN

VARIABLES
  bind_event,  \* the names with a node in bind_event_root
  rfilter,     \* the CAN IDs the socket's receive filter lets in
  curValue,    \* curValue[p][i]: the value of entry i of property p
  applyinfo,   \* applyinfo[p]: the entry of p that applied last, 0 for NULL
  watch,       \* watch[p]: the clients afb has subscribed to the event of p
  view,        \* view[c][p]: what client c was last told of p, << >> if nothing
  bus,         \* bus[p]: the raw numbers of p in the last frame its CAN ID had
               \* on the bus while p had an event, << >> if there was none
  missed       \* the names whose last push afb reported as an error

registry == <<bind_event, rfilter>>
values   == <<curValue, applyinfo>>
vars     == <<bind_event, rfilter, curValue, applyinfo, watch, view, bus, missed>>

-----------------------------------------------------------------------------
(* The raw numbers a frame can carry for p. *)
Raws(p) ==
  {raw \in [DOMAIN Chain[p] -> UNION {0..Chain[p][i].mask : i \in DOMAIN Chain[p]}] :
     \A i \in DOMAIN raw : raw[i] \in 0..Chain[p][i].mask}

(* The properties of a CAN ID, and what one frame with that ID can say. *)
PropertiesOf(id) == {p \in Property : CanIdOf[p] = id}

Frames(id) == {f \in [PropertiesOf(id) -> UNION {Raws(p) : p \in PropertiesOf(id)}] :
                 \A p \in PropertiesOf(id) : f[p] \in Raws(p)}

JsonOf(p) == property2json(Chain[p], curValue[p], applyinfo[p])

IdsOf(names) == {CanIdOf[p] : p \in names}

(* The properties whose values come from the bus. *)
Received == {p \in Property : CanIdOf[p] \in Readonly}

-----------------------------------------------------------------------------
Init ==
  /\ bind_event = {}
  /\ rfilter = {CAN_SFF_MASK}
  /\ curValue = [p \in Property |-> [i \in DOMAIN Chain[p] |-> 0]]
  /\ applyinfo = [p \in Property |-> 0]
  /\ watch = [p \in Property |-> {}]
  /\ view = [c \in Client |-> [p \in Property |-> << >>]]
  /\ bus = [p \in Property |-> << >>]
  /\ missed = {}

(* register_event for the names in made: each gets a node and an afb event. *)
register_event(made) == bind_event' = bind_event \cup made

(* remove_event for the names in dropped. *)
remove_event(dropped) == bind_event' = bind_event \ dropped

(* getSubscribedCanids: the CAN IDs of the registered events, or, when they *)
(* are too many for subscribed_canids, those the walk of the tree met first. *)
SubscribedCanids(events) ==
  {ids \in SUBSET IdsOf(events) :
     /\ Cardinality(ids) <= SUPPORT_CANID_MAX
     /\ ids = IdsOf(events) \/ Cardinality(ids) = SUPPORT_CANID_MAX}

(* Mutant: only the first subscription sets the filter. *)
FilterSetOnce(ids) == rfilter' = IF rfilter = {CAN_SFF_MASK} /\ ids # {} THEN ids ELSE rfilter

(* socketcan_update_filter: without any CAN ID the filter stays as it is. *)
socketcan_update_filter(ids) == rfilter' = IF ids = {} THEN rfilter ELSE ids

(* The names a subscribe request stands for, and whether it also names a    *)
(* property the dictionary does not have.                                   *)
Request == {[names |-> {p}, unknown |-> FALSE] : p \in Property}
             \cup {[names |-> Listed, unknown |-> FALSE],
                   [names |-> {},     unknown |-> TRUE]}

(* subscribe: register the events that are missing, have afb subscribe the *)
(* client to each, refresh the filter, and answer with the current values, *)
(* or with an error when any of it failed.  made are the names that have   *)
(* an event afterwards, joined those the client is subscribed to.          *)
subscribe(c) ==
  \E r \in Request, made, joined \in SUBSET Property :
    /\ r.names \cap bind_event \subseteq made /\ made \subseteq r.names
    /\ joined \subseteq made
    /\ ~AfbSubscribeFails => joined = r.names
    /\ register_event(made)
    /\ \E ids \in SubscribedCanids(bind_event') : socketcan_update_filter(ids)
    /\ watch' = [p \in Property |-> IF p \in joined THEN watch[p] \cup {c} ELSE watch[p]]
    /\ view' = IF joined = r.names /\ ~r.unknown
               THEN [view EXCEPT ![c] = [p \in Property |-> IF p \in joined THEN JsonOf(p)
                                                                            ELSE @[p]]]
               ELSE view
    /\ UNCHANGED <<curValue, applyinfo, bus, missed>>

(* afb stops sending the events of some names to a client. *)
Leave(c, names) ==
  /\ watch' = [p \in Property |-> IF p \in names THEN watch[p] \ {c} ELSE watch[p]]
  /\ view' = [view EXCEPT ![c] = [p \in Property |-> IF p \in names THEN << >> ELSE @[p]]]
  /\ UNCHANGED <<registry, values, bus, missed>>

(* unsubscribe, of one name, an array of names or, without an "event"       *)
(* argument or with "*", all of Listed: only names with an event reach afb, *)
(* which may refuse; the event stays registered and the filter unchanged.   *)
unsubscribe(c) ==
  \E names \in SUBSET bind_event :
    /\ \E p \in names : c \in watch[p]
    /\ Leave(c, names)

(* afb forgets a client whose session ends. *)
Disconnect(c) ==
  /\ \E p \in Property : c \in watch[p]
  /\ Leave(c, Property)

(* set, its effect on the property: property2canframe stores the value in   *)
(* the entry the dictionary has, whatever the kind of its CAN ID, and does  *)
(* not notify anyone.                                                       *)
set(p, v) ==
  /\ curValue' = [curValue EXCEPT ![p][1] = UpdateValue(Chain[p][1], @, v).value]
  /\ UNCHANGED <<registry, applyinfo, watch, view, bus, missed>>

-----------------------------------------------------------------------------
(* What becomes of property p when a frame with raw numbers f is parsed. *)
Updated(p, f, expired) ==
  update_iviproperty(Chain[p], curValue[p], f[p], applyinfo[p], expired)

(* What the clients have been told after the names in pushed were pushed. *)
Told(pushed) ==
  [c \in Client |-> [p \in Property |->
     IF p \in pushed /\ c \in watch[p]
     THEN property2json(Chain[p], curValue'[p], applyinfo'[p])
     ELSE view[c][p]]]

(* What is left to be made up for after the names in found were pushed. *)
Missed(found, failed) == missed' = (missed \ found) \cup (found \cap failed)

(* Mutants: the push is a broadcast to all clients; a push that afb reports *)
(* as an error also drops the event; nothing drops an event.                *)
NotifyBroadcasts(notified, failed) ==
  LET found == notified \cap bind_event
  IN  /\ remove_event({p \in found \ failed : watch[p] = {}})
      /\ view' = [c \in Client |-> [p \in Property |->
                     IF p \in found \ failed
                     THEN property2json(Chain[p], curValue'[p], applyinfo'[p])
                     ELSE view[c][p]]]
      /\ Missed(found, failed)
NotifyDropsOnError(notified, failed) ==
  LET found == notified \cap bind_event
  IN  /\ remove_event({p \in found : watch[p] = {} \/ p \in failed})
      /\ view' = Told(found \ failed)
      /\ Missed(found, failed)
NotifyNeverDrops(notified, failed) ==
  LET found == notified \cap bind_event
  IN  /\ remove_event({})
      /\ view' = Told(found \ failed)
      /\ Missed(found, failed)

(* notify_property_changed for the names in notified: get_event finds those *)
(* with an event, afb pushes the value to every client of the event, and an *)
(* event that reaches no client is dropped and removed from the registry.   *)
(* failed are the pushes that afb reports as an error.                      *)
notify_property_changed(notified, failed) ==
  LET found  == notified \cap bind_event
      pushed == found \ failed
  IN  /\ remove_event({p \in pushed : watch[p] = {}})
      /\ view' = Told(pushed)
      /\ Missed(found, failed)

(* parse_frame: every property of the CAN ID is updated and, if need be,    *)
(* notified.  expired says whether the thin-out cycle of a property is      *)
(* over; with cycle 0 it always is.  A frame of a CAN ID that the binder    *)
(* only sends changes no property.                                          *)
parse_frame(id, f, expired, failed) ==
  LET touched  == IF id \in Readonly THEN PropertiesOf(id) ELSE {}
      updated  == [p \in touched |-> Updated(p, f, p \in expired)]
      notified == {p \in touched : updated[p].notify}
  IN  /\ curValue' = [p \in Property |-> IF p \in touched THEN updated[p].cur
                                                          ELSE curValue[p]]
      /\ applyinfo' = [p \in Property |-> IF p \in touched THEN updated[p].applyinfo
                                                           ELSE applyinfo[p]]
      /\ notify_property_changed(notified, failed)
      /\ UNCHANGED <<rfilter, watch>>

(* A frame f with CAN ID id on the bus: the kernel gives it to the binder   *)
(* when the filter lets it in.                                              *)
Heard(id, f) ==
  bus' = [p \in Property |-> IF p \notin bind_event' THEN << >>
                             ELSE IF CanIdOf[p] = id THEN f[p]
                             ELSE bus[p]]

Receive(id) ==
  /\ id \in rfilter
  /\ \E f \in Frames(id), expired, failed \in SUBSET PropertiesOf(id) :
       /\ id \in Unthinned => expired = PropertiesOf(id)
       /\ failed = {} \/ AfbPushFails
       /\ parse_frame(id, f, expired, failed)
       /\ Heard(id, f)

FilteredOut(id) ==
  /\ id \notin rfilter
  /\ UNCHANGED <<registry, values, watch, view, missed>>
  /\ \E f \in Frames(id) : Heard(id, f)

-----------------------------------------------------------------------------
Next ==
  \/ \E c \in Client : subscribe(c) \/ unsubscribe(c) \/ Disconnect(c)
  \/ \E p \in Settable, v \in SetValue : set(p, v)
  \/ \E id \in CanId : Receive(id) \/ FilteredOut(id)

Spec == Init /\ [][Next]_vars

(* ECUs send the frame of a CAN ID periodically, so from time to time one   *)
(* comes that is in every conversion table's range and finds the thin-out   *)
(* cycle over; level-triggered epoll sees that the binder reads it.         *)
PeriodicFrame(id) ==
  /\ id \in rfilter
  /\ \E f \in Frames(id) :
       /\ \A p \in PropertiesOf(id) : \A i \in DOMAIN f[p] : ~Undefined(Chain[p][i], f[p][i])
       /\ parse_frame(id, f, PropertiesOf(id), {})
       /\ Heard(id, f)

FairSpec == Spec /\ \A id \in Readonly : WF_vars(PeriodicFrame(id))

-----------------------------------------------------------------------------
(* Every variable has the type its declaration describes. *)
TypeOK ==
  /\ bind_event \subseteq Property
  /\ rfilter \subseteq CanId \cup {CAN_SFF_MASK}
  /\ DOMAIN curValue = Property
  /\ \A p \in Property : curValue[p] \in [DOMAIN Chain[p] -> Int]
  /\ DOMAIN applyinfo = Property
  /\ \A p \in Property : applyinfo[p] \in DOMAIN Chain[p] \cup {0}
  /\ watch \in [Property -> SUBSET Client]
  /\ DOMAIN view = Client
  /\ \A c \in Client, p \in Property : view[c][p] # << >> => c \in watch[p]
  /\ DOMAIN bus = Property
  /\ \A p \in Property : bus[p] # << >> => bus[p] \in Raws(p)
  /\ missed \subseteq Property

(* An event some client is subscribed to is in the registry: remove_event   *)
(* on a push that reached nobody never takes an event from a client, and    *)
(* get_event finds the event of every subscription there is.                *)
WatchedIsRegistered == \A p \in Property : watch[p] # {} => p \in bind_event

(* The frames of every registered event pass the receive filter, although   *)
(* only subscribe writes the filter, while removals and later subscriptions *)
(* of other clients change the set of events.                               *)
FilterCoversEvents == \A p \in bind_event : CanIdOf[p] \in rfilter

(* End to end: what a subscribed client was last told of a property is what *)
(* the last frame on the bus says it is - through the filter, the           *)
(* conversion, the change detection with its thinning, the registry lookup  *)
(* and the push.  A frame that says nothing (a raw number without a value,  *)
(* NOTSET) leaves the client with the value before it; a push that afb      *)
(* reported as an error leaves it so until the next push.                   *)
FeedInSync ==
  \A c \in Client, p \in Property :
    /\ CanIdOf[p] \in Readonly /\ c \in watch[p] /\ p \notin missed
    /\ view[c][p] # << >> /\ bus[p] # << >> /\ Speaks(Chain[p], bus[p])
    => view[c][p] = Said(Chain[p], bus[p])

(* subscribed_canids has room for the CAN ID of every property. *)
FilterFits ==
  IsFiniteSet(IdsOf(Property)) /\ Cardinality(IdsOf(Property)) <= SUPPORT_CANID_MAX

(* What FeedInSync needs of the configuration and of the clients: room for  *)
(* every CAN ID, no set on a received property, and definitions whose       *)
(* tables are faithful - besides a name belonging to one CAN ID, which this *)
(* module supposes throughout.                                              *)
Reliable ==
  /\ FilterFits
  /\ \A p \in Settable : CanIdOf[p] \notin Readonly
  /\ \A p \in Property : CanIdOf[p] \in Readonly => Faithful(Chain[p])

(* Why the feed is in sync: a client was told the current value unless the  *)
(* current value is one nobody is told, and the current value is what the   *)
(* last frame on the bus says.                                              *)
ViewIsCurrent ==
  \A c \in Client, p \in Property :
    CanIdOf[p] \in Readonly /\ c \in watch[p] /\ view[c][p] # << >> /\ p \notin missed
    => view[c][p] = JsonOf(p) \/ Muted(Chain[p], curValue[p], applyinfo[p])

ValueIsOnBus ==
  \A p \in Property :
    CanIdOf[p] \in Readonly /\ bus[p] # << >> /\ Speaks(Chain[p], bus[p])
    => JsonOf(p) = Said(Chain[p], bus[p]) /\ ~Muted(Chain[p], curValue[p], applyinfo[p])

ValuesArePossible ==
  \A p \in Property : CanIdOf[p] \in Readonly =>
    \A i \in DOMAIN Chain[p] : Possible(Chain[p][i], curValue[p][i])

(* The inductive invariant of FeedInSync. *)
FeedInvariant ==
  /\ TypeOK /\ WatchedIsRegistered /\ FilterCoversEvents
  /\ ViewIsCurrent /\ ValueIsOnBus /\ ValuesArePossible

(* A frame that is not pushed to a client because update_iviproperty finds  *)
(* "same data in thinout_cycle" says what the client was told already: no   *)
(* frame the binder reads leaves a client with another value than it says.  *)
IgnoredIsSame ==
  [][\A p \in Received, c \in Client :
       /\ c \in watch[p] /\ p \notin missed' /\ view[c][p] # << >>
       /\ bus'[p] # << >> /\ Speaks(Chain[p], bus'[p])
       /\ view'[c][p] # Said(Chain[p], bus'[p])
       => ~Receive(CanIdOf[p])]_vars

(* An event whose clients have all left, by unsubscribe or by closing their *)
(* session, does not stay registered: a push that reaches nobody drops it.  *)
UnusedEventIsDropped ==
  \A p \in Property : CanIdOf[p] \in Readonly =>
    (p \in bind_event /\ watch[p] = {} ~> p \notin bind_event \/ watch[p] # {})

(* A client that afb has subscribed is told a value sooner or later, also   *)
(* when its request was answered with an error because another name of it   *)
(* failed.                                                                  *)
SubscriberIsFed ==
  \A c \in Client, p \in Property : CanIdOf[p] \in Readonly =>
    (c \in watch[p] ~> view[c][p] # << >> \/ c \notin watch[p])

(* A push that afb reported as an error is made up for: the next push of    *)
(* the property succeeds, or the event has gone.                            *)
MissedPushIsMadeUp == \A p \in Property : p \in missed ~> p \notin missed

-----------------------------------------------------------------------------
(* What the last frame says of p, << >> when it says nothing. *)
SaidOf(p) == IF bus[p] # << >> /\ Speaks(Chain[p], bus[p]) THEN Said(Chain[p], bus[p])
                                                           ELSE << >>

Feed(p) == INSTANCE PropertyFeed WITH
             Nothing     <- << >>,
             subscribers <- watch[p],
             told        <- [c \in Client |-> view[c][p]],
             said        <- SaidOf(p),
             missed      <- p \in missed

(* The service is, for each received property, the feed its clients are     *)
(* promised: the initial state is one of PropertyFeed, and every step of the *)
(* binder is, for each of them, a step of PropertyFeed or none.             *)
ServesFeeds ==
  /\ \A p \in Received : Feed(p)!Init
  /\ [][\A p \in Received : [Feed(p)!Next]_(Feed(p)!vars)]_vars

=============================================================================
