---------------------------- MODULE EventThreads ----------------------------
(***************************************************************************)
(* The event registry under the threads of afb-daemon: a verb runs on a    *)
(* worker thread while the event loop parses a frame, and no lock covers   *)
(* bind_event_root.  Subscription takes a verb or a frame for one step;    *)
(* here each is as many steps as it has accesses to the registry, to afb   *)
(* and to the filter, and the two interleave.  There is one worker, and    *)
(* subscribed_canids holds every CAN ID.                                   *)
(***************************************************************************)
EXTENDS Naturals, FiniteSets

CONSTANTS
  Client,       \* the sessions that call the verbs
  Property,     \* the names in property_root
  CanIdOf,      \* mycanid of the property with a name
  CAN_SFF_MASK  \* the one CAN ID the filter lets in before any subscription

VARIABLES
  bind_event,  \* the names with a node in bind_event_root
  watch,       \* watch[p]: the clients afb has subscribed to the event of p
  rfilter,     \* the CAN IDs the socket's receive filter lets in
  verb,        \* what the worker does, and where it is
  empty        \* the names whose push reached nobody and whose event the
               \* event loop is about to remove, at most one

vars == <<bind_event, watch, rfilter, verb, empty>>

-----------------------------------------------------------------------------
(* A verb: the client, the names still to be done, the name whose event the *)
(* worker has looked up, and the CAN IDs for the filter.  pc is "next"      *)
(* between two names, "register" when get_event found nothing, "found" when *)
(* the worker holds a pointer to the node, "filter" when it has walked the  *)
(* registry.                                                                *)
Idle(c) == [pc |-> "idle", kind |-> "subscribe", client |-> c, todo |-> {}, name |-> {}, ids |-> {}]

IdsOf(names) == {CanIdOf[p] : p \in names}

Init ==
  /\ bind_event = {}
  /\ watch = [p \in Property |-> {}]
  /\ rfilter = {CAN_SFF_MASK}
  /\ \E c \in Client : verb = Idle(c)
  /\ empty = {}

(* A request for one name or for all of them. *)
Begin(kind, c, names) ==
  /\ verb.pc = "idle"
  /\ verb' = [Idle(c) EXCEPT !.pc = "next", !.kind = kind, !.todo = names]
  /\ UNCHANGED <<bind_event, watch, rfilter, empty>>

(* get_event; unsubscribe passes over a name that has no event. *)
get_event(p) ==
  /\ verb.pc = "next" /\ p \in verb.todo
  /\ verb' = [verb EXCEPT !.todo = @ \ {p}, !.name = {p},
                          !.pc = IF p \in bind_event THEN "found"
                                 ELSE IF verb.kind = "subscribe" THEN "register" ELSE "next"]
  /\ UNCHANGED <<bind_event, watch, rfilter, empty>>

(* register_event, which afb may refuse to make an event for. *)
register_event ==
  /\ verb.pc = "register"
  /\ \/ bind_event' = bind_event \cup verb.name /\ verb' = [verb EXCEPT !.pc = "found"]
     \/ bind_event' = bind_event /\ verb' = [verb EXCEPT !.pc = "next"]
  /\ UNCHANGED <<watch, rfilter, empty>>

(* afb_req_subscribe, which may fail.  If the event loop has freed the node *)
(* meanwhile, the worker reads freed memory: whatever afb answers, there is *)
(* no event to be subscribed to.                                            *)
afb_req_subscribe ==
  /\ verb.pc = "found" /\ verb.kind = "subscribe"
  /\ \/ watch' = [p \in Property |-> IF p \in verb.name \cap bind_event
                                     THEN watch[p] \cup {verb.client} ELSE watch[p]]
     \/ watch' = watch
  /\ verb' = [verb EXCEPT !.pc = "next"]
  /\ UNCHANGED <<bind_event, rfilter, empty>>

(* afb_req_unsubscribe, the same way. *)
afb_req_unsubscribe ==
  /\ verb.pc = "found" /\ verb.kind = "unsubscribe"
  /\ \/ watch' = [p \in Property |-> IF p \in verb.name THEN watch[p] \ {verb.client}
                                                        ELSE watch[p]]
     \/ watch' = watch
  /\ verb' = [verb EXCEPT !.pc = "next"]
  /\ UNCHANGED <<bind_event, rfilter, empty>>

(* The names are done: subscribe walks the registry for the CAN IDs. *)
getSubscribedCanids ==
  /\ verb.pc = "next" /\ verb.todo = {}
  /\ verb' = IF verb.kind = "subscribe"
             THEN [verb EXCEPT !.pc = "filter", !.ids = IdsOf(bind_event)]
             ELSE Idle(verb.client)
  /\ UNCHANGED <<bind_event, watch, rfilter, empty>>

(* socketcan_update_filter, and the answer to the client. *)
socketcan_update_filter ==
  /\ verb.pc = "filter"
  /\ rfilter' = IF verb.ids = {} THEN rfilter ELSE verb.ids
  /\ verb' = Idle(verb.client)
  /\ UNCHANGED <<bind_event, watch, empty>>

(* notify_property_changed on the event loop, up to the answer of           *)
(* afb_event_push: one that reached no client makes the loop remove the     *)
(* event, in a step of its own.                                             *)
afb_event_push(p) ==
  /\ empty = {} /\ p \in bind_event /\ CanIdOf[p] \in rfilter
  /\ watch[p] = {}
  /\ empty' = {p}
  /\ UNCHANGED <<bind_event, watch, rfilter, verb>>

(* remove_event: afb drops the event and forgets its clients, and the node  *)
(* leaves the tree and is freed, in one step.                               *)
remove_event(p) ==
  /\ p \in empty
  /\ empty' = {}
  /\ bind_event' = bind_event \ {p}
  /\ watch' = [watch EXCEPT ![p] = {}]
  /\ UNCHANGED <<rfilter, verb>>

Worker ==
  \/ \E kind \in {"subscribe", "unsubscribe"}, c \in Client :
       Begin(kind, c, Property) \/ \E p \in Property : Begin(kind, c, {p})
  \/ \E p \in Property : get_event(p)
  \/ register_event \/ afb_req_subscribe \/ afb_req_unsubscribe
  \/ getSubscribedCanids \/ socketcan_update_filter

EventLoop == \E p \in Property : afb_event_push(p) \/ remove_event(p)

Next == Worker \/ EventLoop

Spec == Init /\ [][Next]_vars

-----------------------------------------------------------------------------
(* Every variable has the type its declaration describes. *)
TypeOK ==
  /\ bind_event \subseteq Property
  /\ watch \in [Property -> SUBSET Client]
  /\ rfilter \subseteq IdsOf(Property) \cup {CAN_SFF_MASK}
  /\ verb \in [pc : {"idle", "next", "register", "found", "filter"},
               kind : {"subscribe", "unsubscribe"}, client : Client,
               todo : SUBSET Property, name : SUBSET Property, ids : SUBSET IdsOf(Property)]
  /\ empty \subseteq Property

(* An event is dropped when it "is no client": no subscription made between *)
(* the push that reached nobody and the removal is lost with it.            *)
DropsUnused ==
  [][\A p \in Property : p \in bind_event /\ p \notin bind_event' => watch[p] = {}]_vars

(* Whatever the threads do, a subscription that afb keeps is one whose      *)
(* event get_event finds: what is lost is lost for afb and the binder       *)
(* alike, and the client gets a new event when it subscribes again.         *)
WatchedIsRegistered == \A p \in Property : watch[p] # {} => p \in bind_event

(* Between two verbs the filter lets in the frames of every registered      *)
(* event, although the event loop removed events while the filter was made. *)
FilterCoversEvents == verb.pc = "idle" => IdsOf(bind_event) \subseteq rfilter

(* The inductive invariant of both: while socketcan_update_filter is still  *)
(* to be called, what it is called with has the CAN ID of every event left, *)
(* and unsubscribe, which does not call it, registers nothing.              *)
ThreadsInvariant ==
  /\ TypeOK /\ WatchedIsRegistered /\ FilterCoversEvents
  /\ verb.pc = "filter" => IdsOf(bind_event) \subseteq verb.ids
  /\ verb.kind = "unsubscribe" => verb.pc # "register" /\ IdsOf(bind_event) \subseteq rfilter
=============================================================================
