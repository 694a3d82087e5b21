------------------------- MODULE EventThreadsProofs -------------------------
(***************************************************************************)
(* What holds of the event registry however the worker and the event loop  *)
(* interleave, for any clients and properties.                             *)
(***************************************************************************)
EXTENDS EventThreads, TLAPS

(* The invariant holds when the binder has started. *)
LEMMA ThreadsStart == Init => ThreadsInvariant
BY DEF Init, ThreadsInvariant, TypeOK, WatchedIsRegistered, FilterCoversEvents, Idle, IdsOf

(* No step of a verb breaks it. *)
LEMMA WorkerKeeps == ThreadsInvariant /\ Worker => ThreadsInvariant'
<1> SUFFICES ASSUME ThreadsInvariant, Worker PROVE ThreadsInvariant'
  OBVIOUS
<1> USE DEF ThreadsInvariant, TypeOK, WatchedIsRegistered, FilterCoversEvents
<1>1. ASSUME NEW kind \in {"subscribe", "unsubscribe"}, NEW c \in Client,
             NEW names \in SUBSET Property, Begin(kind, c, names)
      PROVE  ThreadsInvariant'
  BY <1>1 DEF Begin, Idle, IdsOf
<1>2. ASSUME NEW p \in Property, get_event(p) PROVE ThreadsInvariant'
  BY <1>2 DEF get_event
<1>3. CASE register_event
  BY <1>3 DEF register_event
<1>4. CASE afb_req_subscribe
  BY <1>4 DEF afb_req_subscribe
<1>5. CASE afb_req_unsubscribe
  BY <1>5 DEF afb_req_unsubscribe
<1>6. CASE getSubscribedCanids
  <2>1. verb.kind = "subscribe" =>
          verb' = [verb EXCEPT !.pc = "filter", !.ids = IdsOf(bind_event)]
    BY <1>6 DEF getSubscribedCanids
  <2>2. verb.kind # "subscribe" => verb' = Idle(verb.client)
    BY <1>6 DEF getSubscribedCanids
  <2>3. CASE verb.kind = "subscribe"
    <3>1. IdsOf(bind_event) \subseteq IdsOf(Property)
      BY DEF IdsOf
    <3>2. verb'.pc = "filter" /\ verb'.ids = IdsOf(bind_event)
      BY <2>1, <2>3
    <3>3. TypeOK'
      BY <1>6, <2>1, <2>3, <3>1 DEF getSubscribedCanids
    <3> QED
      BY <1>6, <3>2, <3>3 DEF getSubscribedCanids, IdsOf
  <2>4. CASE verb.kind # "subscribe"
    BY <1>6, <2>2, <2>4 DEF getSubscribedCanids, Idle, IdsOf
  <2> QED
    BY <2>3, <2>4
<1>7. CASE socketcan_update_filter
  BY <1>7 DEF socketcan_update_filter, Idle, IdsOf
<1> QED
  BY <1>1, <1>2, <1>3, <1>4, <1>5, <1>6, <1>7 DEF Worker

(* No step of the event loop breaks it. *)
LEMMA EventLoopKeeps == ThreadsInvariant /\ EventLoop => ThreadsInvariant'
<1> SUFFICES ASSUME ThreadsInvariant, NEW p \in Property, afb_event_push(p) \/ remove_event(p)
             PROVE  ThreadsInvariant'
  BY DEF EventLoop
<1> USE DEF ThreadsInvariant, TypeOK, WatchedIsRegistered, FilterCoversEvents
<1>1. CASE afb_event_push(p)
  BY <1>1 DEF afb_event_push
<1>2. CASE remove_event(p)
  <2>1. IdsOf(bind_event') \subseteq IdsOf(bind_event)
    BY <1>2 DEF remove_event, IdsOf
  <2> QED
    BY <1>2, <2>1 DEF remove_event
<1> QED
  BY <1>1, <1>2

(* However the verbs of a worker and the frames of the event loop           *)
(* interleave, a subscription afb keeps has its event in the registry, and  *)
(* between two verbs the filter lets in the frames of every event.          *)
THEOREM ThreadsAreSafe == Spec => []ThreadsInvariant
<1>1. ThreadsInvariant /\ [Next]_vars => ThreadsInvariant'
  <2> SUFFICES ASSUME ThreadsInvariant, [Next]_vars PROVE ThreadsInvariant'
    OBVIOUS
  <2>1. CASE UNCHANGED vars
    BY <2>1 DEF ThreadsInvariant, TypeOK, WatchedIsRegistered, FilterCoversEvents, IdsOf, vars
  <2> QED
    BY <2>1, WorkerKeeps, EventLoopKeeps DEF Next
<1> QED
  BY <1>1, ThreadsStart, PTL DEF Spec
=============================================================================
