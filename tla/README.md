# A verification model of AGL-CAN-binder

AGL-CAN-binder is a binding of afb-daemon: it reads frames from a CAN bus,
turns their bit fields into named properties of the vehicle, pushes the
properties to the clients that subscribed to them, and sends the properties
that clients set. This directory holds TLA+ modules of that program, the TLC
configurations that check them on small instances, and proofs for TLAPS.

Paths below are relative to the repository, e.g. `src/can_signal_event.c`.

## 1. Inventory

| component | source | state | operations |
|---|---|---|---|
| Verbs subscribe, unsubscribe | `af-canivi-binding.c` 239-369 | none of its own | look up or register an event, have afb subscribe the client, refresh the filter, answer with the values |
| Verbs get, set, list | `af-canivi-binding.c` 147-238 | `tmplists` | read, store and send a property; list the names |
| Event registry | `bind_event.c` | tree `bind_event_root`, `subscribed_canids` | `get_event`, `register_event`, `remove_event`, `getSubscribedCanids` |
| Receive filter | `socketcan_raw.c` 99-114 | the socket's filter in the kernel | `socketcan_update_filter` |
| Reception | `can_signal_event.c` 37-231 | `curValue`, `applyinfo`, `updatetime` of each property, `canraw_frame` of each CAN ID | `can_signal_read`, `parse_frame`, `update_iviproperty`, `notify_property_changed` |
| Value of a property | `canid_info.c` 105-265, 308-349, `can_json.c` 520-577 | `curValue` | `_updatePropertyValue`, `property2json` |
| Bit fields | `canid_info.c` 72-103, 267-306 | none | `canvalue2host`, `host2canvalue`, `canframe2property`, `property2canframe` |
| Periodic transmission | `can_signal_event.c` 201-289 | a timerfd per sent CAN ID | `addSendTimer`, `updateSendTimer`, `on_timerEvent`, `can_signal_send` |
| Dictionary | `can_json.c` 132-518, `canid_search.c` | trees `canid_root`, `property_root`, `support_property_list` | `can_define_init` down to `addProperty_dict` |
| CAN socket | `socketcan_raw.c`, `af-canivi-binding.c` 116-138, 409-454 | `canfd`, `can_sendfd` | open, close, send, read, start of the service |
| afb-daemon (external) | — | subscriptions of clients to events, sessions, threads | calls the verbs and the handlers of the event loop |

How they interact: a verb of a client calls the registry, afb, the dictionary
and the filter; a readable socket calls `on_event`, which reads up to six
frames, each of which updates the properties of its CAN ID and pushes those
that changed, which may remove an event from the registry; `set` writes the
frame buffer of a CAN ID and sends it, and a timer per sent CAN ID sends it
again every second.

What is hard, and what makes each component correct:

* *Registry and filter* change at different times: events are added by
  requests, removed by frames, and the filter is written by subscriptions
  only. Correct: the event of a subscription is always registered, the filter
  covers the registered events, an event nobody uses goes away.
* *Reception* decides whether a frame is news by comparing with `curValue`,
  which other paths write as well, and with a comparison that differs from
  the assignment for some types. Correct: a client that is not told anything
  was told the same before, thinned or not.
* *Multi-properties* are cleared and filled anew by each frame, and the work
  stops at the first entry in error.
* *Transmission* shares the frame buffer with reception, and the timer reads
  it without the lock.
* *Dictionary*: definitions in any order, duplicates, and limits.
* *Time*: the thin-out cycle uses a 32 bit difference of wall-clock stamps.
* *Threads*: the lock of `can_signal_event.c` covers the frames but not the
  registry.

`PROJECT.json` lists the hazards at their lines with the property that covers
each, or the reason why none does yet.

## 2. Modules

| module | models |
|---|---|
| `PropertyValue` | `_updatePropertyValue`: conversion tables, C integer conversions, the comparison and the assignment of each type; `property2json` |
| `PropertyUpdate` | `update_iviproperty` over the chain of entries of a property; the reference (`Speaks`, `Said`) it is compared with |
| `Subscription` | the service: registry, filter, values, afb's subscriptions and pushes; one action per verb, per received frame, per frame the filter keeps out |
| `MCSubscription` | instances of `Subscription` for TLC |
| `ThinOut`, `MCThinOut` | the thin-out cycle of one property: `elaps_ms`, `updatetime` and `cycle` against a wall clock that may be set |
| `CanFrame` | the bit fields of a frame: `canvalue2host`, `host2canvalue`, the masks and shifts |
| `SendPath`, `MCSendPath` | the transmission of one CAN ID: `set` on threads, the frame buffer and its lock, the timer, received frames |
| `PropertyFeed` | abstract specification: what the clients of one received property are promised |
| `Transmission` | abstract specification: what is promised of a CAN ID that is sent |
| `DefinitionFile` | abstract specification: what a CAN definition file means |
| `CanDictionary`, `MCCanDictionary` | the loader of the CAN definition file: the trees, the arrays with their chains, the list, the send timers |
| `EventThreads`, `MCEventThreads` | a verb on a worker thread against the event loop, on the registry no lock covers |
| `PropertyLemmas` | proofs about the operators of `PropertyValue` and `PropertyUpdate` |
| `SubscriptionProofs` | proofs about `Subscription`, and that it implements `PropertyFeed` |
| `ThinOutProofs` | proofs about `ThinOut` |
| `SendProofs` | proofs about `CanFrame` and `SendPath` |
| `DictionaryProofs`, `ArrayProofs` | proofs about `CanDictionary`: its trees, timers, list and entries; what its arrays hold |
| `EventThreadsProofs` | proofs about `EventThreads` |

`ThinOut` and `Subscription` share `PropertyUpdate`; `SendPath` composes
`CanFrame` with `PropertyValue`. `Subscription` instantiates `PropertyFeed`
once per received property, and `SendPath` instantiates `Transmission`, `CanDictionary` instantiates
`DefinitionFile`. `CanDictionary` takes the types, tables and fields
of `PropertyUpdate` and `CanFrame`, so that what it loads can be compared with
what those modules take for granted (`Usable`). `EventThreads` is `Subscription`
cut into the steps of two threads, without the values.

### PropertyValue and PropertyUpdate

Pure operators. An entry is a record of its type, the largest raw number of
its bit field and its SET-DATA table. A current value is an integer; that of a
STRING_T is the position of a text in the table, as the code compares
pointers. The number of values of 8, 16 and 32 bit integers are the constants
`M8`, `M16`, `M32`, so that TLC can use small ones; the proofs hold for all.
`Stored` is what a type's case assigns and `Compared` what it compares with:
they differ for UINT8_T, UINT16_T with a table and BOOL_T with a table.

### Subscription

| variable | code |
|---|---|
| `bind_event` | the names with a node in `bind_event_root` |
| `rfilter` | the CAN IDs the `CAN_RAW_FILTER` of the socket lets in |
| `curValue`, `applyinfo` | the fields of `struct can_bit_t` |
| `watch` | the clients afb has subscribed to an event (external) |
| `view` | what a client was last told of a property, by a push or in the answer to subscribe |
| `bus` | the last frame the CAN ID of a property had on the bus while the property had an event: history, for the properties |
| `missed` | the names whose last push afb reported as an error: history |

| action | code |
|---|---|
| `subscribe(c)` | the whole verb: registering, `afb_req_subscribe`, the filter, the answer, for one name, `"*"` or an unknown name; with `AfbSubscribeFails` any part may fail |
| `unsubscribe(c)` | the whole verb, any set of registered names; afb may refuse some |
| `Disconnect(c)` | afb forgets a client (external) |
| `set(p, v)` | what `set` does to the value of a property |
| `Receive(id)` | `parse_frame` of one frame: every property of the CAN ID is updated, pushed if need be, and its event removed when the push reaches nobody; with `AfbPushFails` a push may report an error |
| `FilteredOut(id)` | a frame the filter keeps out |

Callbacks of afb-daemon are serialised: one verb or one frame is one step.
Whether the thin-out cycle of a property is over is a choice (`expired`) of
each frame, so the safety properties hold for any clock; with cycle 0
(`Unthinned`) it always is. A frame gives the raw number of every entry of its
CAN ID; overlapping bit fields, which would exclude some combinations, are not
modelled. The dictionary is one in which no name was refused: a slot whose name
another CAN ID owns is updated by the frames of its own CAN ID and pushed with
the other's event, and that is left out. `"*"` stands for the names in
`support_property_list` (`Listed`), whose capacity `SUPPORT_PROPERTY_LIMIT` is
no more than `SUPPORT_CANID_MAX`: both are 512 in the code.

### PropertyFeed

The promise to the clients of one received property, without registry, filter,
tables, change detection or thinning. A frame says a value or nothing. `Push`
tells all subscribers what it says; `Ignore` tells nobody, and may be taken
only if the subscribers know it (or an earlier push is still to be made up
for); `Miss` is a push that failed; `Join` and `Leave` are the clients'.

`Subscription` implements it for each received property (`ServesFeeds`): the
subscribers are `watch[p]`, what a client was told is `view[c][p]`, what a
frame says is worked out from `bus[p]` and the definition of the property, and
a push is missed when `p` is in `missed`. A frame of a CAN ID that has several
properties is a step of each of their feeds.

### ThinOut

One property and the wall clock. Stamps are kept modulo the range of the
32 bit difference, since the code uses them through `elaps_ms` only.

| variable | code |
|---|---|
| `definition` | the chain of entries, chosen at the start |
| `curValue`, `applyinfo`, `updatetime` | the fields of `struct can_bit_t`; the stamp of the head is the one that counts |
| `clock` | the wall clock that `SO_TIMESTAMP` reads (external) |
| `raw`, `pushes`, `age` | history: the last frame, whether the property was pushed, the time since the last push |

`Frame(f)` is `update_iviproperty` of one frame; `Tick` and `SetClock` move
the clock.

### CanFrame

A byte or a word is the set of the positions of its 1 bits; the sizes of a
byte and of a frame are constants, so that TLC can use two bits and two bytes
and the proofs hold for 8 and 8. `Fields` are those the loader lets through,
the invalid POS 0 included; a shift by the width of a word or more, undefined
in C, is taken modulo the width, as x86-64 and AArch64 do.

### SendPath

| variable | code |
|---|---|
| `canraw_frame` | the buffer of the CAN ID: whether `can_id` and `can_dlc` are its own, and the data |
| `curValue` | the field of `struct can_bit_t` |
| `frameLock` | the mutex: the client that holds it |
| `request` | where the thread of each client is in `set`, and what it has still to store |
| `timer` | the timerfd: running, or expired and not yet handled |
| `wire` | the last frame the binder sent |
| `given`, `held` | history: the bits last given to each property, by a client, or by a client or a received frame |

| action | code |
|---|---|
| `Begin(c)` | `can_signal_send` with the lock: the value is stored and the frame worked out |
| `Store(c)` | `host2canvalue` writes some of the bytes that are left, any and any number: the compiler may order and merge the stores |
| `Send(c)` | `socketcan_send`, which may fail |
| `Unlock(c)`, `updateSendTimer(c)` | the rest of `set` |
| `Expire`, `on_timerEvent` | the timer; its handler sends the buffer without the lock, and may fail |
| `parse_frame` | a frame with this CAN ID is received: it is copied to the buffer before the kind of the CAN ID is looked at |

The event loop runs its handlers one at a time, so `on_timerEvent` and
`parse_frame` do not overlap; verbs run on threads and overlap with both.
`parse_frame` takes the lock, so copying the frame is one step: only
`on_timerEvent` could see it half done, and that runs on the same thread.
Time is left out; the timer may expire at any moment after it was set.

### Transmission

The promise about a CAN ID that is sent, without frame buffer, bytes, lock or
timer. `shown` is what a frame sent now has for each property, `coming` the
request under way, `sent` what the last frame had. `Give` begins a request;
`Proceed` puts part of its number in place, in which a bit may only go from old
to new and all other properties stand still; `Finish` needs the whole number in
place, and sends it or fails to; `Repeat` sends what is in place, at any time;
`Replace` lets a frame of another node take the place of all of it, between two
requests.

`SendPath` implements it (`SendsWhatIsGiven`): `shown` and `sent` are the
fields of `canraw_frame` and of `wire`, and `coming` is the request of the
client in the critical section. `Store` is a `Proceed` whatever bytes it
writes, `Send` is `Finish`, `on_timerEvent` is `Repeat`. The properties whose
field lies in one byte are the `Whole` ones, which change at once.

### CanDictionary

A file is the sequence of its CAN ID definitions, in the order of the file and
of its blocks; a definition has a key, a kind and the members of DATA. A name is
a model value: the PROPERTY with its ZONE. A member has numbers of any size, a
TYPE that may be unknown and a SET-DATA that may stand before TYPE or mix its
elements.

| variable | code |
|---|---|
| `next` | where `parse_canid_def` is in the file |
| `canid_root` | the tree of CAN IDs: which definition a node was made from |
| `property` | the array `canid_info->property` of a CAN ID: for each slot the member it was made from and those on its `next` chain |
| `nData` | the slots of the array in use |
| `property_root` | the tree of names: the array and slot a node points to |
| `support_property_list` | the list of names for `"*"` |
| `adding` | the loop of `addCANID_dict`: its CAN ID, `i` and `maxEntry` |
| `timers` | the CAN IDs with a send timer |

| action | code |
|---|---|
| `parse_caninfo` | one definition, up to the loop: refused when its CAN ID is there or DATA is no array |
| `addProperty` | one turn of the loop, a new name: tree, and list if there is room |
| `addConflict` | a name another CAN ID has: refused, and its slot stays in the array |
| `addToChain` | a name of the same CAN ID: copied to the end of the chain, and the rest of the array moved up over its slot |
| `addSendTimer` | the end of the loop (`LoopEnds`) and of `parse_caninfo`, which gives a sent CAN ID its timer; making a timer does not fail |

The key is cut to 16 bits by the type `jcanid_t` and to 11 by the mask; a key
that is not positive is loaded all the same, as in the code. `Entry` is what a
member becomes: numbers cut to 8 bits and set to 0 beyond their limit, an
unknown TYPE made void, SET-DATA converted with the type known so far.

### DefinitionFile

What a definition file means, without trees, arrays, chains or memory that is
moved. A file is a sequence of definitions, each a CAN ID and the names of its
members. `LeaveOut` passes over a definition without members or of a CAN ID
that has one, `Open` begins any other, and its members are read one by one:
`First` gives a new name to the definition and lists it, `Again` adds an entry
to a name of the same definition, `Taken` leaves a name to its owner; `Close`
gives the CAN ID its timer.

`CanDictionary` implements it (`LoadsWhatIsMeant`): `owner` of a name is the
definition that the node of the name leads to, over `canid_root`, and `entries`
is the chain of the slot there; the place in the file is that of the loop,
counted from the end of DATA as the slot is counted from the end of the array,
since the loop stays where it is when the array shrinks. `addProperty` is
`First`, `addToChain` is `Again`, `addConflict` is `Taken`.

### EventThreads

| variable | code |
|---|---|
| `bind_event`, `watch`, `rfilter` | as in `Subscription` |
| `verb` | where the worker thread is: the names still to do, the one it has looked up, the CAN IDs it has collected |
| `empty` | where the event loop is: between the push that reached nobody and `remove_event` |

Each of these calls is a step: `get_event`,
`register_event`, `afb_req_subscribe`, `afb_req_unsubscribe`,
`getSubscribedCanids` and `socketcan_update_filter` of the worker,
`afb_event_push` and `remove_event` of the event loop. `remove_event` drops
afb's event, deletes the node and frees it in one step: between these the
worker could at most find a node whose event is gone, and lose its subscription
just the same. An access through a
pointer to a node that was freed meanwhile leaves the client with no
subscription, whatever it answers. One access is one step: two threads inside
`tsearch` or `tdelete` at once, of which the C library promises nothing, are
not modelled, and neither is a second worker.

## 3. Properties and runs

| property | says |
|---|---|
| `TypeOK` | the type invariant |
| `WatchedIsRegistered` | an event some client is subscribed to is in the registry |
| `FilterCoversEvents` | the frames of every registered event pass the filter |
| `FeedInSync` | what a subscribed client was last told is what the last frame on the bus says, through filter, conversion, change detection, thinning, registry and push; a frame that gives no value (beyond the table, NOTSET) leaves the value before it, and a push that failed leaves it so until the next push |
| `FeedInvariant` | the inductive invariant behind `FeedInSync` |
| `ServesFeeds` | the service implements `PropertyFeed` for every received property |
| `IgnoredIsSame` | after every frame that is read, its subscribers know what it says: the claim of the comment in `can_signal_event.c` 139-141 |
| `UnusedEventIsDropped` | an event whose clients have left does not stay |
| `SubscriberIsFed` | a subscribed client is told a value sooner or later |
| `MissedPushIsMadeUp` | a value whose push failed does not stay untold: it is pushed again, or the event goes |
| `NotRepeated` | a frame that repeats the one before it is not pushed while the cycle has a millisecond to go (`can_signal_event.c` 139-141) |
| `PushedWhenDue` | once the cycle is over the next frame is pushed, however many were ignored before |
| `SetBackIsHarmless` | a wall clock set back does not silence a property until it has caught up |
| `ThinOutInvariant` | the inductive invariant behind these three: the stamp of the last push is as old as that push, and the last frame once more would be no news |
| `NoSetIsLost` | between two critical sections every field of the frame has the number last given to it: no set is lost to another client's, none changes a property in the same byte |
| `SentIsWhole` | a field that lies in one byte is never sent torn, though the timer sends without the lock |
| `SendInvariant` | the inductive invariant behind these two |
| `SendsWhatIsGiven` | `SendPath` implements `Transmission`: one number at a time takes its place in the frame, in parts if its field is over several bytes, but never back and never at the cost of another property, and whatever the timer sends is one of these |
| `CurrentIsInFrame` | get answers what the frame carries, for numbers that fit their field and until a received frame replaces the buffer |
| `CurrentIsGiven` | the inductive invariant behind it: the value get answers is the number last given, or the one about to be |
| `LastSetIsSent` | once clients set nothing more, the last frame sent has the number they set last for a property, also when the send of `set` failed, as long as no frame of another node puts another number in its place |
| `ReceivedIsIgnored` | all the binder sends is its own CAN ID with numbers its clients gave: the claim of `can_signal_event.c` 189-190 |
| `TreeIsRight` | however slots are moved, a node of the tree of names points to a slot in use that has its name |
| `SlotIsKnown` | every slot reception and `list` come to has a name the tree knows, and is the one the tree points to if its CAN ID owns the name |
| `NothingIsLost` | however the array shrinks, each member of the definition is reached from exactly one slot, and that has its name |
| `FirstDefinitionWins` | the loaded dictionary is what the file says: a name belongs to the first definition with it, with all its entries there in the order of the file |
| `StarIsEverything` | `"*"` stands for every known name once, up to the capacity of the list |
| `SentHasTimer` | exactly the CAN IDs that are sent have a timer, as far as a name leads to them: `set` never restarts one that is not there |
| `LoadsWhatIsMeant` | the loader implements `DefinitionFile`: it comes to every member of the file once and in order, however the array moves under it, and what it makes of a member depends on the names before it alone |
| `Usable` | whatever the file says, every entry has a table that fits its type and a field `CanFrame` knows: the assumption of the other modules |
| `LoadEnds` | the loader comes to the end of every file, stepping back and shrinking notwithstanding |
| `DropsUnused` | an event is removed only while nobody is subscribed: the claim of `af-canivi-binding.c` 74 |

| run | instance | result |
|---|---|---|
| `registry` | 2 clients, a received multi-property and a sent property on two CAN IDs; failures of registering, subscribing and pushing; `IgnoredIsSame` with all of these | pass, 14136 states |
| `feed` | 2 clients, a UINT8_T over all 2-bit raw numbers with 2-bit integers (so that the top bit of an 8 bit integer is met) and a STRING_T whose table has NOTSET first and lacks one raw number; the refinement | pass, 1725 states |
| `liveness` | 1 client, two switches on two CAN IDs, failures of registering, subscribing and pushing; the refinement | pass, 573 states |
| `set_received` | `set` on a received property | `IgnoredIsSame` is violated |
| `multi_error` | a multi-property whose second table lacks a raw number | `IgnoredIsSame` is violated |
| `filter_full` | 2 CAN IDs, room for 1 name in `"*"` and for 1 CAN ID in the filter | `FilterCoversEvents` is violated |
| `thin` | a UINT16_T with 2-bit raw numbers and a multi-property, CYCLE 3 ms, a wrap of the difference at 8 ms, half milliseconds, a clock set by -2.5 or +3.5 ms | pass, 22272 states |
| `thin_byte` | a UINT8_T with 2-bit integers | `NotRepeated` is violated |
| `send` | 2 clients; a UINT16_T in the high bit of byte 1, a UINT8_T over both bytes, a text that cannot be sent; numbers that do not fit their field; frames of another node; sends that may fail | pass, 50944 states |
| `send_foreign` | a BOOL_T and an INT8_T, frames of another node | `ReceivedIsIgnored` is violated |
| `dictionary` | all files of two definitions over five members with three names: up to three members in the first and two in the second, whose CAN ID is another, the same, or the same after the cut to 11 bits; a list of two names; the refinement | pass, 225342 states |
| `threads` | 2 clients, two properties with a CAN ID each, a worker and the event loop | `DropsUnused` is violated |

Bounds. Two clients are enough for one client's request or departure to
interfere with another's subscription; the clients are symmetric. Two
properties are needed for the filter (two CAN IDs) and for a request that
fails half way. Raw numbers have one or two bits: enough for zero, NOTSET, a
number beyond the table, and both halves of a signed range. In `thin` the wrap
of the difference (8 ms) is well above the cycle (3 ms), as 2^32 ms is above
any cycle in use, and `age` saturates one lap beyond. In `send` a frame has two
bytes of two bits: enough for a byte shared by two properties, a property over
two bytes, and stores in either order. In
`dictionary` three members in one array are the fewest with which a slot in the
middle is chained and the rest still moves, two definitions are enough for a
conflict and for a duplicate, and a list of two names is one too short for
three; a byte of the file has 3 bits and a CAN ID 3, so that numbers out of
range wrap as they do with 8 and 11. No run has a bound on the number of steps.

Fairness (`FairSpec`). Only `PeriodicFrame` is fair: ECUs send the frame of a
received CAN ID periodically, epoll is level-triggered so a readable socket is
read again, and from time to time a frame has a value in every table and comes
after the end of the cycle. A CYCLE of 0 with `CAN_THINOUT_CHG`, which the
loader turns into a cycle that practically never ends, is therefore not
covered by the liveness properties. Weak fairness of `PeriodicFrame` does not
force values to change: it only asks for a step while the event waits for a
push. The same fairness makes up for a failed push: some periodic frame is
pushed without an error. Clients need no fairness.

In `SendPath` a thread that has begun a request goes on with it, the timer
expires, and the event loop handles it (weak fairness); clients need not
begin requests. A send by the timer is strongly fair to succeed: the queue of
a CAN interface that is up drains, but any finite number of sends may fail.

In `CanDictionary` weak fairness of `Next` says that `can_define_init`, one
call on one thread, goes on. `EventThreads` has safety properties only.

### What the violations show

* `set_received`: a client was told 1; another request sets the received
  property to 0 (`property2canframe` writes `curValue` and notifies nobody);
  a frame with 0 arrives and is ignored as the same data. The client knows 1
  until the cycle ends or the value changes.
* `multi_error`: the clients were told 0; a frame gives the first entry 1 and
  the second a number beyond its table: `update_iviproperty` has stored the 1
  when it returns early, without a push; the next frame with 1 and a good
  second entry is ignored.
* `filter_full`: `"*"` alone cannot name more CAN IDs than `subscribed_canids`
  holds, but the loader puts names beyond the list into the tree all the same,
  and `subscribe` finds them there. A client subscribes to the name in the list
  and to the one beyond it; both requests are answered with success, and the
  CAN ID that did not fit is filtered out. In the code it takes 513 properties
  with a CAN ID each, all subscribed to.
* `thin_byte`: the comparison of a UINT8_T uses `(int8_t)x`
  (`canid_info.c` 167), which differs from the stored value whenever the top
  bit is set: every such frame is an update, and thinning has no effect.
* `send_foreign`: a frame with the CAN ID of the binder is received, which
  takes a subscription to let it through the filter; the log says it is
  ignored, but it is in `canraw_frame`, and the timer sends it, with its
  `can_id` and `can_dlc`, until clients have set every field again - which
  restores the data only.
* `threads`: the event loop pushes a property and reaches nobody; before it
  calls `remove_event` a worker subscribes a client to the event and answers
  with success; the event is dropped and the client will never be told
  anything. afb and the binder agree about it (`WatchedIsRegistered` and
  `FilterCoversEvents` hold, by `ThreadsAreSafe`): it is only the client that
  believes otherwise, until it subscribes again.

`SentIsWhole` speaks of fields in one byte, because it is false of others: a
field over two bytes can be sent half old when the timer expires between two
stores. What holds of those is in `SendsWhatIsGiven`: each bit of such a frame
is that of the number before or of the number being set, and the frames that
follow only have more of the new one.

## 4. Proofs

All theorems hold for every value of the constants that satisfies the named
assumptions, as far as their module has them: `WidthAssumption`,
`ConstantAssumption`, `ThinOutAssumption`, `FrameAssumption`, `SendAssumption`,
`NumberAssumption` (a number a client can set is the sum of its bits: what a
binary number is, which a proof would need induction for), `EntryAssumption`
and `LoaderAssumption` (which says of the widths that no LEN let through has a
mask larger than a `uint32_t`). Every invariant a passing run checks is proved,
and every action property. Of the transmission
and the bit fields:

* `FieldReadsBack`, `OthersAreKept`, `WordReadsBack`, `DataReadsBack`
  (`SendProofs`): what is put into a field that lies in the frame is read
  back as its low bits; fields without a common bit do not disturb each other;
  bytes to word and word to bytes are inverse to each other.
* `SendTypeCorrect`: `Spec => []TypeOK`, which includes mutual exclusion: a
  client is in the critical section exactly when it holds `frameLock`.
* `SendIsInvariant`, `NoneIsLost`, `SendingIsWhole`: `SendInvariant`,
  `NoSetIsLost` and `SentIsWhole` for any number of clients and properties,
  given `Separate`: the fields lie in the frame and do not overlap. The
  invariant says what a client in the critical section has done: the new frame
  it stores has its number in its field and leaves the others, the bytes
  already stored are those of the new frame, and a field in one byte is old or
  new. `SentIsWhole` follows because the timer sends the buffer in one of the
  states it describes.
* `SendImplementsTransmission`: `Separate => (Spec => SendsWhatIsGiven)`, a
  step simulation. `SendInvariant` says that the frame being stored has the
  number of the request in its field and the other fields as they are in the
  buffer, so that whatever bytes `Store` takes from it, the other fields stay,
  and a bit of the request's own field comes from the one or the other
  (`MixedField`). The lock makes the request under way the only one
  (`OneUnderWay`). When the last byte is stored the buffer is the new frame,
  which is what `Finish` asks for.
* `CurrentStaysGiven`, `CurrentStaysInFrame`: `CurrentIsGiven` and
  `CurrentIsInFrame`, given
  `Separate` and that frames of other nodes differ in their head
  (`ForeignIsOther`, else one that has replaced the buffer could not be told
  from the binder's own). `CurrentIsInFrame` compares `curValue` with the
  frame, which two different statements write; the invariant puts the number
  last given in between. The field has it by `SendInvariant`; `curValue` has it
  because `set` stores the value in the same critical section, and a value that
  compares equal and is not stored again is the same one. For a UINT8_T, whose
  comparison uses an int8_t, the last needs that it holds no negative number.

Of the thin-out cycle:

* `ThinOutTypeCorrect`: `Spec => []TypeOK`.
* `DueIsPushed`, `SetBackIsPushed`: `PushedWhenDue` and `SetBackIsHarmless`
  as they stand, for every cycle, tick and way of setting the clock. Both rest
  on `StampIsKept`: the stamp and the time since the last push make the clock,
  modulo the laps of the 32 bit difference, so that `elaps_ms` is that time.
* `RepeatIsIgnored`, `ThinOutInvariantHolds`: `NotRepeated` and the invariant,
  if the types recognise repeats (`RecognisesRepeats`): a chain of one entry
  compares what it stores. `thin_byte` shows that this is needed. A chain of
  more entries needs no condition: it is compared by the values it has stored,
  after and before the frame.

Of reception and subscription:

* `TypeCorrect`: `Spec => []TypeOK`.
* `WatchedStaysRegistered`: `Spec => []WatchedIsRegistered`, inductive as it
  stands: subscriptions register first, and only an event without clients is
  removed.
* `FilterStaysWide`: `FilterFits => (Spec => []FilterCoversEvents)`, where
  `FilterFits` says that the CAN IDs of the dictionary fit in
  `subscribed_canids`; the run `filter_full` shows that it is needed.
* `ListedStaysCovered`: `Listed = Property => (Spec => []FilterCoversEvents)`.
  A dictionary whose names are all in the list satisfies `FilterFits`, since
  there are no more CAN IDs than names.
* `FeedStaysInSync`: `Reliable => (Spec => []FeedInSync)`. `FeedInSync` is
  not inductive: it compares what a client was told with the bus, but the
  binder compares the next frame with `curValue`. The invariant
  `FeedInvariant` (`FeedInvariantHolds`, also checked by TLC) puts `curValue`
  in between:
  1. a client was told the current value, unless the push of it failed or it
     is a value nobody is told (`Muted`: NOTSET, raw number 0 of an ENABLE1_T,
     an entry of a multi-property that says nothing);
  2. the current value is what the last frame on the bus says, and not muted;
  3. each entry holds 0 or the value of a raw number (`Possible`), without
     which the comparison with an int8_t could miss a change.

  A frame preserves it by `UpdateIsSoundForAll` (module `PropertyLemmas`), the
  statement about `update_iviproperty` for chains of every length. `Reliable`
  names the conditions: `FilterFits`; no `set` on a received property
  (`set_received` shows why); tables of multi-properties without gaps
  (`multi_error` shows why) and ENABLE1_T tables that do not repeat their
  first entry. The instances of `registry`, `feed` and `liveness` satisfy it.
* `ServiceImplementsFeed`: `Reliable => (Spec => ServesFeeds)`, a step
  simulation. With `FeedInvariant` before and after each step, subscribe maps to
  `Join`, unsubscribe and a closed session to `Leave`, a frame to `Push`, `Miss`
  or `Ignore` of each property of its CAN ID and to a stutter of the others;
  that `Ignore` is allowed is the heart of it.
* `IgnoredStaysSame`: `Reliable => (Spec => IgnoredIsSame)`, from the same
  invariant. `set_received` and `multi_error` violate the property without
  the condition.

Of the dictionary and the threads:

* `LoaderTypeCorrect`, `TreeStaysRight`, `SlotsAreKnown`, from
  `LoaderIsInvariant`, their conjunction: for every file, of any number of
  definitions and members. Both speak of the slots
  the loop is done with (`Settled`, those before `i`). `addToChain` changes only
  what lies behind them: by `TreeIsRight` the slot chained to is one of them,
  and the move starts at `i`. A new name settles slot `i` with its own node; for
  the slots before it `SlotIsKnown` says that none has that name.
* `EntriesAreUsable`: `Usable` for every file. It follows from the type
  invariant, the type of an entry and the limits of POS, OFFS and LEN.
* `SentStaysTimed`: `SentHasTimer`. `TimersAreSet` leaves out the CAN ID whose loop is
  in progress, and says that the loop only shrinks its array: `addSendTimer`
  looks at the number of entries from before the loop, and what is left after it
  was there before it.
* `StarStaysEverything`: `StarIsEverything`. `ListIsKept` says that the list
  has no name twice, only names of the tree, and all of them unless it is full;
  a new name is in neither.
* `NothingGetsLost`: `NothingIsLost`. `ArraysAreRight` says that slots and
  members correspond: each slot holds its member first and then later ones of
  the same name, each member is held once, and behind the slots the loop is
  done with come single members in the order of the file. The last is what
  makes `addToChain` right, which copies the slot's own member and not its
  chain: had a slot it is still to reach a chain, that would be lost.
* `FirstAlwaysWins`: `FirstDefinitionWins`, from `ArraysAreRight` and
  `FirstIsTaken`, that a name of the tree belongs to the first definition
  loaded so far that has it. Definitions are loaded one after another, and only
  a name without a node gets one.
* `LoaderImplementsMeaning`: `Spec => LoadsWhatIsMeant`, a step simulation for
  every file. `RestIsInOrder` says that the slots the loop is still to come to
  hold the last members in the order of the file, so that the slot it is at is
  the member `DefinitionFile` is at, before and after the array has moved.
  `FirstIsTaken` makes definitions and CAN IDs correspond, so that the test the
  code makes, whether the node leads to the same CAN ID, is the one
  `DefinitionFile` makes, whether the definition owns the name. That the chain
  of the slot grows by that member, and no other chain of a name changes, is
  `MovedUp` with `SlotIsKnown`.
* `ThreadsAreSafe`: `Spec => []ThreadsInvariant`. The invariant adds what makes
  `FilterCoversEvents` inductive across the threads: while the worker is about
  to write the filter, what it collected covers what is left in the registry,
  as the event loop only removes.

Only model-checked: the liveness properties (`UnusedEventIsDropped`,
`SubscriberIsFed`, `MissedPushIsMadeUp`, `LastSetIsSent`, `LoadEnds`), as
liveness under fairness is out of reach of the prover, and the violations,
which are counterexamples.

## 5. Plan

1. `PropertyValue`, `PropertyUpdate`, `Subscription`, their runs and proofs.
   *Done.*
2. `ThinOut`, `CanFrame`, `SendPath`, their runs and proofs. *Done.*
3. `CanDictionary`, its run and the proofs of all its invariants. *Done.*
4. `PropertyFeed`, and `Subscription` shown to implement it, with push errors.
   *Done.*
5. `EventThreads`: verbs on a thread against the event loop. *Done* for one
   worker.
6. `Transmission`, and `SendPath` shown to implement it. *Done.*
7. `DefinitionFile`, and `CanDictionary` shown to implement it. *Done.*

Still worth stating: more than one worker thread in the registry, which needs a
model of `tsearch` and `tdelete` down to their pointers, and the rate of frames
against the timers of the event loop.

## 6. Not modelled

* The life cycle of the CAN socket (`socketcan_open`, `socketcan_close`,
  `connection`, the start of the service): system calls in a row, once, before
  any client; its hazards are in `PROJECT.json`. The blocking read of up to six
  frames, the one second wait and extended or remote frames would need the
  rate of the frames against the timers.
* Two worker threads in the registry at once: they race inside `tsearch`, of
  which the C library promises nothing, and share `subscribed_canids`.
* Reference counts of json-c: the answers to get and list, and `tmplists`.
* `set` on a received property writes the frame buffer of its CAN ID and
  restarts descriptor 0 as its timer: `Subscription` has its effect on the
  value only.
* The pushes of slots that `addProperty_dict` refused: `CanDictionary` says
  where such slots are, `Subscription` supposes there are none.
* Failures of `timerfd_create` and `sd_event_add_io` in `addSendTimer`.
* `destroy_dict`, which only the test program in `can_json.c` calls, and
  `stopSendTimer`, which nothing calls; memory exhaustion,
  except that registering may fail; zone names, JSON spelling and log messages
  (no property is about text).
