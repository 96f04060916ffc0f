# link-core in TLA+

link-core is a signed WebSocket bus: many *links* (client processes, each with
a `kind`) connect to one *hub*, which knows who is connected, relays statuses,
RPCs, topics and directed messages, and answers RPCs of its own. This directory
models the parts of it whose correctness depends on the order of events, checks
them with TLC and proves the safety properties with TLAPS.

Everything is written from the JavaScript under `src/src/`; paths below are
relative to that directory unless they start with `test/` or name the README or
`index.d.ts` of the repository.

1. [The system](#1-the-system)
2. [Modules](#2-modules)
3. [Runs](#3-runs)
4. [Fairness](#4-fairness)
5. [Proofs](#5-proofs)
6. [Disagreements found](#6-disagreements-found)
7. [Not modelled](#7-not-modelled)
8. [Plan](#8-plan)

## 1. The system

JavaScript runs one callback at a time, so the atomic step is a callback, or
the stretch of an async function between two awaits. What interleaves are the
callbacks: socket events, timers, promise continuations, calls of the
application, and the application's listeners, which run *inside* a callback of
the library. Nothing is persisted: a restart is an empty `Outbox`, an empty
registry, a new socket.

| component | state | operations | hard behaviour |
|---|---|---|---|
| **Outbox** `internal/outbox.js` | `_items`, `_bytes`, `_drainTimer` | `enqueueOrSend`, `drain`, `scheduleDrain`, `removeById`, `removeOne`, `removeWhere`, `clear`, `cancelDrain` | congestion and throwing `ws.send` in the middle of a pass, conflation, a byte cap, wake-ups |
| **Link lifecycle** `client/link-client.js` | `ws`, `_ready`, `_stopped`, `_stopPromise`, `reconnectTimer`, `_keepaliveTimer`, `statusTimer`, `_reconnectAttempt`, `pending` | `start`, `stop`, `_connect`, `_hardStop`, `_drainForShutdown`, `_startKeepalive`, `ready`, `rpc`, `_handleRpcRequest`, `subscribe`, `unsubscribe` | `start()` and `stop()` at any moment, a drain that takes time, silent hubs |
| **Client inbound and close** `client/inbound.js` | the same fields, `peers`, `lastStatusByPeer`, `_subscriptions`, `_inboundRpc` | `handleInboundMessage`, `handleClose` | listeners that call back in the middle of `handleClose`; readiness, rejection, displacement, the reconnect ceiling |
| **Hub registry** `hub/create-hub.js` | `clients`, `statuses`, `subscriptions`, `recentIds`, `pendingSockets` | `attach`, close and pong handlers, `keepalive`, `stop`, `publishPeers` | close events that come after a successor registered; caps and timers of sockets without a hello |
| **Hub dispatch** `hub/dispatch.js` | the registry and `ws.__gateLane` | hello, `status.update`, `topic.*`, `rpc.*`, `direct` | state read before `await` and used after it: key lookups, access-control verdicts |
| **Inbound validation** `internal/inbound-validate.js`, `internal/recent.js` | replay windows per kind | `verifyEnvelope`, `has`, `add`, `forget` | copies that arrive late; pruning by count and by a wall clock |
| **Access control** `hub/acl.js`, **key resolution** `hub/secret-resolver.js`, **hello checks** `hub/hello.js` | none | asynchronous verdicts, lookups, sanitising | the time they take |
| **Hub server** `hub/server.js` | `started`, `stopping`, `stopped`, `startPromise`, `stopPromise` | `start`, `stop`, signal handlers | `stop()` during `start()`, a shutdown timeout that wins its race |
| **Event waiting** `internal/await-event.js` | listeners, timer, abort | `settleOnEvents` | events that never come |
| **Wire protocol** `protocol.js` and options, errors, logging | none | pure functions | none |

How they interact: an `Outbox` is held by the client (one for its lifetime) and
by the hub (one per socket); `handleClose` and the `hello.ack` branch drive the
link's fields and its outbox; `dispatch` reads and writes the hub's registry
and sends through the per-socket outboxes; `createHubServer` hands sockets to
`hub.attach` and calls `hub.stop` last.

What makes each part correct:

- *Outbox*: the byte counter is the size of the queue and under the cap; a
  writable queue has a drain pass coming; nothing is written twice; order is
  kept except where conflation puts a fresh status in the place of an old one;
  nothing disappears without one of the reasons the code gives for it.
- *Link*: one way up at a time, a wanted link always has one; `stop()` is
  final until `start()`; nothing is written without waiting on a socket whose
  hello was not accepted (a pass of `drain()` asks only for an open socket);
  calls do not outlive their connection; `ready` and `disconnect` pair up;
  `ready()` tells the truth. The code keeps some of this only for certain uses
  of the link: see *LinkClient* below.
- *Hub*: one socket speaks for a kind; a departed kind leaves no status and no
  subscription; the sockets without a hello stay under a cap and a timer;
  `stop()` is final for the sockets the hub had.
- *RPC, end to end*: a call settles once, as fulfilled only by what its handler
  returned; a handler runs at most once; every way a call can be refused is
  answered; a cancel that was not lost reaches the handler; the counts of
  running handlers come back down.
- *Topics, end to end*: the hub's table comes to agree with the subscriber's;
  posts arrive in order and at most once, and none from a socket that was
  replaced.
- *Peers and statuses*: once nothing is on its way, a client's view is the
  hub's, and the application was told of each connection.
- *Replay windows*: a copy of a message is not accepted a second time, as far
  as clocks allow it.
- *Hub server*: a `stop()` that was fulfilled leaves nothing behind;
  `onShutdown` runs last; `stop()` settles.

## 2. Modules

| module | models |
|---|---|
| `Outbox` | `internal/outbox.js` with the steps of both owners, the hub (`makeSocketOutbox`) and the client (constructor of `LinkClient`) |
| `Mailbox` | the abstract promise of an outbox, which `Outbox` implements |
| `Hub` | registry, pending sockets, hello, status, subscriptions, keepalive, stop |
| `LinkClient` | one link from `start()` to `stop()`, with its calls and a `ready()` promise |
| `HubServer` | `createHubServer`: start, stop, timeout |
| `Relay` | an RPC from caller to hub to target and back, with deadlines, cancels and broken links |
| `RpcPromise` | the abstract promise of `link.rpc()`, which `Relay` implements |
| `Topics` | publish/subscribe and direct messages, from publisher and subscriber through the hub |
| `PeerView` | what a client knows of its peers and their statuses |
| `RecentIds` | replay windows and the part of `verifyEnvelope` that consults them |
| `MCOutbox`, `MCHub`, `MCRecentIds` | values of constants and symmetry for TLC |
| `OutboxProofs`, `HubProofs`, `LinkClientProofs`, `HubServerProofs`, `RecentIdsProofs`, `RelayProofs`, `TopicsProofs`, `PeerViewProofs` | theorems, one module per component |

How they fit: `Outbox`, `Hub`, `LinkClient`, `HubServer` and `RecentIds` are
single components. `Relay`, `Topics` and `PeerView` are compositions: each
follows one kind of traffic through a client, the hub and another client, takes
the queues as the FIFOs that `Outbox` promises (with conflation in `PeerView`),
and takes connecting and disconnecting as the steps that `LinkClient` and `Hub`
detail. A queue that is full refuses a message at any time there, since how
full it is depends on traffic that is left out.

**Outbox.** `items`, `bytes`, `drainTimer` are the fields of the class.
`perSocket` is chosen in `Init` and says who the owner is: `TRUE` the hub,
whose outbox dies with its socket, `FALSE` the client, whose outbox lives on.
`sock`, `ready`, `stopped`, `draining` are what the owner's `getSocket`,
`readyToWrite` and `shouldSchedule` look at. `congested` stands for
`ws.bufferedAmount > maxBufferedBytes`. A queue item is a member of `Items`,
with a size, a conflation key and membership of the sets the owners'
predicates test (`Rpc`, `FeatureBound`, `Unserializable`); each call passes a
new object, so an item is offered once. `DrainPass` is one pass of `drain()`:
it writes a prefix of the queue, drops what can never be serialised, stops at
congestion or a throwing `ws.send` and schedules a retry. An item larger than
the estimate, the listeners of the events and the log are left out. The
history variables `stamp`, `clock`, `refused` and `callMark` are for the
properties. Sizes are positive (`estimateSize` never returns 0).

**Mailbox.** A line of messages: a message takes over the place of the waiting
one of its class, or goes to the back, or straight through an empty line;
messages may be withdrawn; what leaves from the front is delivered, in order.
`Outbox` implements it with `line <- items`, `delivered <- wire`. The
refinement contains that nothing is written twice (`New`) and that only
conflation overtakes.

**Hub.** Each socket goes `new`, `open`, `closing` (close or terminate was
called, its event is to come), `closed`. `HelloArrives` is the branch up to the
await of the key lookup; `HelloAccepted`, `HelloDropped` and `BadHello` are
what follows; several lookups of one socket may be under way. A subscribe goes
through `ws.__gateLane` when `canSubscribe` is configured: `LaneStart` asks,
`LaneVerdict` is the continuation with its re-check, which is made against
whoever speaks for the kind then. A closing socket still delivers what the
network had for it. `stop()` sets no flag that `attach()` or a hello would look
at: a socket attached after it is tracked, may say hello and is registered like
any other, without a keepalive (`late`, history, are those sockets). What the
peers are told is in `PeerView`, the replay windows in `RecentIds`, posts and their lanes in `Topics`.

**LinkClient.** `sock` folds `this.ws` and its `readyState`; a socket that was
detached (`this.ws` replaced, listeners removed) is `none`. `draining` is
`_stopPromise`, `closing` the interval in which `handleClose` runs listeners.
`waiter` is one promise of `ready()`, with or without a timeout or an
`AbortSignal` (`settleOnEvents`). `answer`, `carried`, `told`, `wanted` and
`used` are history. `Uses` names what the application does besides calling
`start()` when the link is down and `stop()` when it is up:

- `"restart while closing"`: `start()` while the old socket is closing;
- `"restart while draining"`: `start()` while a graceful stop drains;
- `"start from a listener"`, `"stop from a listener"`: `start()` or `stop()` in
  a `disconnect` or `reconnecting` listener, which `handleClose` runs before it
  schedules the reconnect.

The documentation allows them all. Run `Link` has the first three,
`LinkListener` the last. `used` records which of them a behaviour has made so
far. Six properties name such a use as their exception (`ClosesFinish`,
`DrainsFinish`, `ListenersReturn`), because the code does not keep them after
it:

- `"restart while closing"` breaks `NoStrandedCalls` and with it
  `DeadHubFailsCalls`. `start()` detaches the closing socket
  (`client/link-client.js:253`), and the `handleClose` that would have rejected
  its calls and cleared its status interval never runs: the calls wait for their
  own deadline, and the next connection pushes no status when it becomes ready
  because an interval is still set (`client/inbound.js:115`). It breaks
  `ToldWhenDown`, since `disconnect` is not emitted either. And it bends
  `ReadyTellsTruth`: `_ready` survives until the new socket opens, and `ready()`
  and `isReady()` say that a link is ready which is still connecting
  (`client/link-client.js:723`; README.MD:776 calls `isReady()` "the
  safe-to-publish/send/rpc gate"). The property excepts just that interval.
  `WritesOnAcceptedLink` holds under every use: nothing goes out early.
- `"restart while draining"` breaks `StoppedStaysDown` by `stop()`, `start()`,
  `stop()` within one drain, since the last call returns the promise of the
  first (`client/link-client.js:280`) and the end of the drain starts the link;
  and `ToldWhenDown`, since a link that becomes ready during the drain is torn
  down at its end with the `wasReady` of the first `stop()`.
- `"stop from a listener"` breaks `StoppedStaysDown` (run `LinkListener`) and
  `OneWayUp`: the reconnect is scheduled on the stopped link.
- `"start from a listener"` breaks `OneWayUp`: `start()` connects, and
  `handleClose` then sets `reconnectTimer` beside the new socket
  (`client/inbound.js:367`). When that timer fires while the socket is there,
  `_connect` opens a second one, and the listeners of both work on the one
  client; the hub closes the older of the two as replaced, which the client
  takes for its own displacement. `LinkClient` follows one socket and ends
  there: `OneSocket` lets the timer fire only after the socket went, and nothing
  is claimed about a client with two.

A `start()` in a listener of `reconnect-exhausted`, or of the `disconnect` of a
client that was displaced or stopped, is the same as a `start()` right after
that step, since the rest of the function changes nothing; so are `ready()` and
`rpc()` in any of these listeners. Listeners of other events, such as
`rpc.disconnect`, are taken not to call back into the link.

**HubServer.** `starting` is a `startPromise` whose `listen()` is not answered;
`work` is the point the shutdown's async function has reached, `outcome` the
fate of the promise `stop()` returned; the two part when the timeout wins the
race. When `http` is `given` the application's own HTTP server is there before
`start()` and stays after `stop()`. A shutdown that timed out has `stopped` set
while sockets, port and hub may still be up; `ComesDown` is what remains true.

**Relay.** A caller, the hub and a target, with an outbox and a socket in each
direction. A call goes to the target or to a handler of the hub
(`to: 'server'`); `gated` says whether `canRpc` is asked, and its answer comes
at any later time. `link[e]` is the connection of an end as the client sees it,
`known[e]` as the hub does: `"this"` the same socket, `"earlier"` one whose
close the hub has not seen, `"none"`. Either side may notice first. What each
side drops when it notices is in `CallerCloses`, `TargetCloses`, `HubLoses`.
A handler runs on when its link breaks, with its signal aborted, and is counted
until it returns. `missed` is history: the calls of which a message was lost
with a socket, did not fit in a queue, or whose cancel overtook its request.
`RpcPromise` is the caller's side of it: an `outcome` per call and what became
of its handler.

**Topics.** One subscriber with its table of handlers, its outbox and its
socket; the hub's table (`subs`), the lane of `canSubscribe`; one publisher
with two sockets in turn and a lane of posts for each. `HelloAck` is the
branch that subscribes again to everything the link has handlers for, behind
what is still queued from before. History: topics given up while offline,
inherited from a replaced socket, overtaken in the lane, refused or denied.

**PeerView.** The hub's maps `clients` and `statuses` as far as one client sees
them: `peers.update`, which carries the whole registry, `status.update`, which
takes the place of the waiting one of the same peer, and the snapshot after a
hello. `connectedAt` is a clock reading, as in the code; `connection`, history,
is the connection it stands for. `noticed` is the connection of each peer that
the application heard of by `peer.connect` or `peer.replaced`.

**RecentIds.** One receiver, a window per sender with the entries in insertion
order, each with the time it was added. A message is a member of `Messages`
with a sender and a timestamp; a copy of it may arrive at any later moment.
`now` is `Date.now()` of the receiver and may be set back. `Accept` is
`verifyEnvelope` when it succeeds, `has` with its removal of an expired entry,
and `add` with its pruning and its cap. It reads the clock three times, for the
skew check (`internal/inbound-validate.js:95`), in `has` and in `add`
(`internal/recent.js:41`, `50`), and the clock may move between the readings.
History: when each message was last accepted (`takenAt`), `again`, `untimely`,
`lost`, `steppedBack`.

## 3. Runs

All runs are exhaustive. `CHECK_DEADLOCK FALSE` is given where the system may
rest: every queue empty, every socket closed, every call made.

| run | shows | bounds |
|---|---|---|
| `Outbox` | `ByteAccounting`, `NoStuckQueue`, `NoSilentDrop`, `EventuallyFlushed` and the refinement of `Mailbox`, for both owners | two statuses of one key (sizes 1, 2), a call that cannot be serialised (1), a directed message that needs a feature (2), cap 4 |
| `OutboxStopStart` | violates `AcceptedSurvives` | the same, every item serialisable |
| `HubGated` | `PendingTracked`, `NoOrphans`, `StopIsFinal` while lookups and verdicts are pending and sockets come after `stop()` | three sockets, one kind, one topic, two lookups under way, two pending sockets, one subscribe per lane |
| `HubLive` | `OneSocketPerKind`, `VanishedPeerForgotten` without access checks | two sockets, two kinds, one topic, two lookups under way, one pending socket |
| `Link` | `OneWayUp`, `KeepsTrying`, `WritesOnAcceptedLink`, `NoStrandedCalls`, `ToldWhenDown`, `StoppedStaysDown`, `ReadyTellsTruth`, `DeadHubFailsCalls`, `ComesBack` with `start()` at every moment, `stop()` at every moment outside the listeners of a close | two calls, two reconnects |
| `LinkListener` | violates `StoppedStaysDown` | one call, one reconnect |
| `ServerLife` | `NothingLeftBehind`, `HookRunsLast`, `StopSettles`, `ComesDown`, with an HTTP server of its own or the application's | two sockets |
| `Relay` | `CancelStops`, `Answered` and the refinement of `RpcPromise`; the type invariant ties both counters to the handlers that run | two calls, one handler at a time on hub and target, one broken link |
| `Topics` | `LingersOnlyIfOffline`, `DeliveredInOrder`, `Resubscribes` | one topic, two handlers, two posts, three uses of `subscribe` and `unsubscribe`, one broken link |
| `PeerView` | `PeersConverge`, `StatusConverges` | one peer, two clock readings, four connections, two statuses, one broken link |
| `PeerStatus` | violates `LatestStatusArrives` | one peer, three connections, three statuses |
| `Replay` | `AcceptedOnce`, `RecentRemembered` | three messages of one peer, windows of two ids, times 0 to 3, an age of 1 |

The type invariant of each module but `HubServer` is checked by one of its
passing runs; that of `HubServer` is only proved. Where a type invariant
says more than types it says so: in `Relay` it has the counters, in `Topics`
that a forgotten subscriber leaves nothing, in `PeerView` the conflation, in
`RecentIds` the cap.

Why the bounds are enough to be interesting:

- *Outbox.* Four items of total size 6 against a cap of 4 meet refusal at the
  cap, refusal of a conflation that would grow past it, conflation at the head,
  in the middle and at the tail, and drain passes that stop at every position.
  Sockets, stops and restarts are not bounded.
- *Hub.* Sockets are used once, as in the code, so the number of sockets
  bounds the number of connections: two are a peer and its successor, the third
  a bystander or a socket in the way of the pending cap. `MaxLookups = 2` gives
  two hellos of one socket or of two under way at once. One subscribe in a lane
  is enough, since the properties are about a verdict that comes late.
  `HelloTimer = TRUE` covers `helloTimeoutMs = 0` for safety: the timer may
  always be the last to fire. Three sockets with two kinds is out of reach.
  The proofs cover every number of sockets, kinds and topics.
- *LinkClient.* Starts, stops, drains and sockets are not bounded; the
  reconnect ceiling is the option of that name, and each call is made once. Two
  calls let one be settled while the other is pending.
- *HubServer.* `start()` may fail and be called again any number of times. The
  sockets bound the connections.
- *Relay.* Two calls and one slot meet the limit on either side, two answers
  behind each other, and a cancel among another call's messages. `MaxDrops`
  bounds only breaks that begin while both sides agree on the socket; one is
  enough for a request, a cancel or an answer to be lost anywhere, and for a
  handler that is still running when its link is back. Two breaks have also
  been checked.
- *Topics.* Three uses are a subscribe, its unsubscribe and a subscribe in
  each order, around one break; two posts can swap. Two breaks without posts
  have also been checked.
- *PeerView.* Four connections allow a peer to leave and return while an
  update of each change still waits; the second clock reading tells two
  connections apart or, at the same reading, does not. `PeerStatus` needs three
  statuses: one that is retained, one that waits, one that takes its place.
  Two peers are out of reach; they share the order of the queue only.
- *RecentIds.* Timestamps 1, 2 and 3 with an age of 1 and a clock from 0 to 3
  have messages that are early, in time and late, and clocks that move within a
  verification; windows of two ids overflow with three messages. The windows of
  several peers are separate. The proofs cover all windows, peers and times.

Symmetry is used in `HubGated` only.

## 4. Fairness

Fairness is asked only of what the process, Node or the network does by itself:

- `Outbox`: the drain timer fires; the network takes bytes from an open
  socket's buffer; `ws.send` does not throw for ever on an open socket (strong
  fairness of a pass that shortens the queue, since passes that fail alternate
  with passes that could succeed).
- `Hub`: the keepalive interval fires; a socket that was closed or terminated
  gets its close event (`ws` destroys it after its own timeout). Nothing is
  asked of peers, key lookups or verdicts.
- `LinkClient`: timers fire, the budget of a graceful stop ends, a closing
  socket closes, and a handshake is answered or fails. The last is an
  assumption: `_connect` passes no `handshakeTimeout`, so a host that accepts
  the TCP connection and never answers the upgrade would keep the link
  connecting (`client/link-client.js:1159`). Nothing is asked of a hub once the
  link is open.
- `HubServer`: `listen()` is answered, timers fire, sockets asked to close do.
  `ComesDown` names the answering of requests as its own premise, and
  `onShutdown()` need never end.
- `Relay`: sockets deliver, handlers return and `canRpc` answers, a link that
  the hub has closed closes at the client, the hub notices a socket that is
  gone (keepalive) and clients reconnect. No deadline is assumed: `Answered` is
  about calls that have none.
- `Topics`: sockets deliver, `canSubscribe` answers, both ends notice a broken
  link and the subscriber reconnects.

## 5. Proofs

TLAPS checks, for every value of the constants:

| theorem | says |
|---|---|
| `OutboxProofs!TypeCorrect` | `Spec => []TypeOK` |
| `OutboxProofs!BytesAccounted` | `Spec => []ByteAccounting` |
| `OutboxProofs!NeverStuck` | `Spec => []NoStuckQueue` |
| `OutboxProofs!NothingLostQuietly` | `Spec => NoSilentDrop` |
| `OutboxProofs!RefinesMailbox` | `Spec => ImplementsMailbox` |
| `HubProofs!TypeCorrect` | `Spec => []TypeOK` |
| `HubProofs!OneSpeaker` | `Spec => []OneSocketPerKind` |
| `HubProofs!NothingOrphaned` | `Spec => []NoOrphans` |
| `HubProofs!Tracked` | `Spec => []PendingTracked` |
| `HubProofs!Final` | `Spec => []StopIsFinal` |
| `LinkClientProofs!TypeCorrect` | `Spec => []TypeOK` |
| `LinkClientProofs!NeverTwoWaysUp` | `Spec => []OneWayUp` |
| `LinkClientProofs!NeverGivesUpQuietly` | `Spec => []KeepsTrying` |
| `LinkClientProofs!NeverWritesEarly` | `Spec => []WritesOnAcceptedLink` |
| `LinkClientProofs!CallsNeverStranded` | `Spec => []NoStrandedCalls` |
| `LinkClientProofs!DownIsTold` | `Spec => []ToldWhenDown` |
| `LinkClientProofs!StaysDown` | `Spec => StoppedStaysDown` |
| `LinkClientProofs!ReadyIsTrue` | `Spec => ReadyTellsTruth` |
| `HubServerProofs!TypeCorrect` | `Spec => []TypeOK` |
| `HubServerProofs!StopLeavesNothing` | `Spec => []NothingLeftBehind` |
| `HubServerProofs!HookLast` | `Spec => []HookRunsLast` |
| `RecentIdsProofs!TypeCorrect` | `Spec => []TypeOK` |
| `RecentIdsProofs!NeverTwice` | `Spec => []AcceptedOnce` |
| `RecentIdsProofs!WindowsRemember` | `Spec => []RecentRemembered` |
| `RelayProofs!TypeCorrect` | `Spec => []TypeOK` |
| `RelayProofs!PromiseKept` | `Spec => KeepsPromise` |
| `RelayProofs!CancelsStop` | `Spec => []CancelStops` |
| `TopicsProofs!TypeCorrect` | `Spec => []TypeOK` |
| `TopicsProofs!InOrder` | `Spec => []DeliveredInOrder` |
| `TopicsProofs!GivenUp` | `Spec => []LingersOnlyIfOffline` |
| `PeerViewProofs!TypeCorrect` | `Spec => []TypeOK` |
| `PeerViewProofs!PeersLearned` | `Spec => []PeersConverge` |
| `PeerViewProofs!StatusLearned` | `Spec => []StatusConverges` |

With these, every invariant, every action property and both refinements that a
passing run checks hold for all values of the constants.

**Outbox.** Assumed: `OutboxAssumption` (sizes and the cap are positive).
`ByteAccounting` alone is not inductive: a conflation subtracts the size of one
item and adds that of another, which is right only if no item is queued twice.
`IInv` therefore adds that the queue is injective and that every queued item
has a stamp not above the clock, so that an item offered now is not queued yet.
The sizes are cardinalities of sets of cells, one per byte, so that the lemmas
about sums are lemmas about disjoint unions of finite sets
(`TotalSizeUnion`, `TotalSizeRemove`). `Subsequence` and the two halves of a
drain pass have lemmas of their own (`SubsequenceProperties`,
`SplitProperties`, `DrainPassProperties`). There is one lemma or step per
action.

`NothingLostQuietly` needs to know in addition what the history variables say
(`Written`): an item is stamped when it is accepted, and what was written does
not wait any more, so that an item that left the queue and was not written
before can only have been written now. `RefinesMailbox` maps each step to a
step of `Mailbox` or to none. What the two have in common is that an item
offered now is in neither the queue nor the wire (`New`), which is the
freshness of its stamp; a pass of `drain()` is then one delivery of a prefix
together with the withdrawal of what cannot be serialised.

**Hub.** Assumed: `HubAssumption`. The four properties need each other: that a
late verdict leaves no orphan rests on the registered socket not being closed
(`OneSocketPerKind`), and that `stop()` is final rests on the sockets that
could still say hello being tracked (`PendingTracked`). `IInv` joins them with
`Maps`, the types of what they speak of, `NewAreUnknown` (a socket that was not
attached has no kind) and `Finite`: the pending sockets are finite although
`Sockets` need not be, so that the cap is a statement about numbers. Every step
that only closes sockets is an instance of one lemma (`ClosesKeepIInv`), every
step that touches neither sockets nor registry of another
(`ElsewhereKeepsIInv`). `TypeCorrect` is separate, since the lanes play no part
in the rest.

**LinkClient.** Assumed: `LinkAssumption`. The theorems hold for every set
`Uses`, calls from listeners included, up to the bound `OneSocket`; only
`StaysDown` assumes that no listener of a close event calls `stop()`, without
which it is false, as run `LinkListener` shows. `IInv` joins the three
properties with `Fields` and `QuietClose`: while `handleClose` runs its
listeners an attempt is left, which keeps `_reconnectAttempt` under the ceiling
when `ScheduleReconnect` raises it, and there is no socket and no stopped flag
unless a listener made them.

What callers and listeners are told rests on a second invariant, `Told`, over
the first. Its parts say for which socket `ready` was set (`ReadyOnSocket`),
when `disconnect` was emitted (`EmittedOnce`), that a drain means a stop and
remembers whether `ready` was told (`DrainIsStop`), that a link that was stopped
has no reconnect coming and one that lives is wanted (`LivesIfWanted`), and on
which socket the pending calls were sent (`CallsOnSocket`). The parts carry the
same conditions as the properties: what a use breaks is excepted from the moment
it was made, and nothing else.

**HubServer.** Nothing is assumed. Neither property is inductive: what is up
depends on how far the work has come, and whether the promise may be fulfilled
on the flags. `IInv` adds `FlagsMatch`, which ties `started`, `stopping`,
`stopped`, the timeout and the promise to each other and to the point the work
has reached, and `WorkDone`, which says what is down at each of these points.
`FlagsMatch` has the reason why waiting for a start under way is right: the
timeout cannot be armed while `listen()` is unanswered.

**RecentIds.** Assumed: `WindowAssumption`. That no copy is accepted twice is
the meeting of two facts that have to be carried along: the entry of an
accepted message is in its window, with the time of its acceptance, for
`MaxAge` (`Remembered`), and the message was signed before it was accepted
(`SignedBefore`), so that once the entry may go, the message itself fails the
skew check, or would have failed it when `has()` read the clock (`untimely`). The argument needs that `Prune`, which drops from the front up to
the first fresh entry, drops no fresh one; the order of the entries does not
matter for that. `TypeCorrect` is separate (`ListOf`): that an id is in a window
once, under its own peer and within the cap, is a matter of what `has()` takes
out and what `add()` prunes, evicts and appends, step by step.

**Relay.** Assumed: `RelayAssumption` (finitely many calls; one slot at least
on either side). A request moves through six places: the caller's outbox and
socket, the gate, the hub's outbox and the target's socket, the handler.
`OnePlace` says that it is in one of them at most, and once; `Counts` ties the
counters to the handlers, and `Earned` says that a queued answer "ok" belongs
to a handler that has returned. The type invariant and the refinement of
`RpcPromise` follow from these three. That a handler runs at most once is
`OnePlace`: a request that starts a handler was in the target's socket, hence
the handler had not run before. `CancelsStop` needs where the cancel is
(`Follows`): behind its request in the same queue or in an earlier one, place
by place, or the target's socket is one the hub has already closed, whose close
event aborts the handler (`LinkView`). A cancel that finds its request in the
hub's outbox takes it back, and that it is the only copy is `OnePlace` again.

**Topics.** Assumed: `TopicsAssumption`. For the order of posts (`Ordered`):
posts that pass the same checks are in order within each queue and across the
queues, from the handlers back to the lane of the current socket, and all are
below the next to be made. Only the lane of the publisher's current socket
takes part, because a verdict on a post of a replaced socket sends nothing. For the
subscriptions (`Lingers`): of a topic that nobody handles, and that no history
variable excuses, the last word in the outbox is an unsubscribe, or there is no
subscribe in it; and on an accepted connection the last word of outbox and
socket together is one, or the hub does not list it and will not from its
lane.

**PeerView.** Assumed: `PeerViewAssumption` (finitely many peers, bounds are
numbers). What the client has to learn is in the last message about it that is
on its way, or it knows it. For the registry that is the last `peers.update`
(`PeersOnTheWay`); for the status of a peer the last message that sets it or
would leave another (`StatusOnTheWay`): a `status.update` of the peer, a
snapshot with a status of it, or a `peers.update` without it. A status is
conflated into the middle of the queue, and there it is still the last message
about the peer because the peer has no other status waiting and no snapshot
waits behind one (`Waits`), and because no news of the peer's departure does,
which is what `jumped` excepts. That the application was told of the right
*connection* is a third fact (`Distinct`): as long as no two connections of a
peer fell into one reading of the clock, the same time in the client's table,
in a message on its way or in the registry is the same connection.

Only model-checked: the liveness properties (`EventuallyFlushed`,
`VanishedPeerForgotten`, `DeadHubFailsCalls`, `ComesBack`, `StopSettles`,
`ComesDown`, `Answered`, `Resubscribes`), since TLAPS has no `ENABLED`. The
bound `OneSocket` of `LinkClient` holds for its theorems as for its runs.

## 6. Disagreements found

Each is a run TLC finds violated, against a sentence of the repository.

- `OutboxStopStart`: `start()` during a graceful stop makes the link sendable
  again; what `send()` then accepts is cleared when the stop ends
  (`client/link-client.js:377`, against its comments at 104-106 and 628-629).
- `LinkListener`: `stop()` in a `disconnect` or `reconnecting` listener is
  followed by a reconnect (`client/inbound.js:367`, `index.d.ts:1161`).
- `PeerStatus`: a status is conflated into a message of its peer's earlier
  connection, which stands before the news that the peer left; the client
  stores the status and then deletes it with the departed peer, and never gets
  it again (`internal/outbox.js:223` with `client/inbound.js:157-160`, against
  README.MD:1224, "A congested recipient now retains the latest status from
  *each* peer").

Behaviour that the documentation allows or calls best effort, and that a
property names as its exception:

- A cancel that arrives while `canRpc` is asked overtakes its request, and the
  handler runs unaborted (`missed` in `Relay`; README.MD:568 calls the cancel
  best effort).
- An unsubscribe overtakes a subscribe that waits for `canSubscribe`, and the
  subscription is recorded after it (`hub/dispatch.js:411`; `overtaken`).
- A topic given up while the link is down stays with the hub if the subscribe
  was already queued or the hub has not noticed the break (`offline`), and the
  subscriptions of a replaced socket stay with the kind (`inherited`).
- Two connections of a peer within one millisecond have one `connectedAt`, and
  `peer.replaced` is not emitted (`client/inbound.js:152`; `sameInstant`).
- A status of a peer that left while the client was down stays in
  `lastStatusByPeer` if the peer is back before the client; `StatusConverges`
  speaks only of peers of which the hub has a status.
- The window's promise depends on the clock: a timestamp ahead of the
  receiver's clock outlives its entry, and a copy whose age passes the limit
  between the skew check and `has()` finds its id just expired and is taken
  again (`untimely`); a clock set back gives a pruned id's message a second time
  in which it passes the skew check (`steppedBack`; the comment at
  `internal/recent.js:13-20` covers the ids that are kept, not those already
  pruned).
- `hub.stop()` does not refuse sockets that are attached after it. They work,
  but nothing pings them, so one that vanishes stays registered (`late`).
- Restarts while closing or draining and calls from the listeners of a close, as
  described under *LinkClient*. README.MD:1086 and 1257 speak of `start()` and
  `stop()` that race with an old socket; what they rule out, a second reconnect
  beside a live socket, is what a `start()` in a listener brings about.

## 7. Not modelled

- Signing, verification and serialisation (`protocol.js`), the checks of
  options (`internal/options.js`), error classes, logging, re-exports: pure
  functions and formatting, without state or order that a property could be
  about.
- What a verdict or a lookup decides (`hub/acl.js`, `hub/secret-resolver.js`)
  and the sanitising of a hello (`hub/hello.js`): either answer is possible, at
  any later time.
- HTTP routes: a request is under way or answered.
- Sizes of envelopes: `estimateSize` is a constant of an item.
- `handle()` and `unhandle()` while calls run: `Relay` lets any request meet a
  handler or none.
- `waitFor()` on events other than those of `ready()`, and the diagnosis the
  client logs when a hub sends no `hello.ack`.
- The read-only getters (`health`, `getPeers`, `getPeerStatus`).

## 8. Plan

The operations that change state are modelled, and their safety properties are
proved. What is left:

1. The safety half of the liveness properties, as far as it can be stated
   without `ENABLED`: that a call that is pending and not `missed` is somewhere
   on its way (`Answered`), and that a subscriber with handlers has said so on
   its connection or will (`Resubscribes`).
2. A client with two sockets, which `LinkClient` ends before: which of its
   fields each of the two then works on.
