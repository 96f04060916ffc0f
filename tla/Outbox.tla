------------------------------- MODULE Outbox -------------------------------
(***************************************************************************)
(* The bounded outbound queue of src/src/internal/outbox.js, with the      *)
(* steps its two owners take around it.  One instance backs one socket:    *)
(*                                                                         *)
(*  - the hub gives every peer socket an outbox of its own (create-hub.js, *)
(*    makeSocketOutbox); the queue dies with the socket;                   *)
(*  - the client holds one for its lifetime (link-client.js, constructor); *)
(*    the queue survives reconnects and waits for hello.ack.               *)
(*                                                                         *)
(* perSocket says which owner; it never changes.  JavaScript runs every    *)
(* callback to completion, so a method call is one atomic step; what       *)
(* interleaves are calls, the drain timer, the socket's events and the     *)
(* network emptying the socket's buffer.  The listeners of the events an   *)
(* outbox emits are taken not to call back into it.                        *)
(***************************************************************************)
EXTENDS Integers, Sequences, FiniteSets, Functions

CONSTANTS
    Items,            \* the messages handed to this outbox, each a new object
    Size,             \* estimateSize(item), in bytes
    Key,              \* conflationKey(item), NoKey where the code has null
    NoKey,
    Unserializable,   \* items for which buildEnvelope throws
    Rpc,              \* rpc.request and rpc.cancel items
    FeatureBound,     \* items an older hub has no feature for
    MaxOutboxBytes

ASSUME OutboxAssumption ==
    /\ Size \in [Items -> Nat \ {0}]
    /\ DOMAIN Key = Items
    /\ MaxOutboxBytes \in Nat \ {0}

VARIABLES
    perSocket,   \* TRUE: the hub's outbox; FALSE: the client's
    items,       \* this._items
    bytes,       \* this._bytes
    drainTimer,  \* this._drainTimer is set
    sock,        \* the live socket: "open", "closing" (its close event is
                 \* still to come) or "closed" (also: connecting, none)
    ready,       \* the client's _ready; TRUE on the hub
    stopped,     \* the client's _stopped; FALSE on the hub
    draining,    \* a graceful stop() is pumping the queue (_stopPromise)
    congested,   \* ws.bufferedAmount > maxBufferedBytes
    wire,        \* history: what ws.send was called with, in order
    stamp,       \* history: stamp[m] = k iff m was the k-th item accepted
    clock,       \* history: how many items were accepted
    refused,     \* history: items the caller was told were not taken
    callMark     \* history: the clock at the last stop() or start()

queueVars == <<items, bytes, drainTimer>>
ownerVars == <<perSocket, sock, ready, stopped, draining>>
history   == <<stamp, clock, refused, callMark>>
vars == <<queueVars, ownerVars, congested, wire, history>>

-----------------------------------------------------------------------------
\* The bytes of a set of items: one pair per byte.
Cells(S) == UNION {{m} \X (1..Size[m]) : m \in S}
TotalSize(S) == Cardinality(Cells(S))

\* The one sequence that lists, in order, the elements of s that are in keep.
Subsequence(s, keep) ==
    LET P == {i \in DOMAIN s : s[i] \in keep}
        n == Cardinality(P)
        Increasing(f) == \A i, j \in 1..n : i < j => f[i] < f[j]
    IN  {[i \in 1..n |-> s[f[i]]] :
            f \in {g \in [1..n -> P] : Range(g) = P /\ Increasing(g)}}

ReadyToWrite   == sock = "open" /\ ready
ShouldSchedule == ~stopped

\* send() on the hub refuses a socket that is not open; the client's queue
\* takes messages in every state of the link.
Offered(m) ==
    /\ stamp[m] = 0
    /\ m \notin refused
    /\ perSocket => sock = "open"

Accept(m) ==
    /\ clock' = clock + 1
    /\ stamp' = [stamp EXCEPT ![m] = clock + 1]
    /\ UNCHANGED <<refused, callMark>>

Refuse(m) ==
    /\ refused' = refused \cup {m}
    /\ UNCHANGED <<stamp, clock, callMark>>

-----------------------------------------------------------------------------
(* enqueueOrSend: the fast path, then enqueue.                             *)

FastPath == items = <<>> /\ ReadyToWrite /\ ~congested

SendNow(m) ==
    /\ Offered(m)
    /\ FastPath
    /\ m \notin Unserializable
    /\ wire' = Append(wire, m)
    /\ congested' \in BOOLEAN
    /\ Accept(m)
    /\ UNCHANGED <<queueVars, ownerVars>>

\* A payload that cannot be signed is dropped: retrying is pointless.
RefuseUnserializable(m) ==
    /\ Offered(m)
    /\ FastPath
    /\ m \in Unserializable
    /\ Refuse(m)
    /\ UNCHANGED <<queueVars, ownerVars, congested, wire>>

\* enqueue is reached with the fast path closed, or after ws.send threw.
Enqueues(m) == Offered(m) /\ ~(FastPath /\ m \in Unserializable)

SameKey(i, m) == Key[m] # NoKey /\ Key[items[i]] = Key[m]
Conflates(m, i) ==
    /\ SameKey(i, m)
    /\ \A j \in 1..(i - 1) : ~SameKey(j, m)

\* Mutants: the replaced status stays counted; the new one is not counted.
Projected_KeepsOld(m, i) == bytes + Size[m]
Projected_DropsNew(m, i) == bytes - Size[items[i]]
Projected(m, i) == bytes - Size[items[i]] + Size[m]

\* Mutant: the fresh status goes to the back of the queue.
Replaced_AtBack(m, i) ==
    SubSeq(items, 1, i - 1) \o SubSeq(items, i + 1, Len(items)) \o <<m>>
Replaced(m, i) == [items EXCEPT ![i] = m]

\* A queued item with the same conflation key is replaced where it stands.
Conflate(m) ==
    /\ Enqueues(m)
    /\ \E i \in DOMAIN items :
         /\ Conflates(m, i)
         /\ Projected(m, i) <= MaxOutboxBytes
         /\ items' = Replaced(m, i)
         /\ bytes' = Projected(m, i)
    /\ drainTimer' = (drainTimer \/ (ReadyToWrite /\ ShouldSchedule))
    /\ Accept(m)
    /\ UNCHANGED <<ownerVars, congested, wire>>

Push(m) ==
    /\ Enqueues(m)
    /\ \A i \in DOMAIN items : ~SameKey(i, m)
    /\ bytes + Size[m] <= MaxOutboxBytes
    /\ items' = Append(items, m)
    /\ bytes' = bytes + Size[m]
    /\ drainTimer' = (drainTimer \/ (ReadyToWrite /\ ShouldSchedule))
    /\ Accept(m)
    /\ UNCHANGED <<ownerVars, congested, wire>>

\* onOverflow, on either path; the caller sees false.
Overflow(m) ==
    /\ Enqueues(m)
    /\ \/ \E i \in DOMAIN items :
             /\ Conflates(m, i)
             /\ Projected(m, i) > MaxOutboxBytes
       \/ /\ \A i \in DOMAIN items : ~SameKey(i, m)
          /\ bytes + Size[m] > MaxOutboxBytes
    /\ Refuse(m)
    /\ UNCHANGED <<queueVars, ownerVars, congested, wire>>

-----------------------------------------------------------------------------
\* Mutant: the item ws.send threw for goes too.
Rest_DropsFailed(q, n) == SubSeq(q, n + 2, Len(q))
Rest(q, n) == SubSeq(q, n + 1, Len(q))

\* Mutant: a pass that stops at a congested socket asks for no other pass.
Retry_Never(q, n) == FALSE
Retry(q, n) == n < Len(q) /\ ShouldSchedule

(* drain() on queue q of b bytes, with timer t at its start.  The loop     *)
(* writes or drops the first n items; what is left is left because the     *)
(* socket became congested or ws.send threw, and another pass is asked for.*)
DrainPass(q, b, t) ==
    \/ /\ sock # "open"
       /\ IF perSocket THEN items' = <<>> /\ bytes' = 0
                       ELSE items' = q /\ bytes' = b
       /\ drainTimer' = t
       /\ UNCHANGED <<wire, congested>>
    \/ /\ sock = "open"
       /\ \E n \in 0..Len(q) :
            /\ n > 0 => ~congested
            /\ items' = Rest(q, n)
            /\ bytes' = IF n = Len(q)
                        THEN 0 ELSE b - TotalSize(Range(SubSeq(q, 1, n)))
            /\ drainTimer' = (t \/ Retry(q, n))
            /\ \E sent \in Subsequence(SubSeq(q, 1, n), Items \ Unserializable) :
                 /\ wire' = wire \o sent
                 /\ IF sent = <<>> THEN congested' = congested
                                   ELSE congested' \in BOOLEAN

TimerFires ==
    /\ drainTimer
    /\ DrainPass(items, bytes, FALSE)
    /\ UNCHANGED <<ownerVars, history>>

\* removeById / removeOne: an rpc.request whose caller gave up.
RemoveOne(m) ==
    /\ m \in Rpc \cap Range(items)
    /\ items' \in Subsequence(items, Items \ {m})
    /\ bytes' = IF items' = <<>> THEN 0
                ELSE IF bytes >= Size[m] THEN bytes - Size[m] ELSE 0
    /\ UNCHANGED <<drainTimer, ownerVars, congested, wire, history>>

Uncongest ==
    /\ congested
    /\ congested' = FALSE
    /\ UNCHANGED <<queueVars, ownerVars, wire, history>>

-----------------------------------------------------------------------------
(* The owners.                                                             *)

Clear == items' = <<>> /\ bytes' = 0

RemoveWhere(gone) ==
    /\ items' \in Subsequence(items, Items \ gone)
    /\ bytes' = TotalSize(Range(items'))

SocketCloses ==
    /\ sock = "open"
    /\ sock' = "closing"
    /\ UNCHANGED <<perSocket, queueVars, ready, stopped, draining, congested, wire, history>>

\* Hub: the close handler of attach(), and hub.stop() which closes the socket
\* and cancels the timer but leaves the queue to the close handler.
HubCloseEvent ==
    /\ perSocket
    /\ sock = "closing"
    /\ sock' = "closed"
    /\ drainTimer' = FALSE
    /\ Clear
    /\ UNCHANGED <<perSocket, ready, stopped, draining, congested, wire, history>>

HubStop ==
    /\ perSocket
    /\ sock # "closed"
    /\ sock' = "closing"
    /\ drainTimer' = FALSE
    /\ UNCHANGED <<perSocket, items, bytes, ready, stopped, draining, congested, wire, history>>

\* Client: the open event of a new socket (_connect).
SocketOpens ==
    /\ ~perSocket
    /\ sock = "closed"
    /\ ~stopped
    /\ sock' = "open"
    /\ ready' = FALSE
    /\ congested' = FALSE
    /\ UNCHANGED <<perSocket, queueVars, stopped, draining, wire, history>>

\* Client: hello.ack.  Items that need a feature the hub does not advertise
\* are purged, then the queue is drained; what the handler itself sends in
\* between joins the queue before the pass, or the wire after it.
HelloAck ==
    /\ ~perSocket
    /\ sock # "closed"
    /\ ~ready
    /\ ~stopped
    /\ ready' = TRUE
    /\ \E gone \in {{}, FeatureBound} :
         \E q \in Subsequence(items, Items \ gone) :
           DrainPass(q, TotalSize(Range(q)), drainTimer)
    /\ UNCHANGED <<perSocket, sock, stopped, draining, history>>

\* Client: handleClose.  The last case is a displaced client, or one out of
\* reconnect attempts: it stops and drops its queue.
ClientCloseEvent ==
    /\ ~perSocket
    /\ sock = "closing"
    /\ sock' = "closed"
    /\ ready' = FALSE
    /\ \/ RemoveWhere(Rpc) /\ UNCHANGED <<drainTimer, stopped>>
       \/ ~stopped /\ stopped' = TRUE /\ drainTimer' = FALSE /\ Clear
    /\ UNCHANGED <<perSocket, draining, congested, wire, history>>

HardStop ==
    /\ sock' = "closed"
    /\ ready' = FALSE
    /\ drainTimer' = FALSE
    /\ Clear

\* Client: stop().  A call while a graceful stop is under way changes nothing.
Stop ==
    /\ ~perSocket
    /\ ~draining
    /\ stopped' = TRUE
    /\ \/ HardStop /\ UNCHANGED draining
       \/ /\ sock = "open"
          /\ draining' = TRUE
          /\ ready' = FALSE
          /\ drainTimer' = FALSE
          /\ UNCHANGED <<items, bytes, sock>>
    /\ callMark' = clock
    /\ UNCHANGED <<perSocket, congested, wire, stamp, clock, refused>>

\* Client: one tick of _drainForShutdown, and its end (all settled, socket
\* gone, or budget exhausted).
DrainTick ==
    /\ draining
    /\ sock = "open"
    /\ items # <<>>
    /\ DrainPass(items, bytes, drainTimer)
    /\ UNCHANGED <<ownerVars, history>>

StopFinishes ==
    /\ draining
    /\ draining' = FALSE
    /\ HardStop
    /\ UNCHANGED <<perSocket, stopped, congested, wire, history>>

\* Client: start().  A closing socket is detached: its close event is lost.
Start ==
    /\ ~perSocket
    /\ stopped \/ sock = "closing"
    /\ stopped' = FALSE
    /\ sock' = IF sock = "closing" THEN "closed" ELSE sock
    /\ callMark' = clock
    /\ UNCHANGED <<perSocket, queueVars, ready, draining, congested, wire, stamp, clock, refused>>

-----------------------------------------------------------------------------
Init ==
    /\ perSocket \in BOOLEAN
    /\ items = <<>>
    /\ bytes = 0
    /\ drainTimer = FALSE
    /\ sock = IF perSocket THEN "open" ELSE "closed"
    /\ ready = perSocket
    /\ stopped = FALSE
    /\ draining = FALSE
    /\ congested = FALSE
    /\ wire = <<>>
    /\ stamp = [m \in Items |-> 0]
    /\ clock = 0
    /\ refused = {}
    /\ callMark = 0

EnqueueOrSend(m) ==
    \/ SendNow(m)
    \/ RefuseUnserializable(m)
    \/ Conflate(m)
    \/ Push(m)
    \/ Overflow(m)

HubOwner == HubCloseEvent \/ HubStop
ClientOwner ==
    \/ SocketOpens
    \/ HelloAck
    \/ ClientCloseEvent
    \/ Stop
    \/ DrainTick
    \/ StopFinishes
    \/ Start

Next ==
    \/ \E m \in Items : EnqueueOrSend(m)
    \/ \E m \in Items : RemoveOne(m)
    \/ TimerFires
    \/ Uncongest
    \/ SocketCloses
    \/ HubOwner
    \/ ClientOwner

Spec == Init /\ [][Next]_vars

\* setTimeout callbacks run, the network empties an open socket's buffer, and
\* ws.send does not throw for ever on an open socket.
Progress == TimerFires /\ Len(items') < Len(items)
Fairness ==
    /\ WF_vars(TimerFires)
    /\ WF_vars(Uncongest)
    /\ SF_vars(Progress)
FairSpec == Spec /\ Fairness

-----------------------------------------------------------------------------
\* The fields of an Outbox and of its owner keep their types (constructor).
TypeOK ==
    /\ perSocket \in BOOLEAN
    /\ items \in Seq(Items)
    /\ bytes \in Nat
    /\ drainTimer \in BOOLEAN
    /\ sock \in {"open", "closing", "closed"}
    /\ ready \in BOOLEAN
    /\ stopped \in BOOLEAN
    /\ draining \in BOOLEAN
    /\ congested \in BOOLEAN
    /\ wire \in Seq(Items)
    /\ stamp \in [Items -> Nat]
    /\ clock \in Nat
    /\ refused \in SUBSET Items
    /\ callMark \in Nat

\* The byte counter is the size of what is queued, whatever mixture of
\* conflation, removal and partial drains got there, and never above the cap
\* (maxOutboxBytes: "hard cap on queued bytes").
ByteAccounting ==
    /\ bytes = TotalSize(Range(items))
    /\ bytes <= MaxOutboxBytes

\* A queue that could be written always has a drain pass coming: no item waits
\* for some later send to wake the queue up.
NoStuckQueue == items # <<>> /\ ReadyToWrite => drainTimer

\* The two owners' teardowns, and a newer status of the same key.
Torndown == IF perSocket THEN sock # "open" ELSE stopped' \/ draining
Superseded(m) ==
    \E x \in Range(items') :
        Key[x] # NoKey /\ Key[x] = Key[m] /\ stamp'[x] > stamp[m]

\* An item leaves the queue by being written, by being superseded by a newer
\* status of its key in its place, because it can never be serialized, because
\* its RPC is over, because the hub lacks the feature, or in a teardown.
LossExplained ==
    \A m \in Range(items) \ Range(items') :
          \/ m \in Range(wire') \ Range(wire)
          \/ Superseded(m)
          \/ m \in Unserializable
          \/ m \in Rpc
          \/ m \in FeatureBound /\ ready' /\ ~ready
          \/ Torndown
\* No step of an outbox loses an item for any other reason (drain, removeById,
\* clear, removeWhere).  Any loss while a stop() drains counts as its teardown:
\* AcceptedSurvives is about those a later start() should have kept.
NoSilentDrop == [][LossExplained]_vars

\* What the client's outbox accepted after the last start(), with no stop()
\* since, is not discarded by a step that leaves the client running: "the
\* message is queued and drains when the link comes up" (_assertSendable).  The
\* hub's outbox, which goes with its socket, promises no such thing.
AcceptedSurvives ==
    [][~perSocket =>
        \A m \in Range(items) \ (Range(items') \cup Rpc \cup FeatureBound) :
            stamp[m] > callMark /\ ~stopped'
                => m \in Range(wire') \/ Superseded(m)]_vars

\* The outbox is a mailbox: the abstract line is the queue, what was delivered
\* is what was written.
M == INSTANCE Mailbox WITH
        Messages <- Items, Class <- Key, Classless <- NoKey,
        Undeliverable <- Unserializable,
        line <- items, delivered <- wire,
        known <- {m \in Items : stamp[m] > 0} \cup refused
ImplementsMailbox == M!Spec

\* A queue the socket could take is emptied, or the socket goes away.
EventuallyFlushed == items # <<>> /\ ReadyToWrite ~> items = <<>> \/ ~ReadyToWrite

=============================================================================
