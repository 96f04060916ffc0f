-------------------------------- MODULE Relay --------------------------------
(***************************************************************************)
(* An RPC from end to end: the caller (rpc() and its promise), the hub     *)
(* that checks, answers or forwards it (src/src/hub/dispatch.js), and the  *)
(* target that runs its handler (src/src/client/link-client.js).           *)
(*                                                                         *)
(* Each end of the relay has an outbox and a socket, each a FIFO.  A link  *)
(* can break at any time; the hub may notice later or earlier than the     *)
(* client, and in between they disagree.  Both clients reconnect; who made *)
(* a call, and from where its handler runs, survives that.  How a socket   *)
(* is admitted is in module Hub, what makes a link ready in LinkClient.    *)
(* An id is a UUID of one caller, so the comparisons of `from` that guard  *)
(* a cancel and a response against strangers always succeed here.          *)
(***************************************************************************)
EXTENDS Naturals, Sequences, FiniteSets

CONSTANTS
    Calls,
    TargetSlots,    \* maxConcurrentRpc of the target
    ServerSlots,    \* maxConcurrentRpc of the hub
    MaxDrops        \* bound of the model on broken links

ASSUME RelayAssumption ==
    /\ IsFiniteSet(Calls)
    /\ TargetSlots \in Nat \ {0} /\ ServerSlots \in Nat \ {0}
    /\ MaxDrops \in Nat

Ends == {"caller", "target"}

VARIABLES
    \* The caller.
    outcome,            \* of the promise of each call
    outbox,             \* its requests and cancels not yet written
    up,                 \* written to the hub
    \* The hub.
    waiting,            \* requests whose canRpc is pending
    serving,            \* calls its own handlers are running
    serverRpcInFlight,
    toTarget,           \* its outbox for the target
    down,               \* written to the target
    toCaller,           \* responses on their way to the caller
    \* The target.
    running,            \* _inboundRpc
    aborted,            \* those whose AbortSignal has fired
    inFlightRpc,        \* _inFlightRpc
    replies,            \* its responses not yet written
    fromTarget,         \* written to the hub
    \* The links.
    link,               \* per end: connected and ready, as the client sees it
    known,              \* per end: whose socket clients.get() returns
    drops,
    \* Fixed for a behaviour.
    gated,              \* canRpc is configured
    to,                 \* the destination of each call
    \* History.
    returned,           \* calls whose handler has returned
    cancelled,          \* calls an rpc.cancel was sent for
    missed              \* calls of which a message was lost or overtaken

callerVars == <<outcome, outbox, up, cancelled>>
hubVars    == <<waiting, serving, serverRpcInFlight, toTarget, down>>
targetVars == <<running, aborted, inFlightRpc, replies, fromTarget>>
linkVars   == <<link, known, drops>>
fixed      == <<gated, to>>
vars == <<callerVars, hubVars, toCaller, targetVars, linkVars, fixed, returned, missed>>

Request(c) == [type |-> "rpc.request", call |-> c]
Cancel(c)  == [type |-> "rpc.cancel", call |-> c]
Answer(c, ok) == [call |-> c, ok |-> ok]
CallsIn(q) == {q[i].call : i \in DOMAIN q}

Init ==
    /\ outcome = [c \in Calls |-> "new"]
    /\ outbox = <<>> /\ up = <<>>
    /\ waiting = {} /\ serving = {} /\ serverRpcInFlight = 0
    /\ toTarget = <<>> /\ down = <<>> /\ toCaller = <<>>
    /\ running = {} /\ aborted = {} /\ inFlightRpc = 0
    /\ replies = <<>> /\ fromTarget = <<>>
    /\ link = [e \in Ends |-> "up"] /\ known = [e \in Ends |-> "this"] /\ drops = 0
    /\ gated \in BOOLEAN /\ to \in [Calls -> {"target", "server"}]
    /\ returned = {} /\ cancelled = {} /\ missed = {}

-----------------------------------------------------------------------------
(***************************************************************************)
(* The caller.                                                             *)
(***************************************************************************)
Call(c) ==
    /\ outcome[c] = "new" /\ link["caller"] = "up"
    /\ outcome' = [outcome EXCEPT ![c] = "pending"]
    /\ outbox' = Append(outbox, Request(c))
    /\ UNCHANGED <<up, cancelled, hubVars, toCaller, targetVars, linkVars, fixed, returned, missed>>

\* Not ready, aborted before it was sent, or refused by a full outbox.
CallFails(c) ==
    /\ outcome[c] = "new"
    /\ outcome' = [outcome EXCEPT ![c] = "rejected"]
    /\ UNCHANGED <<outbox, up, cancelled, hubVars, toCaller, targetVars, linkVars, fixed,
                   returned, missed>>

Waits(q, m) == \E i \in DOMAIN q : q[i] = m

\* removeById: the request, of which there is one, is withdrawn if it still
\* waits.
Withdrawn(q, c) ==
    IF Waits(q, Request(c))
    THEN LET i == CHOOSE k \in DOMAIN q : q[k] = Request(c)
         IN  SubSeq(q, 1, i - 1) \o SubSeq(q, i + 1, Len(q))
    ELSE q

\* The deadline of the call, or its AbortSignal.  A cancel is sent if the link
\* is ready; a full outbox refuses it.
Abandon(c) ==
    /\ outcome[c] = "pending"
    /\ outcome' = [outcome EXCEPT ![c] = "rejected"]
    /\ \/ /\ link["caller"] = "up"
          /\ outbox' = Append(Withdrawn(outbox, c), Cancel(c))
          /\ cancelled' = cancelled \cup {c}
       \/ /\ outbox' = Withdrawn(outbox, c)
          /\ UNCHANGED cancelled
    /\ UNCHANGED <<up, hubVars, toCaller, targetVars, linkVars, fixed, returned, missed>>

CallerWrites ==
    /\ outbox # <<>> /\ link["caller"] = "up"
    /\ outbox' = Tail(outbox)
    /\ IF known["caller"] = "this"
       THEN up' = Append(up, Head(outbox)) /\ UNCHANGED missed
       ELSE missed' = missed \cup {Head(outbox).call} /\ UNCHANGED up
    /\ UNCHANGED <<outcome, cancelled, hubVars, toCaller, targetVars, linkVars, fixed, returned>>

\* Mutant: a response settles a call that has already failed.
Awaited_Any(c) == TRUE
\* pending.has(id)
Awaited(c) == outcome[c] = "pending"

CallerReceives ==
    /\ toCaller # <<>> /\ link["caller"] = "up"
    /\ toCaller' = Tail(toCaller)
    /\ LET r == Head(toCaller)
       IN  outcome' = IF Awaited(r.call)
                      THEN [outcome EXCEPT ![r.call] = IF r.ok THEN "fulfilled" ELSE "rejected"]
                      ELSE outcome
    /\ UNCHANGED <<outbox, up, cancelled, hubVars, targetVars, linkVars, fixed, returned, missed>>

-----------------------------------------------------------------------------
(***************************************************************************)
(* The hub.                                                                *)
(***************************************************************************)
\* A response is put on its way to the caller, if its socket has room for it.
Respond(c, ok) ==
    IF known["caller"] = "this"
    THEN \/ toCaller' = Append(toCaller, Answer(c, ok)) /\ UNCHANGED missed
         \/ missed' = missed \cup {c} /\ UNCHANGED toCaller
    ELSE UNCHANGED <<toCaller, missed>>

Overloaded == serverRpcInFlight >= ServerSlots

\* handleServerRpc(), up to the handler's first await: an rpcType without a
\* handler, or one too many, is refused.
Serve(c) ==
    \/ /\ Respond(c, FALSE)
       /\ UNCHANGED <<serving, serverRpcInFlight>>
    \/ /\ ~Overloaded
       /\ serving' = serving \cup {c}
       /\ serverRpcInFlight' = serverRpcInFlight + 1
       /\ UNCHANGED <<toCaller, missed>>

\* Mutant: a target that is gone is not reported to the caller.
Unreachable_Silent(c) == known["target"] = "none" /\ UNCHANGED <<toTarget, toCaller, missed>>

\* The target is not connected, or its outbox refuses the request.
Unreachable(c) == Respond(c, FALSE) /\ UNCHANGED toTarget

Forward(c) ==
    \/ Unreachable(c)
    \/ /\ known["target"] # "none"
       /\ toTarget' = Append(toTarget, Request(c))
       /\ UNCHANGED <<toCaller, missed>>

\* The branch of an rpc.request after its gate.
Route(c) ==
    \/ to[c] = "server" /\ Serve(c) /\ UNCHANGED toTarget
    \/ to[c] = "target" /\ Forward(c) /\ UNCHANGED <<serving, serverRpcInFlight>>

\* Mutant: the cancel is not passed on.
PassOnCancel_Never(c) == UNCHANGED <<toTarget, missed>>

PassOnCancel(c) ==
    IF known["target"] = "none"
    THEN UNCHANGED <<toTarget, missed>>
    ELSE \/ toTarget' = Append(toTarget, Cancel(c)) /\ UNCHANGED missed
         \/ missed' = missed \cup {c} /\ UNCHANGED toTarget

\* cancelQueuedRpc() takes the request back if the target has not been sent
\* it; otherwise the target is told.  A cancel that comes while canRpc is
\* pending finds nothing: the request is forwarded after it.
CancelCall(c) ==
    \/ /\ to[c] = "server"
       /\ UNCHANGED <<toTarget, missed>>
    \/ /\ to[c] = "target" /\ Waits(toTarget, Request(c))
       /\ toTarget' = Withdrawn(toTarget, c)
       /\ UNCHANGED missed
    \/ /\ to[c] = "target" /\ c \notin waiting
       /\ ~Waits(toTarget, Request(c))
       /\ PassOnCancel(c)
    \/ /\ to[c] = "target" /\ c \in waiting
       /\ toTarget' \in {toTarget} \cup (IF known["target"] = "none" THEN {}
                                         ELSE {Append(toTarget, Cancel(c))})
       /\ missed' = missed \cup {c}

HubReceives ==
    /\ up # <<>> /\ known["caller"] # "none"
    /\ up' = Tail(up)
    /\ LET m == Head(up)
       IN  \/ /\ m.type = "rpc.request" /\ gated
              /\ waiting' = waiting \cup {m.call}
              /\ UNCHANGED <<serving, serverRpcInFlight, toTarget, toCaller, missed>>
           \/ /\ m.type = "rpc.request" /\ ~gated
              /\ Route(m.call)
              /\ UNCHANGED waiting
           \/ /\ m.type = "rpc.cancel"
              /\ CancelCall(m.call)
              /\ UNCHANGED <<waiting, serving, serverRpcInFlight, toCaller>>
    /\ UNCHANGED <<outcome, outbox, cancelled, down, targetVars, linkVars, fixed, returned>>

\* The verdict of canRpc, whatever became of the caller's socket meanwhile.
GateAnswers(c) ==
    /\ c \in waiting
    /\ waiting' = waiting \ {c}
    /\ \/ Route(c)
       \/ Respond(c, FALSE) /\ UNCHANGED <<serving, serverRpcInFlight, toTarget>>
    /\ UNCHANGED <<callerVars, down, targetVars, linkVars, fixed, returned>>

\* A handler of the hub returns, throws, or returns what cannot be serialized.
ServerReturns(c) ==
    /\ c \in serving
    /\ serving' = serving \ {c}
    /\ serverRpcInFlight' = serverRpcInFlight - 1
    /\ returned' = returned \cup {c}
    /\ \E ok \in BOOLEAN : Respond(c, ok)
    /\ UNCHANGED <<callerVars, waiting, toTarget, down, targetVars, linkVars, fixed>>

HubWrites ==
    /\ toTarget # <<>> /\ known["target"] # "none"
    /\ toTarget' = Tail(toTarget)
    /\ IF known["target"] = "this"
       THEN down' = Append(down, Head(toTarget)) /\ UNCHANGED missed
       ELSE missed' = missed \cup {Head(toTarget).call} /\ UNCHANGED down
    /\ UNCHANGED <<callerVars, waiting, serving, serverRpcInFlight, toCaller, targetVars, linkVars,
                   fixed, returned>>

\* An rpc.response of the target is forwarded to the caller.
HubForwards ==
    /\ fromTarget # <<>> /\ known["target"] # "none"
    /\ fromTarget' = Tail(fromTarget)
    /\ Respond(Head(fromTarget).call, Head(fromTarget).ok)
    /\ UNCHANGED <<callerVars, hubVars, running, aborted, inFlightRpc, replies, linkVars, fixed,
                   returned>>

-----------------------------------------------------------------------------
(***************************************************************************)
(* The target.                                                             *)
(***************************************************************************)
\* _send() queues a response also while the link is down; a full outbox
\* refuses it.
Reply(c, ok) ==
    \/ replies' = Append(replies, Answer(c, ok)) /\ UNCHANGED missed
    \/ missed' = missed \cup {c} /\ UNCHANGED replies

\* Mutant: one handler too many.
Busy_OffByOne == inFlightRpc > TargetSlots
Busy == inFlightRpc >= TargetSlots

\* _handleRpcRequest() up to the handler's first await.
HandleRpcRequest(c) ==
    \/ /\ Busy
       /\ Reply(c, FALSE)
       /\ UNCHANGED <<running, inFlightRpc>>
    \/ /\ ~Busy
       /\ running' = running \cup {c}
       /\ inFlightRpc' = inFlightRpc + 1
       /\ UNCHANGED <<replies, missed>>

TargetReceives ==
    /\ down # <<>> /\ link["target"] = "up"
    /\ down' = Tail(down)
    /\ LET m == Head(down)
       IN  \/ /\ m.type = "rpc.request"
              /\ HandleRpcRequest(m.call)
              /\ UNCHANGED aborted
           \/ /\ m.type = "rpc.cancel"
              /\ aborted' = aborted \cup (running \cap {m.call})
              /\ UNCHANGED <<running, inFlightRpc, replies, missed>>
    /\ UNCHANGED <<callerVars, waiting, serving, serverRpcInFlight, toTarget, toCaller, fromTarget,
                   linkVars, fixed, returned>>

\* The rest of _handleRpcRequest(), with its finally: a handler that was
\* aborted is not answered for.
TargetReturns(c) ==
    /\ c \in running
    /\ running' = running \ {c}
    /\ aborted' = aborted \ {c}
    /\ inFlightRpc' = inFlightRpc - 1
    /\ returned' = returned \cup {c}
    /\ IF c \in aborted
       THEN UNCHANGED <<replies, missed>>
       ELSE \E ok \in BOOLEAN : Reply(c, ok)
    /\ UNCHANGED <<callerVars, hubVars, toCaller, fromTarget, linkVars, fixed>>

TargetWrites ==
    /\ replies # <<>> /\ link["target"] = "up"
    /\ replies' = Tail(replies)
    /\ IF known["target"] = "this"
       THEN fromTarget' = Append(fromTarget, Head(replies)) /\ UNCHANGED missed
       ELSE missed' = missed \cup {Head(replies).call} /\ UNCHANGED fromTarget
    /\ UNCHANGED <<callerVars, hubVars, toCaller, running, aborted, inFlightRpc, linkVars, fixed,
                   returned>>

-----------------------------------------------------------------------------
(***************************************************************************)
(* The links.                                                              *)
(***************************************************************************)
\* The client's socket closes, at a moment of its own or because the hub has
\* closed it.
LinkDown(e) ==
    /\ link[e] = "up"
    /\ link' = [link EXCEPT ![e] = "down"]
    /\ known' = [known EXCEPT ![e] = IF @ = "this" THEN "earlier" ELSE @]
    /\ known[e] = "this" => drops < MaxDrops
    /\ drops' = IF known[e] = "this" THEN drops + 1 ELSE drops

\* handleClose() of the caller: pending calls fail, requests and cancels are
\* purged.
CallerCloses ==
    /\ LinkDown("caller")
    /\ outcome' = [c \in Calls |-> IF Awaited(c) THEN "rejected" ELSE outcome[c]]
    /\ missed' = missed \cup CallsIn(outbox)
    /\ outbox' = <<>>
    /\ toCaller' = <<>>
    /\ UNCHANGED <<up, cancelled, hubVars, targetVars, fixed, returned>>

\* handleClose() of the target: handlers are aborted and run on; responses
\* that are queued survive.
TargetCloses ==
    /\ LinkDown("target")
    /\ aborted' = running
    /\ missed' = missed \cup running \cup CallsIn(down)
    /\ down' = <<>>
    /\ UNCHANGED <<callerVars, waiting, serving, serverRpcInFlight, toTarget, toCaller, running,
                   inFlightRpc, replies, fromTarget, fixed, returned>>

\* The hub's socket goes: what it had read or queued for it is dropped.
HubLoses(e) ==
    IF e = "caller"
    THEN /\ up' = <<>>
         /\ missed' = missed \cup CallsIn(up)
         /\ UNCHANGED <<toTarget, fromTarget>>
    ELSE /\ toTarget' = <<>> /\ fromTarget' = <<>>
         /\ missed' = missed \cup CallsIn(toTarget) \cup CallsIn(fromTarget)
         /\ UNCHANGED up

\* The close event at the hub, or its keepalive.
HubForgets(e) ==
    /\ known[e] # "none"
    /\ known[e] = "this" => drops < MaxDrops
    /\ drops' = IF known[e] = "this" THEN drops + 1 ELSE drops
    /\ known' = [known EXCEPT ![e] = "none"]
    /\ HubLoses(e)
    /\ UNCHANGED <<outcome, outbox, cancelled, waiting, serving, serverRpcInFlight, down, toCaller,
                   running, aborted, inFlightRpc, replies, link, fixed, returned>>

\* The client's next connection is accepted, and replaces an earlier one.
Reconnect(e) ==
    /\ link[e] = "down"
    /\ link' = [link EXCEPT ![e] = "up"]
    /\ known' = [known EXCEPT ![e] = "this"]
    /\ HubLoses(e)
    /\ UNCHANGED <<outcome, outbox, cancelled, waiting, serving, serverRpcInFlight, down, toCaller,
                   running, aborted, inFlightRpc, replies, drops, fixed, returned>>

Messages ==
    \/ CallerWrites \/ CallerReceives \/ HubReceives \/ HubWrites \/ HubForwards
    \/ TargetReceives \/ TargetWrites

Handlers == \E c \in Calls : GateAnswers(c) \/ ServerReturns(c) \/ TargetReturns(c)

Links ==
    \/ CallerCloses \/ TargetCloses
    \/ \E e \in Ends : HubForgets(e) \/ Reconnect(e)

Next ==
    \/ \E c \in Calls : Call(c) \/ CallFails(c) \/ Abandon(c)
    \/ Messages \/ Handlers \/ Links

Spec == Init /\ [][Next]_vars

\* Sockets deliver, handlers and canRpc answer, a link that the hub has closed
\* closes at the client.  A deadline is not assumed: a call may have none.
FairSpec ==
    /\ Spec
    /\ WF_vars(CallerWrites) /\ WF_vars(CallerReceives)
    /\ WF_vars(HubReceives) /\ WF_vars(HubWrites) /\ WF_vars(HubForwards)
    /\ WF_vars(TargetReceives) /\ WF_vars(TargetWrites)
    /\ \A c \in Calls :
          WF_vars(GateAnswers(c)) /\ WF_vars(ServerReturns(c)) /\ WF_vars(TargetReturns(c))
    /\ WF_vars(CallerCloses /\ known["caller"] # "this")
    /\ WF_vars(TargetCloses /\ known["target"] # "this")
    /\ \A e \in Ends : WF_vars(Reconnect(e)) /\ WF_vars(HubForgets(e) /\ known[e] = "earlier")

-----------------------------------------------------------------------------
(***************************************************************************)
(* Properties.                                                             *)
(***************************************************************************)
MessageType == [type : {"rpc.request", "rpc.cancel"}, call : Calls]
AnswerType  == [call : Calls, ok : BOOLEAN]

\* Both counters count the handlers that run, and stay within their limits
\* (handleServerRpc, _handleRpcRequest).
TypeOK ==
    /\ outcome \in [Calls -> {"new", "pending", "fulfilled", "rejected"}]
    /\ \A q \in {outbox, up, toTarget, down} : q \in Seq(MessageType)
    /\ \A q \in {toCaller, replies, fromTarget} : q \in Seq(AnswerType)
    /\ waiting \subseteq Calls /\ serving \subseteq Calls
    /\ aborted \subseteq running /\ running \subseteq Calls
    /\ serverRpcInFlight = Cardinality(serving) /\ serverRpcInFlight <= ServerSlots
    /\ inFlightRpc = Cardinality(running) /\ inFlightRpc <= TargetSlots
    /\ link \in [Ends -> {"up", "down"}]
    /\ known \in [Ends -> {"this", "earlier", "none"}]
    /\ drops \in 0 .. MaxDrops
    /\ gated \in BOOLEAN /\ to \in [Calls -> {"target", "server"}]
    /\ returned \subseteq Calls /\ cancelled \subseteq Calls /\ missed \subseteq Calls

handlerOf == [c \in Calls |->
    IF c \in running \cup serving THEN "running"
    ELSE IF c \in returned THEN "returned" ELSE "none"]

Promise == INSTANCE RpcPromise WITH handler <- handlerOf

\* Whatever is lost, late or cancelled, a call settles once, as fulfilled only
\* by what its handler returned, and its handler runs at most once, on a
\* reconnect too (rpc, its deadline and abort, failAllPending, rpc.response).
KeepsPromise == Promise!PromiseSpec

\* Nothing about the call is under way any more, and the hub has not closed a
\* socket whose close event the target still has to see.
Settled(c) ==
    /\ link["target"] = "up" => known["target"] = "this"
    /\ c \notin UNION {CallsIn(q) : q \in {outbox, up, toTarget, down}} \cup waiting

\* When its cancel has gone its way, no handler works for a caller that gave
\* up without having been told, unless the cancel was lost or overtook its
\* request at canRpc (sendRpcCancel, cancelQueuedRpc, abortInboundRpc).
CancelStops ==
    \A c \in cancelled \ missed :
        to[c] = "target" /\ Settled(c) /\ c \in running => c \in aborted

\* A call without a deadline still settles: each way it can be refused is
\* answered.  Except when the target's link broke or a response did not fit
\* (dispatch: every branch of rpc.request; _handleRpcRequest).
Answered ==
    \A c \in Calls : outcome[c] = "pending" ~> (outcome[c] # "pending" \/ c \in missed)
=============================================================================
