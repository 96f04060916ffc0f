------------------------------ MODULE LinkClient ------------------------------
(***************************************************************************)
(* The life of one link: connecting, becoming ready, reconnecting, stopping *)
(* (src/src/client/link-client.js and the hello.ack and close branches of  *)
(* src/src/client/inbound.js), and a ready() promise that waits for it     *)
(* (src/src/internal/await-event.js).                                      *)
(*                                                                         *)
(* A callback of the socket, a timer or the application runs to completion *)
(* and is one step.  The exception is handleClose, which runs the          *)
(* application's 'disconnect' and 'reconnecting' listeners before it       *)
(* schedules the reconnect: a listener that calls start() or stop() is a   *)
(* step between CloseEvent and ScheduleReconnect.  What the outbox holds   *)
(* is left to module Outbox; here it only decides whether a graceful stop  *)
(* has something to wait for, which may always be the case.                *)
(*                                                                         *)
(* The model follows one socket at a time.  A start() from such a listener *)
(* is the one case in which the code opens a second socket beside a live   *)
(* one, when the timer that handleClose then sets fires before that socket *)
(* closes or stop() clears the timer: OneSocket ends the model there.      *)
(***************************************************************************)
EXTENDS Naturals

CONSTANTS
    Calls,                  \* outbound RPCs, each made at most once
    MaxReconnectAttempts,
    Uses                    \* what the application does besides start() when
                            \* down and stop() when up; a subset of AllUses

AllUses == {"restart while closing", "restart while draining",
            "start from a listener", "stop from a listener"}

ASSUME LinkAssumption ==
    /\ MaxReconnectAttempts \in Nat
    /\ Uses \subseteq AllUses

VARIABLES
    sock,       \* this.ws: "connecting", "open", "closing", "replaced"
                \* (closing with code 4000), or "none" (null, closed, or
                \* detached: no event of it will come)
    answer,     \* the hub's hello.ack on this socket: "none", "ok", "refused"
    gone,       \* the hub went silent without closing this socket
    ready,      \* _ready
    stopped,    \* _stopped
    draining,   \* _stopPromise, with the wasReady its closure captured:
                \* "no", "was ready", "was not ready"
    closing,    \* handleClose is running its listeners
    timer,      \* reconnectTimer is set
    attempt,    \* _reconnectAttempt
    keepalive,  \* _keepaliveTimer with _pongAlive: "off", "answered", "waiting"
    statusTimer,\* statusTimer is set
    emitted,    \* _disconnectEmitted
    calls,      \* pending, per call: "idle", "pending", "settled"
    waiter,     \* the application's ready() promise: "none", "waiting",
                \* "resolved", "rejected"
    reconnectOnRejection,   \* the option of that name, TRUE or FALSE
    \* History, for the properties.
    carried,    \* calls whose request went out on this socket
    told,       \* the last of 'ready' and 'disconnect' emitted was 'ready'
    wanted,     \* the application last asked for a link and was not told that
                \* the client gave it up
    used        \* which of Uses the application has made so far

timers      == <<timer, keepalive, statusTimer>>
socketFlags == <<gone, emitted, carried>>
session     == <<answer, socketFlags>>
application == <<waiter, reconnectOnRejection, wanted, used>>
vars == <<sock, session, ready, stopped, draining, closing, timers, attempt, calls, told,
          application>>

Init ==
    /\ sock = "none" /\ answer = "none" /\ gone = FALSE /\ emitted = FALSE
    /\ ready = FALSE /\ stopped = FALSE /\ draining = "no" /\ closing = FALSE
    /\ timer = FALSE /\ keepalive = "off" /\ statusTimer = FALSE /\ attempt = 0
    /\ calls = [r \in Calls |-> "idle"] /\ carried = {}
    /\ told = FALSE /\ wanted = FALSE /\ used = {}
    /\ waiter = "none" /\ reconnectOnRejection \in BOOLEAN

Pending   == {r \in Calls : calls[r] = "pending"}
Connected == sock = "open"                                 \* isConnected()

-----------------------------------------------------------------------------
(***************************************************************************)
(* The helpers.                                                            *)
(***************************************************************************)
ClearTimers_KeepsReconnect == UNCHANGED timer /\ keepalive' = "off" /\ statusTimer' = FALSE
ClearTimers == /\ timer' = FALSE /\ keepalive' = "off" /\ statusTimer' = FALSE

FailAllPending_ClearsNone == UNCHANGED calls
FailAllPending == calls' = [r \in Calls |-> IF r \in Pending THEN "settled" ELSE calls[r]]

Fresh_StaysTold ==
    /\ sock' = "connecting" /\ answer' = "none" /\ gone' = FALSE
    /\ carried' = {}
    /\ UNCHANGED emitted

\* The part of a fresh _connect() that concerns the connection itself.
Fresh ==
    /\ sock' = "connecting" /\ answer' = "none" /\ gone' = FALSE
    /\ emitted' = FALSE /\ carried' = {}

\* emitDisconnect(), when the caller's condition for it holds.
TellDisconnect(cond) ==
    /\ emitted' = (emitted \/ cond)
    /\ told' = (told /\ ~(cond /\ ~emitted))

\* _hardStop(wasReady), the socket apart: it is detached and closed.
HardStop ==
    /\ ready' = FALSE
    /\ ClearTimers
    /\ FailAllPending

WasReady == draining = "was ready"

\* stop() up to the decision whether to drain.
BeginStop ==
    /\ stopped' = TRUE
    /\ ClearTimers
    /\ ready' = FALSE

HaltNow ==
    /\ draining = "no"
    /\ BeginStop
    /\ FailAllPending
    /\ sock' = "none" /\ carried' = {}
    /\ TellDisconnect(ready)
    /\ UNCHANGED <<gone, draining, closing, attempt>>

HaltGracefully ==
    /\ draining = "no" /\ Connected
    /\ BeginStop
    /\ draining' = IF ready THEN "was ready" ELSE "was not ready"
    /\ UNCHANGED <<sock, socketFlags, closing, attempt, calls, told>>

\* A second stop() returns the promise of the first.
AlreadyHalting ==
    /\ draining # "no"
    /\ UNCHANGED <<sock, socketFlags, ready, stopped, draining, closing, timers, attempt, calls, told>>

\* stop(), whatever its options.
Halt == HaltNow \/ HaltGracefully \/ AlreadyHalting

-----------------------------------------------------------------------------
(***************************************************************************)
(* The application.                                                        *)
(***************************************************************************)
\* What a start() or a stop() made now counts as.
StartUse ==
    (IF closing THEN {"start from a listener"} ELSE {})
    \cup (IF sock \in {"closing", "replaced"} THEN {"restart while closing"} ELSE {})
    \cup (IF draining # "no" THEN {"restart while draining"} ELSE {})
StopUse == IF closing THEN {"stop from a listener"} ELSE {}

AsksFor(link, use) ==
    /\ use \subseteq Uses
    /\ used' = used \cup use
    /\ wanted' = link
    /\ UNCHANGED <<waiter, reconnectOnRejection>>

StartWhenUp ==
    /\ sock \in {"open", "connecting"}
    /\ AsksFor(TRUE, StartUse)
    /\ stopped' = FALSE
    /\ UNCHANGED <<sock, session, ready, draining, closing, timers, attempt, calls, told>>

StartWhenDown_KeepsTimer ==
    /\ sock \notin {"open", "connecting"}
    /\ AsksFor(TRUE, StartUse)
    /\ stopped' = FALSE
    /\ Fresh
    /\ UNCHANGED <<ready, draining, closing, timers, attempt, calls, told>>

\* The socket, if there is one, is closing or closed: it is detached and
\* forgotten.
StartWhenDown ==
    /\ sock \notin {"open", "connecting"}
    /\ AsksFor(TRUE, StartUse)
    /\ timer' = FALSE
    /\ stopped' = FALSE
    /\ Fresh
    /\ UNCHANGED <<ready, draining, closing, keepalive, statusTimer, attempt, calls, told>>

Stop ==
    /\ AsksFor(FALSE, StopUse)
    /\ Halt
    /\ UNCHANGED answer

DrainEnds_StaysDown ==
    /\ draining # "no" /\ ~closing
    /\ draining' = "no"
    /\ HardStop
    /\ TellDisconnect(WasReady)
    /\ sock' = "none" /\ carried' = {}
    /\ UNCHANGED <<answer, gone, stopped, closing, attempt, application>>

\* The promise of a graceful stop: _drainForShutdown() resolved, because the
\* queue is flushed, the socket closed or the budget is spent.
DrainEnds ==
    /\ draining # "no" /\ ~closing
    /\ draining' = "no"
    /\ HardStop
    /\ IF stopped
       THEN /\ TellDisconnect(WasReady)
            /\ sock' = "none" /\ carried' = {}
            /\ UNCHANGED <<answer, gone>>
       ELSE /\ Fresh
            /\ told' = (told /\ ~(WasReady /\ ~emitted))
    /\ UNCHANGED <<stopped, closing, attempt, application>>

\* settleOnEvents: the first event settles the promise, the others find no
\* listener.
Settle(how) == waiter' = IF waiter = "waiting" THEN how ELSE waiter

\* ready() on a link that is ready, and on one that was stopped.
ReadyAtOnce ==
    /\ waiter # "waiting" /\ ~closing
    /\ ready \/ stopped
    /\ waiter' = IF ready THEN "resolved" ELSE "rejected"
    /\ UNCHANGED <<sock, session, ready, stopped, draining, closing, timers, attempt, calls, told,
                   reconnectOnRejection, wanted, used>>

\* this.ws is null until the first start().
NeverStarted == sock = "none" /\ ~stopped /\ ~timer /\ ~closing

\* ready() otherwise waits, and starts a link that never was.
ReadyWaits ==
    /\ waiter # "waiting" /\ ~closing
    /\ ~ready /\ ~stopped
    /\ waiter' = "waiting"
    /\ IF NeverStarted
       THEN Fresh /\ wanted' = TRUE
       ELSE UNCHANGED <<sock, session, wanted>>
    /\ UNCHANGED <<ready, stopped, draining, closing, timers, attempt, calls, told,
                   reconnectOnRejection, used>>

\* The timeoutMs or the AbortSignal ready() was given.
ReadyGivesUp ==
    /\ waiter = "waiting" /\ ~closing
    /\ Settle("rejected")
    /\ UNCHANGED <<sock, session, ready, stopped, draining, closing, timers, attempt, calls, told,
                   reconnectOnRejection, wanted, used>>

\* rpc() when the link is connected and ready; otherwise it throws.
Call(r) ==
    /\ Connected /\ ready /\ ~closing /\ calls[r] = "idle"
    /\ calls' = [calls EXCEPT ![r] = "pending"]
    /\ carried' = carried \cup {r}
    /\ UNCHANGED <<sock, answer, gone, emitted, ready, stopped, draining, closing,
                   timers, attempt, told, application>>

\* The deadline of the call, or its AbortSignal.
Expire(r) ==
    /\ calls[r] = "pending" /\ ~closing
    /\ calls' = [calls EXCEPT ![r] = "settled"]
    /\ UNCHANGED <<sock, session, ready, stopped, draining, closing, timers, attempt, told, application>>

-----------------------------------------------------------------------------
(***************************************************************************)
(* The socket.                                                             *)
(***************************************************************************)
SocketOpens_KeepsReady ==
    /\ sock = "connecting" /\ ~closing
    /\ sock' = "open"
    /\ keepalive' = "answered"
    /\ UNCHANGED <<session, ready, stopped, draining, closing, timer, statusTimer,
                   attempt, calls, told, application>>

SocketOpens_NoKeepalive ==
    /\ sock = "connecting" /\ ~closing
    /\ sock' = "open"
    /\ ready' = FALSE
    /\ UNCHANGED <<session, stopped, draining, closing, timers, attempt, calls, told, application>>

SocketOpens ==
    /\ sock = "connecting" /\ ~closing
    /\ sock' = "open"
    /\ ready' = FALSE
    /\ keepalive' = "answered"
    /\ UNCHANGED <<session, stopped, draining, closing, timer, statusTimer, attempt, calls,
                   told, application>>

\* The handshake fails, or the hub closes the socket; a hub that accepted this
\* socket may close it for a newer one of the same kind.
SocketCloses ==
    /\ ~closing
    /\ sock \in {"open", "connecting"} /\ ~gone
    /\ sock' \in {"closing"} \cup (IF answer = "ok" THEN {"replaced"} ELSE {})
    /\ UNCHANGED <<session, ready, stopped, draining, closing, timers, attempt, calls, told, application>>

HubVanishes ==
    /\ Connected /\ ~gone /\ ~closing
    /\ gone' = TRUE
    /\ UNCHANGED <<sock, answer, emitted, carried, ready, stopped, draining, closing,
                   timers, attempt, calls, told, application>>

-----------------------------------------------------------------------------
(***************************************************************************)
(* What the hub says.                                                      *)
(***************************************************************************)
\* Mutant: a link that is stopping becomes ready.
BecomesReady_WhenStopped == ~ready

\* The guard of the transition to ready.
BecomesReady == ~ready /\ ~stopped

HelloAck ==
    /\ Connected /\ ~gone /\ answer = "none" /\ ~closing
    /\ answer' = "ok"
    /\ IF BecomesReady
       THEN /\ ready' = TRUE /\ attempt' = 0 /\ told' = TRUE
            /\ statusTimer' = TRUE
            /\ Settle("resolved")
       ELSE UNCHANGED <<ready, attempt, told, statusTimer, waiter>>
    /\ UNCHANGED <<sock, gone, emitted, carried, stopped, draining, closing, timer, keepalive,
                   calls, reconnectOnRejection, wanted, used>>

HelloRefused ==
    /\ Connected /\ ~gone /\ answer = "none" /\ ~closing
    /\ answer' = "refused"
    /\ Settle("rejected")
    /\ IF reconnectOnRejection
       THEN /\ sock' = "closing"
            /\ UNCHANGED <<socketFlags, ready, stopped, draining, closing, timers, attempt,
                           calls, told, wanted>>
       ELSE /\ Halt
            /\ wanted' = FALSE
    /\ UNCHANGED <<reconnectOnRejection, used>>

Response(r) ==
    /\ Connected /\ ~gone /\ answer = "ok" /\ calls[r] = "pending" /\ ~closing
    /\ calls' = [calls EXCEPT ![r] = "settled"]
    /\ UNCHANGED <<sock, session, ready, stopped, draining, closing, timers, attempt, told, application>>

Pong ==
    /\ Connected /\ ~gone /\ keepalive = "waiting" /\ ~closing
    /\ keepalive' = "answered"
    /\ UNCHANGED <<sock, session, ready, stopped, draining, closing, timer, statusTimer,
                   attempt, calls, told, application>>

KeepaliveTick ==
    /\ Connected /\ keepalive # "off" /\ ~closing
    /\ IF keepalive = "waiting"
       THEN sock' = "closing" /\ UNCHANGED keepalive
       ELSE keepalive' = "waiting" /\ UNCHANGED sock
    /\ UNCHANGED <<session, ready, stopped, draining, closing, timer, statusTimer, attempt,
                   calls, told, application>>

-----------------------------------------------------------------------------
(***************************************************************************)
(* The close event, and reconnecting.                                      *)
(***************************************************************************)
Exhausted_OffByOne == attempt > MaxReconnectAttempts
Exhausted == attempt + 1 > MaxReconnectAttempts

\* handleClose, up to the listeners of 'disconnect'.
CloseEvent ==
    /\ sock \in {"closing", "replaced"} /\ ~closing
    /\ sock' = "none"
    /\ ClearTimers
    /\ ready' = FALSE
    /\ carried' = {}
    /\ IF stopped
       THEN UNCHANGED <<stopped, closing, emitted, calls, told, wanted>>
       ELSE /\ FailAllPending
            /\ TellDisconnect(TRUE)
            /\ IF sock = "replaced" \/ Exhausted
               THEN stopped' = TRUE /\ wanted' = FALSE /\ UNCHANGED closing
               ELSE closing' = TRUE /\ UNCHANGED <<stopped, wanted>>
    /\ UNCHANGED <<answer, gone, draining, attempt, waiter, reconnectOnRejection, used>>

ScheduleReconnect_Forgets ==
    /\ closing
    /\ closing' = FALSE
    /\ attempt' = attempt + 1
    /\ UNCHANGED <<sock, session, ready, stopped, draining, timers, calls, told, application>>

\* The rest of handleClose: it looks at _stopped no more.
ScheduleReconnect ==
    /\ closing
    /\ closing' = FALSE
    /\ attempt' = attempt + 1
    /\ timer' = TRUE
    /\ UNCHANGED <<sock, session, ready, stopped, draining, keepalive, statusTimer, calls,
                   told, application>>

\* Bound of the model: the timer fires when no other socket is there.
OneSocket == sock = "none"

ReconnectFires ==
    /\ timer /\ ~closing /\ OneSocket
    /\ timer' = FALSE
    /\ Fresh
    /\ UNCHANGED <<ready, stopped, draining, closing, keepalive, statusTimer, attempt, calls,
                   told, application>>

-----------------------------------------------------------------------------
Next ==
    \/ StartWhenUp \/ StartWhenDown \/ Stop \/ DrainEnds
    \/ ReadyAtOnce \/ ReadyWaits \/ ReadyGivesUp
    \/ \E r \in Calls : Call(r) \/ Expire(r) \/ Response(r)
    \/ SocketOpens \/ SocketCloses \/ HubVanishes
    \/ HelloAck \/ HelloRefused \/ Pong \/ KeepaliveTick
    \/ CloseEvent \/ ScheduleReconnect \/ ReconnectFires

Spec == Init /\ [][Next]_vars

(***************************************************************************)
(* The timers of this process fire, the budget of a graceful stop ends, a   *)
(* closing socket closes and a handshake is answered one way or the other.  *)
(* Nothing is asked of the hub once the link is open.                       *)
(***************************************************************************)
Fairness ==
    /\ WF_vars(DrainEnds) /\ WF_vars(CloseEvent)
    /\ WF_vars(ScheduleReconnect) /\ WF_vars(ReconnectFires)
    /\ WF_vars(KeepaliveTick)
    /\ WF_vars(SocketOpens \/ (sock = "connecting" /\ SocketCloses))

FairSpec == Spec /\ Fairness

-----------------------------------------------------------------------------
(***************************************************************************)
(* Properties.                                                             *)
(***************************************************************************)
Flags ==
    /\ gone \in BOOLEAN /\ emitted \in BOOLEAN /\ ready \in BOOLEAN
    /\ stopped \in BOOLEAN /\ closing \in BOOLEAN
    /\ timer \in BOOLEAN /\ statusTimer \in BOOLEAN
    /\ told \in BOOLEAN /\ wanted \in BOOLEAN
    /\ reconnectOnRejection \in BOOLEAN

Fields ==
    /\ sock \in {"none", "connecting", "open", "closing", "replaced"}
    /\ answer \in {"none", "ok", "refused"}
    /\ draining \in {"no", "was ready", "was not ready"}
    /\ keepalive \in {"off", "answered", "waiting"}
    /\ attempt \in 0 .. MaxReconnectAttempts
    /\ calls \in [Calls -> {"idle", "pending", "settled"}]
    /\ carried \subseteq Calls
    /\ waiter \in {"none", "waiting", "resolved", "rejected"}
    /\ used \subseteq Uses

\* The values the fields of a LinkClient take; no more reconnects than allowed.
TypeOK == Flags /\ Fields

\* What the application has not done so far.
ClosesFinish == "restart while closing" \notin used
DrainsFinish == "restart while draining" \notin used
ListenersReturn == used \cap {"start from a listener", "stop from a listener"} = {}

\* A reconnect is scheduled only while the link has no socket and has not been
\* stopped, so start(), the drain of a stop() and the reconnect timer never
\* open two sockets for one link, unless a listener of 'disconnect' or
\* 'reconnecting' called start() or stop(): handleClose then sets the timer
\* beside the new socket, or on the stopped link (start, stop, handleClose).
OneWayUp == ListenersReturn /\ timer => sock = "none" /\ ~stopped

\* A link the application wants always has something that will bring it up: a
\* socket, a scheduled reconnect, a handleClose about to schedule one, or a
\* graceful stop that restarts it when done (start, stop, handleClose).
KeepsTrying ==
    wanted => ~stopped /\ (sock # "none" \/ timer \/ closing \/ draining # "no")

\* What may be written without waiting is written on a socket whose hello the
\* hub accepted, by a link that is not stopped, whichever socket _ready was
\* set for (readyToWrite in the constructor, rpc, the hello.ack branch).
WritesOnAcceptedLink == Connected /\ ready => answer = "ok" /\ ~stopped

\* A pending RPC was sent on the socket the link still has, unless a graceful
\* stop is about to reject it: when the socket goes, the call is rejected
\* (handleClose, _hardStop).
NoStrandedCalls == ClosesFinish /\ draining = "no" => Pending \subseteq carried

\* An application told 'ready' is told 'disconnect' by the time the link is no
\* longer ready or being drained (_emitDisconnect, _hardStop, handleClose).
ToldWhenDown == ClosesFinish /\ DrainsFinish /\ told => ready \/ draining # "no"

\* No connection attempt begins after the application's stop(), or after the
\* client gave the link up, until the application calls start().
StoppedStaysDown ==
    [][DrainsFinish /\ sock # "connecting" /\ sock' = "connecting" => wanted']_vars

\* ready() resolves for a link that is not stopped and whose hello the hub
\* accepted on this socket, and nobody is left waiting for a link that is
\* ready (ready, the hello.ack branch, settleOnEvents).  The one exception is
\* an application that called start() while a socket was closing: _ready then
\* survives until the new socket opens, and ready() resolves at once although
\* no hello was sent on it yet.
ReadyTellsTruth ==
    [][/\ waiter # "resolved" /\ waiter' = "resolved" =>
             ~stopped' /\ (answer' = "ok" \/ (~ClosesFinish /\ sock # "open"))
       /\ ready' => waiter' # "waiting"]_vars

\* An RPC on a connection that went dead is settled although it may have no
\* deadline of its own, unless a start() while a socket was closing took the
\* close event away (_startKeepalive, handleClose, _failAllPending).
DeadHubFailsCalls ==
    \A r \in Calls : calls[r] = "pending" /\ gone ~> calls[r] = "settled" \/ ~ClosesFinish

\* A wanted link without a socket tries to connect again, unless the
\* application or the reconnect ceiling ends that (handleClose, stop).
ComesBack == wanted /\ sock = "none" ~> sock = "connecting" \/ ~wanted
=============================================================================
