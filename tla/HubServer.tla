------------------------------ MODULE HubServer ------------------------------
(***************************************************************************)
(* The life of createHubServer: start(), stop() and the shutdown timeout   *)
(* around an HTTP server, a WebSocketServer and a hub                      *)
(* (src/src/hub/server.js).                                                *)
(*                                                                         *)
(* start() and stop() are async functions; each stretch between two awaits *)
(* is one step.  stop() races its work against the timeout: when the       *)
(* timeout wins, the promise is rejected and the server marked stopped     *)
(* while the work goes on by itself.  Sockets, listening and HTTP requests *)
(* belong to Node and ws.                                                  *)
(***************************************************************************)
EXTENDS FiniteSets

CONSTANTS Sockets

VARIABLES
    starting,       \* startPromise is set and its listen() not yet answered
    started, stopping, stopped,
    signals,        \* the signal handlers are installed
    work,           \* where the shutdown has come to: "none", "await start",
                    \* "draining", "await wss", "await http", "await hook",
                    \* "done"
    outcome,        \* of the promise stop() returned: "none", "pending", "ok"
                    \* or "timeout"
    timer,          \* the shutdown timeout is armed
    http,           \* the HTTP server: "idle", "listening", "closing" or
                    \* "closed"; always "given" when the options brought one
    busy,           \* an HTTP request is being answered
    wss,            \* the WebSocketServer: "open", "closing" or "closed"
    sock,           \* of each socket: "new", "open", "closing" or "gone"
    hub             \* "running" or "stopped"

flags == <<started, stopping, stopped>>
vars == <<starting, flags, signals, work, outcome, timer, http, busy, wss, sock, hub>>
-----------------------------------------------------------------------------
OwnsHttp == http # "given"                                  \* ownsHttpServer
Gone == \A ws \in Sockets : sock[ws] \in {"new", "gone"}

Closing == [ws \in Sockets |-> IF sock[ws] = "open" THEN "closing" ELSE sock[ws]]

Init ==
    /\ starting = FALSE /\ started = FALSE /\ stopping = FALSE /\ stopped = FALSE
    /\ signals = FALSE /\ timer = FALSE /\ busy = FALSE
    /\ work = "none" /\ outcome = "none"
    /\ http \in {"idle", "given"}
    /\ wss = "open"
    /\ sock = [ws \in Sockets |-> "new"]
    /\ hub = "running"

\* The flags and the signal handlers once start() has succeeded.
Up == started' = TRUE /\ signals' = TRUE

\* start() throws on a server that is stopping or has stopped, and returns the
\* promise of the start under way.
MayStart == ~stopped /\ ~stopping /\ ~started /\ ~starting

Start ==
    /\ MayStart
    /\ IF OwnsHttp
       THEN starting' = TRUE /\ UNCHANGED <<started, signals>>
       ELSE Up /\ UNCHANGED starting
    /\ UNCHANGED <<stopping, stopped, work, outcome, timer, http, busy, wss, sock, hub>>

Listening ==
    /\ starting
    /\ starting' = FALSE
    /\ http' = "listening"
    /\ Up
    /\ UNCHANGED <<stopping, stopped, work, outcome, timer, busy, wss, sock, hub>>

\* The port is taken: start() may be called again.
ListenFails ==
    /\ starting
    /\ starting' = FALSE
    /\ UNCHANGED <<flags, signals, work, outcome, timer, http, busy, wss, sock, hub>>
-----------------------------------------------------------------------------
\* The finally block of stop().
Finish(how) ==
    /\ outcome' = how
    /\ timer' = FALSE
    /\ signals' = FALSE
    /\ started' = FALSE /\ stopping' = FALSE /\ stopped' = TRUE

WssClose == wss' = IF wss = "open" THEN "closing" ELSE wss

\* hub.stop() closes the sockets it knows.
StopHub == hub' = "stopped"

\* A server that is not up has nothing to drain.
HaltUnstarted ==
    /\ WssClose
    /\ StopHub /\ sock' = Closing
    /\ work' = "done"
    /\ Finish("ok")
    /\ UNCHANGED <<starting, http, busy>>

\* Mutant: the timeout is not armed.
BeginDrain_Untimed ==
    /\ WssClose
    /\ sock' = Closing
    /\ work' = "draining"
    /\ outcome' = "pending"
    /\ stopping' = TRUE
    /\ UNCHANGED <<starting, started, stopped, signals, timer, http, busy, hub>>
\* The timeout is armed, the WebSocketServer closed to new sockets and the
\* old ones asked to close.
BeginDrain ==
    /\ WssClose
    /\ sock' = Closing
    /\ work' = "draining"
    /\ outcome' = "pending"
    /\ timer' = TRUE
    /\ stopping' = TRUE
    /\ UNCHANGED <<starting, started, stopped, signals, http, busy, hub>>

Halt == IF started THEN BeginDrain ELSE HaltUnstarted

\* stop() before the answer to listen() waits for it.
WaitForStart ==
    /\ stopping' = TRUE
    /\ outcome' = "pending"
    /\ work' = "await start"
    /\ UNCHANGED <<starting, started, stopped, signals, timer, http, busy, wss, sock, hub>>

\* Mutant: a start under way is not waited for.
HaltOrWait_AtOnce == Halt
HaltOrWait == IF starting THEN WaitForStart ELSE Halt

\* stop(), by the application or by a signal; a call during a stop returns its
\* promise, and one after it does nothing.
Stop == outcome = "none" /\ HaltOrWait

\* The await of startPromise in stop() continues.
StartSettled == work = "await start" /\ ~starting /\ Halt
-----------------------------------------------------------------------------
\* drainDelayMs later the sockets that are still there are terminated.
DrainEnds ==
    /\ work = "draining"
    /\ work' = "await wss"
    /\ sock' = Closing
    /\ UNCHANGED <<starting, flags, signals, outcome, timer, http, busy, wss, hub>>

\* What the shutdown does after the HTTP server is closed, or left alone.
HubLast ==
    /\ StopHub /\ sock' = Closing
    /\ work' = "await hook"

\* Mutant: the shutdown does not wait for the sockets.
WssDown_Any == TRUE
WssDown == wss = "closed"

\* httpServer.close() waits for the requests it is answering.
CloseHttp ==
    /\ work = "await wss" /\ WssDown
    /\ IF OwnsHttp
       THEN /\ http' = "closing"
            /\ work' = "await http"
            /\ UNCHANGED <<sock, hub>>
       ELSE HubLast /\ UNCHANGED http
    /\ UNCHANGED <<starting, flags, signals, outcome, timer, busy, wss>>

\* The hub is stopped, then onShutdown() is called and awaited.
CallHook ==
    /\ work = "await http" /\ http = "closed"
    /\ HubLast
    /\ UNCHANGED <<starting, flags, signals, outcome, timer, http, busy, wss>>

\* onShutdown() is done; the promise of stop() is fulfilled if it was waiting.
HookEnds ==
    /\ work = "await hook"
    /\ work' = "done"
    /\ IF outcome = "pending"
       THEN Finish("ok")
       ELSE UNCHANGED <<flags, signals, outcome, timer>>
    /\ UNCHANGED <<starting, http, busy, wss, sock, hub>>

\* Mutant: the work is abandoned.
TimedOut_Abandons ==
    /\ timer
    /\ Finish("timeout")
    /\ work' = "done"
    /\ UNCHANGED <<starting, http, busy, wss, sock, hub>>
\* shutdownTimeoutMs are over: the promise is rejected, the work goes on.
TimedOut ==
    /\ timer
    /\ Finish("timeout")
    /\ UNCHANGED <<starting, work, http, busy, wss, sock, hub>>
-----------------------------------------------------------------------------
\* An upgrade is accepted and hub.attach called; an application's own HTTP
\* server may be listening before start().
Connect(ws) ==
    /\ sock[ws] = "new"
    /\ wss = "open" /\ http \in {"listening", "given"}
    /\ sock' = [sock EXCEPT ![ws] = "open"]
    /\ UNCHANGED <<starting, flags, signals, work, outcome, timer, http, busy, wss, hub>>

\* A socket is closed by its peer or ends a close that was begun.
SocketCloses(ws) ==
    /\ sock[ws] \in {"open", "closing"}
    /\ sock' = [sock EXCEPT ![ws] = "gone"]
    /\ UNCHANGED <<starting, flags, signals, work, outcome, timer, http, busy, wss, hub>>

\* ws emits "close" when the last socket of a closing server is gone.
WssCloses ==
    /\ wss = "closing" /\ Gone
    /\ wss' = "closed"
    /\ UNCHANGED <<starting, flags, signals, work, outcome, timer, http, busy, sock, hub>>

Request ==
    /\ http = "listening" /\ ~busy
    /\ busy' = TRUE
    /\ UNCHANGED <<starting, flags, signals, work, outcome, timer, http, wss, sock, hub>>

Answered ==
    /\ busy
    /\ busy' = FALSE
    /\ UNCHANGED <<starting, flags, signals, work, outcome, timer, http, wss, sock, hub>>

HttpCloses ==
    /\ http = "closing" /\ ~busy
    /\ http' = "closed"
    /\ UNCHANGED <<starting, flags, signals, work, outcome, timer, busy, wss, sock, hub>>

Shutdown ==
    Stop \/ StartSettled \/ DrainEnds \/ CloseHttp \/ CallHook \/ HookEnds \/ TimedOut

Network ==
    \/ \E ws \in Sockets : Connect(ws) \/ SocketCloses(ws)
    \/ WssCloses \/ Request \/ Answered \/ HttpCloses

Next == Start \/ Listening \/ ListenFails \/ Shutdown \/ Network

Spec == Init /\ [][Next]_vars

\* listen() is answered, timers fire, and a socket that was closed closes.
\* Nothing makes the application answer a request or finish onShutdown().
Fairness ==
    /\ WF_vars(Listening \/ ListenFails)
    /\ WF_vars(StartSettled) /\ WF_vars(DrainEnds) /\ WF_vars(CloseHttp)
    /\ WF_vars(CallHook) /\ WF_vars(TimedOut)
    /\ WF_vars(WssCloses) /\ WF_vars(HttpCloses)
    /\ \A ws \in Sockets : WF_vars(sock[ws] = "closing" /\ SocketCloses(ws))
FairSpec == Spec /\ Fairness
-----------------------------------------------------------------------------
\* The fields of the server keep their types, and started, stopping and
\* stopped are exclusive in the way isStarted, isStopping and isStopped tell.
TypeOK ==
    /\ starting \in BOOLEAN /\ started \in BOOLEAN /\ stopping \in BOOLEAN
    /\ stopped \in BOOLEAN /\ signals \in BOOLEAN /\ timer \in BOOLEAN
    /\ busy \in BOOLEAN
    /\ work \in {"none", "await start", "draining", "await wss", "await http",
                 "await hook", "done"}
    /\ outcome \in {"none", "pending", "ok", "timeout"}
    /\ http \in {"idle", "listening", "closing", "closed", "given"}
    /\ wss \in {"open", "closing", "closed"}
    /\ sock \in [Sockets -> {"new", "open", "closing", "gone"}]
    /\ hub \in {"running", "stopped"}
    /\ stopped => ~started /\ ~stopping

TornDown ==
    /\ wss # "open"
    /\ http \in {"idle", "closed", "given"}
    /\ hub = "stopped"
    /\ \A ws \in Sockets : sock[ws] # "open"

\* A stop() whose promise was fulfilled has left nothing behind: no port, no
\* signal handler, no running hub, no open socket, even when start() was still
\* waiting for its port, and nothing comes back later (start, stop, finally).
NothingLeftBehind == outcome = "ok" => TornDown /\ ~signals /\ ~starting

\* onShutdown() runs at the end of the shutdown, after the sockets and the HTTP
\* server are closed, even when the timeout has already rejected the promise
\* (the work of stop).
HookRunsLast ==
    work = "await hook" => wss = "closed" /\ Gone /\ http \in {"closed", "given"}

\* stop() settles within shutdownTimeoutMs of the answer to listen(), although
\* a request or onShutdown() may never end (the race in stop).
StopSettles == outcome = "pending" ~> outcome \in {"ok", "timeout"}

\* A stop() that timed out still brings everything down once the application
\* answers its requests (the work of stop goes on).
ComesDown == WF_vars(Answered) => (outcome = "timeout" ~> TornDown)
=============================================================================
