--------------------------- MODULE HubServerProofs ---------------------------
(***************************************************************************)
(* Theorems about HubServer, for any sockets, with an HTTP server of its   *)
(* own or the application's.                                               *)
(***************************************************************************)
EXTENDS HubServer, TLAPS

Fields ==
    /\ work \in {"none", "await start", "draining", "await wss", "await http",
                 "await hook", "done"}
    /\ outcome \in {"none", "pending", "ok", "timeout"}
    /\ http \in {"idle", "listening", "closing", "closed", "given"}
    /\ wss \in {"open", "closing", "closed"}
    /\ sock \in [Sockets -> {"new", "open", "closing", "gone"}]
    /\ hub \in {"running", "stopped"}

\* The flags tell where the shutdown is and how its promise stands.
FlagsMatch ==
    /\ work = "none" <=> outcome = "none"
    /\ stopping <=> outcome = "pending"
    /\ stopped <=> outcome \in {"ok", "timeout"}
    /\ started => ~stopped /\ ~starting
    /\ starting => work \in {"none", "await start"} /\ http = "idle" /\ ~stopped
    /\ signals => started
    /\ timer => outcome = "pending" /\ work # "await start"
    /\ outcome = "ok" => work = "done"
    /\ work = "await start" => outcome = "pending"
    /\ work \in {"none", "await start"} /\ ~started => http \in {"idle", "given"}

\* What the shutdown has brought down when it has come to each point.
WorkDone ==
    /\ work \in {"none", "await start"} => wss = "open"
    /\ work \notin {"none", "await start"} => wss # "open"
    /\ wss # "open" => \A ws \in Sockets : sock[ws] # "open"
    /\ wss = "closed" => Gone
    /\ work \in {"await http", "await hook"} => wss = "closed"
    /\ work = "await hook" => hub = "stopped" /\ http \in {"closed", "given"}
    /\ work = "done" => hub = "stopped" /\ http \in {"idle", "closed", "given"}

IInv == Fields /\ FlagsMatch /\ WorkDone
-----------------------------------------------------------------------------
\* A new server satisfies the invariant (createHubServer).
LEMMA InitIInv == Init => IInv
  BY DEF Init, IInv, Fields, FlagsMatch, WorkDone, Gone

\* start() and the answer to its listen() keep the invariant.
LEMMA StartKeepsIInv == IInv /\ (Start \/ Listening \/ ListenFails) => IInv'
<1> SUFFICES ASSUME IInv, Start \/ Listening \/ ListenFails PROVE IInv'
  OBVIOUS
<1> USE DEF IInv, Fields, FlagsMatch, WorkDone, Gone, flags
<1>1. CASE Start
  BY <1>1 DEF Start, MayStart, Up, OwnsHttp
<1>2. CASE Listening
  BY <1>2 DEF Listening, Up
<1>3. CASE ListenFails
  BY <1>3 DEF ListenFails
<1> QED
  BY <1>1, <1>2, <1>3

\* A sweep over the sockets leaves none open and undoes no close.
LEMMA ClosingLeavesNoneOpen ==
  ASSUME Fields
  PROVE  /\ Closing \in [Sockets -> {"new", "open", "closing", "gone"}]
         /\ \A ws \in Sockets : Closing[ws] # "open"
         /\ Gone => \A ws \in Sockets : Closing[ws] \in {"new", "gone"}
  BY DEF Fields, Closing, Gone

\* stop(), from its call to the moment the work starts, keeps the invariant.
LEMMA HaltKeepsIInv ==
  ASSUME IInv, ~starting, work \in {"none", "await start"}, Halt PROVE IInv'
<1> USE DEF IInv, Fields, FlagsMatch, WorkDone, Gone, flags, WssClose
<1>1. CASE BeginDrain
  BY <1>1, ClosingLeavesNoneOpen DEF BeginDrain
<1>2. CASE ~started /\ HaltUnstarted
  BY <1>2, ClosingLeavesNoneOpen DEF HaltUnstarted, StopHub, Finish
<1> QED
  BY <1>1, <1>2 DEF Halt

\* Every step of stop() up to the drain keeps the invariant.
LEMMA StopKeepsIInv == IInv /\ (Stop \/ StartSettled) => IInv'
<1> SUFFICES ASSUME IInv, Stop \/ StartSettled PROVE IInv'
  OBVIOUS
<1>1. CASE Stop /\ starting
  BY <1>1 DEF Stop, HaltOrWait, WaitForStart, IInv, Fields, FlagsMatch, WorkDone, Gone, flags
<1>2. CASE Stop /\ ~starting
  BY <1>2, HaltKeepsIInv DEF Stop, HaltOrWait, IInv, FlagsMatch
<1>3. CASE StartSettled
  BY <1>3, HaltKeepsIInv DEF StartSettled
<1> QED
  BY <1>1, <1>2, <1>3

\* The work of the shutdown, and the timeout it races, keep the invariant.
LEMMA WorkKeepsIInv ==
  IInv /\ (DrainEnds \/ CloseHttp \/ CallHook \/ HookEnds \/ TimedOut) => IInv'
<1> SUFFICES ASSUME IInv, DrainEnds \/ CloseHttp \/ CallHook \/ HookEnds \/ TimedOut
             PROVE  IInv'
  OBVIOUS
<1> USE ClosingLeavesNoneOpen
        DEF IInv, Fields, FlagsMatch, WorkDone, Gone, flags, HubLast, StopHub, Finish
<1>1. CASE DrainEnds
  BY <1>1 DEF DrainEnds
<1>2. CASE CloseHttp
  BY <1>2 DEF CloseHttp, WssDown, OwnsHttp
<1>3. CASE CallHook
  BY <1>3 DEF CallHook
<1>4. CASE HookEnds
  BY <1>4 DEF HookEnds
<1>5. CASE TimedOut
  BY <1>5 DEF TimedOut
<1> QED
  BY <1>1, <1>2, <1>3, <1>4, <1>5

\* Whatever sockets, requests and the two servers do keeps the invariant.
LEMMA NetworkKeepsIInv == IInv /\ Network => IInv'
<1> SUFFICES ASSUME IInv, Network PROVE IInv'
  OBVIOUS
<1> USE DEF IInv, Fields, FlagsMatch, WorkDone, Gone, flags
<1>1. CASE \E ws \in Sockets : Connect(ws)
  <2>1. PICK ws \in Sockets : Connect(ws)
    BY <1>1
  <2>2. wss = "open" /\ Fields' /\ FlagsMatch'
    BY <2>1 DEF Connect
  <2>3. WorkDone'
    BY <2>1, <2>2 DEF Connect
  <2> QED
    BY <2>2, <2>3
<1>2. CASE \E ws \in Sockets : SocketCloses(ws)
  <2>1. PICK ws \in Sockets : SocketCloses(ws)
    BY <1>2
  <2>2. Fields' /\ FlagsMatch'
    BY <2>1 DEF SocketCloses
  <2>3. \A w \in Sockets : sock'[w] = IF w = ws THEN "gone" ELSE sock[w]
    BY <2>1 DEF SocketCloses
  <2>4. WorkDone'
    BY <2>1, <2>3 DEF SocketCloses
  <2> QED
    BY <2>2, <2>4
<1>3. CASE WssCloses
  BY <1>3 DEF WssCloses
<1>4. CASE Request \/ Answered
  <2>1. UNCHANGED <<starting, flags, signals, work, outcome, timer, http, wss, sock, hub>>
    BY <1>4 DEF Request, Answered
  <2> QED
    BY <2>1
<1>5. CASE HttpCloses
  BY <1>5 DEF HttpCloses
<1> QED
  BY <1>1, <1>2, <1>3, <1>4, <1>5 DEF Network

\* The flags, the promise and the work of a shutdown agree at every moment
\* (createHubServer).
THEOREM Invariance == Spec => []IInv
<1>1. IInv /\ [Next]_vars => IInv'
  <2> SUFFICES ASSUME IInv, [Next]_vars PROVE IInv'
    OBVIOUS
  <2>1. CASE Next
    BY <2>1, StartKeepsIInv, StopKeepsIInv, WorkKeepsIInv, NetworkKeepsIInv
       DEF Next, Shutdown
  <2>2. CASE UNCHANGED vars
    BY <2>2 DEF vars, flags, IInv, Fields, FlagsMatch, WorkDone, Gone
  <2> QED
    BY <2>1, <2>2
<1> QED
  BY InitIInv, <1>1, PTL DEF Spec

Booleans ==
    /\ starting \in BOOLEAN /\ started \in BOOLEAN /\ stopping \in BOOLEAN
    /\ stopped \in BOOLEAN /\ signals \in BOOLEAN /\ timer \in BOOLEAN
    /\ busy \in BOOLEAN

\* The flags are never anything but booleans.
LEMMA NextBooleans == Booleans /\ [Next]_vars => Booleans'
<1> SUFFICES ASSUME Booleans, [Next]_vars PROVE Booleans'
  OBVIOUS
<1> USE DEF Booleans, flags
<1>1. CASE Start
  BY <1>1, Zenon DEF Start, Up
<1>2. CASE Listening \/ ListenFails
  BY <1>2, Zenon DEF Listening, ListenFails, Up
<1>3. ASSUME Halt PROVE Booleans'
  BY <1>3, Zenon DEF Halt, BeginDrain, HaltUnstarted, Finish
<1>4. CASE Stop \/ StartSettled
  BY <1>3, <1>4, Zenon DEF Stop, StartSettled, HaltOrWait, WaitForStart
<1>5. CASE DrainEnds \/ CloseHttp \/ CallHook
  BY <1>5, Zenon DEF DrainEnds, CloseHttp, CallHook, HubLast
<1>6. CASE HookEnds \/ TimedOut
  BY <1>6, Zenon DEF HookEnds, TimedOut, Finish
<1>7. CASE Network
  BY <1>7, Zenon DEF Network, Connect, SocketCloses, WssCloses, Request, Answered, HttpCloses
<1>8. CASE UNCHANGED vars
  BY <1>8, Zenon DEF vars
<1> QED
  BY <1>1, <1>2, <1>4, <1>5, <1>6, <1>7, <1>8 DEF Next, Shutdown

\* The server keeps its types, and a stopped one is neither started nor
\* stopping (isStarted, isStopping, isStopped).
THEOREM TypeCorrect == Spec => []TypeOK
<1>1. Init => Booleans
  BY DEF Init, Booleans
<1>2. Spec => []Booleans
  BY <1>1, NextBooleans, PTL DEF Spec
<1>3. IInv /\ Booleans => TypeOK
  BY DEF IInv, Fields, FlagsMatch, Booleans, TypeOK
<1> QED
  BY Invariance, <1>2, <1>3, PTL

\* A stop() whose promise was fulfilled has left no port, no signal handler, no
\* running hub and no open socket behind (the finally block and the work of
\* stop).
THEOREM StopLeavesNothing == Spec => []NothingLeftBehind
<1>1. IInv => NothingLeftBehind
  BY DEF IInv, Fields, FlagsMatch, WorkDone, NothingLeftBehind, TornDown
<1> QED
  BY Invariance, <1>1, PTL

\* onShutdown() runs after every socket and the HTTP server are closed, whether
\* or not the timeout came first (the work of stop).
THEOREM HookLast == Spec => []HookRunsLast
<1>1. IInv => HookRunsLast
  BY DEF IInv, WorkDone, HookRunsLast
<1> QED
  BY Invariance, <1>1, PTL
=============================================================================
