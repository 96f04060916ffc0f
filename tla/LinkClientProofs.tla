---------------------------- MODULE LinkClientProofs ----------------------------
(***************************************************************************)
(* Theorems about LinkClient, for any calls, any reconnect ceiling, any    *)
(* options and any use of it; one of them, StaysDown, for an application   *)
(* no listener of which calls stop() (run LinkListener).                   *)
(*                                                                         *)
(* The three properties of the first part are inductive together once it   *)
(* is known that handleClose has an attempt left while its listeners run,  *)
(* and neither a socket nor the stopped flag unless one of them called     *)
(* start() or stop() (IInv).  What callers and listeners are told rests on *)
(* that and on a second invariant (Told).                                  *)
(***************************************************************************)
EXTENDS LinkClient, TLAPS

\* While handleClose runs its listeners the link has an attempt left, and only
\* they can give it a socket or stop it.
QuietClose ==
    closing =>
        /\ attempt < MaxReconnectAttempts
        /\ ListenersReturn => sock = "none" /\ ~stopped

IInv == Fields /\ OneWayUp /\ KeepsTrying /\ WritesOnAcceptedLink /\ QuietClose

-----------------------------------------------------------------------------
\* A new link satisfies the invariant (the constructor).
LEMMA InitIInv == Init => IInv
  BY LinkAssumption
  DEF LinkAssumption, Init, IInv, Fields, OneWayUp, KeepsTrying, WritesOnAcceptedLink,
      QuietClose, Connected

\* start(), on whatever socket the link has, keeps the invariant.
LEMMA StartsKeepIInv == IInv /\ (StartWhenUp \/ StartWhenDown) => IInv'
<1> SUFFICES ASSUME IInv, StartWhenUp \/ StartWhenDown PROVE IInv'
  OBVIOUS
<1> USE DEF IInv, Fields, OneWayUp, KeepsTrying, WritesOnAcceptedLink, QuietClose, Connected,
            ListenersReturn, session, socketFlags, timers, application
<1>1. CASE StartWhenUp
  BY <1>1 DEF StartWhenUp, AsksFor, StartUse
<1>2. CASE StartWhenDown
  BY <1>2 DEF StartWhenDown, AsksFor, StartUse, Fresh
<1> QED
  BY <1>1, <1>2

\* stop(), and the end of the drain it may have started, keep the invariant.
LEMMA StopsKeepIInv == IInv /\ (Stop \/ DrainEnds) => IInv'
<1> SUFFICES ASSUME IInv, Stop \/ DrainEnds PROVE IInv'
  OBVIOUS
<1> USE DEF IInv, Fields, OneWayUp, KeepsTrying, WritesOnAcceptedLink, QuietClose, Connected,
            ListenersReturn, session, socketFlags, timers, application, BeginStop, ClearTimers, FailAllPending,
            TellDisconnect, Pending
<1>1. CASE Stop
  <2>1. ~(closing /\ ListenersReturn')
    BY <1>1 DEF Stop, ListenersReturn, AsksFor, StopUse
  <2>2. CASE HaltNow
    BY <1>1, <2>1, <2>2 DEF Stop, AsksFor, StopUse, HaltNow
  <2>3. CASE HaltGracefully
    BY <1>1, <2>1, <2>3 DEF Stop, AsksFor, StopUse, HaltGracefully
  <2>4. CASE AlreadyHalting
    BY <1>1, <2>1, <2>4 DEF Stop, AsksFor, StopUse, AlreadyHalting
  <2> QED
    BY <1>1, <2>2, <2>3, <2>4 DEF Stop, Halt
<1>2. CASE DrainEnds
  <2>1. CASE stopped
    BY <1>2, <2>1 DEF DrainEnds, HardStop, WasReady
  <2>2. CASE ~stopped
    BY <1>2, <2>2 DEF DrainEnds, HardStop, WasReady, Fresh
  <2> QED
    BY <2>1, <2>2
<1> QED
  BY <1>1, <1>2

\* ready() keeps the invariant, also where it starts the link.
LEMMA ReadyKeepsIInv == IInv /\ (ReadyAtOnce \/ ReadyWaits \/ ReadyGivesUp) => IInv'
<1> SUFFICES ASSUME IInv, ReadyAtOnce \/ ReadyWaits \/ ReadyGivesUp PROVE IInv'
  OBVIOUS
<1> USE DEF IInv, Fields, OneWayUp, KeepsTrying, WritesOnAcceptedLink, QuietClose, Connected,
            ListenersReturn, session, socketFlags, timers
<1>1. CASE ReadyAtOnce
  BY <1>1 DEF ReadyAtOnce
<1>2. CASE ReadyWaits
  BY <1>2 DEF ReadyWaits, NeverStarted, Fresh
<1>3. CASE ReadyGivesUp
  BY <1>3 DEF ReadyGivesUp, Settle
<1> QED
  BY <1>1, <1>2, <1>3

\* Making, expiring and answering calls keeps the invariant.
LEMMA CallsKeepIInv ==
  ASSUME NEW r \in Calls PROVE IInv /\ (Call(r) \/ Expire(r) \/ Response(r)) => IInv'
<1> SUFFICES ASSUME IInv, Call(r) \/ Expire(r) \/ Response(r) PROVE IInv'
  OBVIOUS
<1> USE DEF IInv, Fields, OneWayUp, KeepsTrying, WritesOnAcceptedLink, QuietClose, Connected,
            ListenersReturn, session, socketFlags, timers, application
<1>1. CASE Call(r)
  BY <1>1 DEF Call
<1>2. CASE Expire(r)
  BY <1>2 DEF Expire
<1>3. CASE Response(r)
  BY <1>3 DEF Response
<1> QED
  BY <1>1, <1>2, <1>3

\* What the socket and the keepalive timer do keeps the invariant.
LEMMA SocketKeepsIInv ==
  IInv /\ (SocketOpens \/ SocketCloses \/ HubVanishes \/ Pong \/ KeepaliveTick) => IInv'
<1> SUFFICES ASSUME IInv,
                    SocketOpens \/ SocketCloses \/ HubVanishes \/ Pong \/ KeepaliveTick
             PROVE  IInv'
  OBVIOUS
<1> USE DEF IInv, Fields, OneWayUp, KeepsTrying, WritesOnAcceptedLink, QuietClose, Connected,
            ListenersReturn, session, socketFlags, timers, application
<1>1. CASE SocketOpens
  BY <1>1 DEF SocketOpens
<1>2. CASE SocketCloses
  BY <1>2 DEF SocketCloses
<1>3. CASE HubVanishes
  BY <1>3 DEF HubVanishes
<1>4. CASE Pong
  BY <1>4 DEF Pong
<1>5. CASE KeepaliveTick
  BY <1>5 DEF KeepaliveTick
<1> QED
  BY <1>1, <1>2, <1>3, <1>4, <1>5

\* The two steps that change the number of attempts keep it within the ceiling.
LEMMA AttemptsBounded ==
  ASSUME Fields, QuietClose, HelloAck \/ ScheduleReconnect
  PROVE  attempt' \in 0 .. MaxReconnectAttempts
<1>1. MaxReconnectAttempts \in Nat
  BY LinkAssumption DEF LinkAssumption
<1>2. attempt \in 0 .. MaxReconnectAttempts
  BY DEF Fields
<1>3. CASE HelloAck
  <2>1. attempt' = 0 \/ attempt' = attempt
    BY <1>3 DEF HelloAck
  <2> QED
    BY <1>1, <1>2, <2>1
<1>4. CASE ScheduleReconnect
  <2>1. attempt' = attempt + 1 /\ attempt < MaxReconnectAttempts
    BY <1>4 DEF ScheduleReconnect, QuietClose
  <2> QED
    BY <1>1, <1>2, <2>1
<1> QED
  BY <1>3, <1>4

\* A close event that schedules a reconnect has an attempt left for it.
LEMMA AttemptLeft ==
  ASSUME Fields, ~Exhausted PROVE attempt < MaxReconnectAttempts
<1>1. MaxReconnectAttempts \in Nat /\ attempt \in 0 .. MaxReconnectAttempts
  BY LinkAssumption DEF LinkAssumption, Fields
<1> QED
  BY <1>1 DEF Exhausted

\* The hub's answer to the hello keeps the invariant.
LEMMA AnswersKeepIInv == IInv /\ (HelloAck \/ HelloRefused) => IInv'
<1> SUFFICES ASSUME IInv, HelloAck \/ HelloRefused PROVE IInv'
  OBVIOUS
<1>0. Fields /\ QuietClose
  BY DEF IInv
<1> USE DEF IInv, Fields, OneWayUp, KeepsTrying, WritesOnAcceptedLink, QuietClose, Connected,
            ListenersReturn, session, socketFlags, timers, application, BeginStop, ClearTimers, FailAllPending,
            TellDisconnect, Pending
<1>1. CASE HelloAck
  <2>1. attempt' \in 0 .. MaxReconnectAttempts
    BY <1>0, <1>1, AttemptsBounded
  <2>2. ~closing' /\ UNCHANGED <<sock, timer, closing, wanted, stopped, calls, carried, draining, keepalive>>
    BY <1>1 DEF HelloAck
  <2>3. answer' = "ok"
    BY <1>1 DEF HelloAck
  <2>4. ~stopped' \/ ~ready'
    BY <1>1 DEF HelloAck, BecomesReady
  <2>5. waiter' \in {"none", "waiting", "resolved", "rejected"} /\ used' = used
    BY <1>1 DEF HelloAck, Settle
  <2> QED
    BY <2>1, <2>2, <2>3, <2>4, <2>5
<1>2. CASE HelloRefused /\ reconnectOnRejection
  BY <1>2 DEF HelloRefused, Settle
<1>3. CASE HelloRefused /\ ~reconnectOnRejection
  <2>1. CASE HaltNow
    BY <1>3, <2>1 DEF HelloRefused, Settle, HaltNow
  <2>2. CASE HaltGracefully
    BY <1>3, <2>2 DEF HelloRefused, Settle, HaltGracefully
  <2>3. CASE AlreadyHalting
    BY <1>3, <2>3 DEF HelloRefused, Settle, AlreadyHalting
  <2> QED
    BY <1>3, <2>1, <2>2, <2>3 DEF HelloRefused, Halt
<1> QED
  BY <1>1, <1>2, <1>3

\* Closing and reconnecting keep the invariant.
LEMMA ReconnectsKeepIInv == IInv /\ (CloseEvent \/ ScheduleReconnect \/ ReconnectFires) => IInv'
<1> SUFFICES ASSUME IInv, CloseEvent \/ ScheduleReconnect \/ ReconnectFires PROVE IInv'
  OBVIOUS
<1>0. Fields /\ QuietClose
  BY DEF IInv
<1> USE DEF IInv, Fields, OneWayUp, KeepsTrying, WritesOnAcceptedLink, QuietClose, Connected,
            ListenersReturn, session, socketFlags, timers, application
<1>1. CASE CloseEvent
  <2> USE <1>1 DEF CloseEvent, ClearTimers, FailAllPending, TellDisconnect, Pending
  <2>1. CASE stopped
    BY <2>1
  <2>2. CASE ~stopped /\ (sock = "replaced" \/ Exhausted)
    BY <2>2
  <2>3. CASE ~stopped /\ ~(sock = "replaced" \/ Exhausted)
    <3>1. attempt < MaxReconnectAttempts
      BY <1>0, <2>3, AttemptLeft
    <3> QED
      BY <2>3, <3>1
  <2> QED
    BY <2>1, <2>2, <2>3
<1>2. CASE ScheduleReconnect
  <2>1. attempt' \in 0 .. MaxReconnectAttempts
    BY <1>0, <1>2, AttemptsBounded
  <2> QED
    BY <1>2, <2>1 DEF ScheduleReconnect
<1>3. CASE ReconnectFires
  BY <1>3 DEF ReconnectFires, Fresh
<1> QED
  BY <1>1, <1>2, <1>3

\* The boolean fields stay boolean.
LEMMA FlagsKept == Flags /\ [Next]_vars => Flags'
<1> SUFFICES ASSUME Flags, [Next]_vars PROVE Flags'
  OBVIOUS
<1> USE DEF Flags, session, socketFlags, timers, application, ClearTimers, TellDisconnect, BeginStop
<1>1. CASE UNCHANGED vars
  BY <1>1 DEF vars
<1>2. CASE StartWhenUp \/ StartWhenDown
  BY <1>2, Zenon DEF StartWhenUp, StartWhenDown, AsksFor, Fresh
<1>3. ASSUME Halt, wanted' \in BOOLEAN, reconnectOnRejection' \in BOOLEAN PROVE Flags'
  BY <1>3, ZenonT(60) DEF Halt, HaltNow, HaltGracefully, AlreadyHalting
<1>4. CASE Stop
  BY <1>3, <1>4, Zenon DEF Stop, AsksFor
<1>5. CASE DrainEnds
  BY <1>5, ZenonT(60) DEF DrainEnds, HardStop, WasReady, Fresh
<1>6. ASSUME NEW r \in Calls, Call(r) \/ Expire(r) \/ Response(r) PROVE Flags'
  BY <1>6, Zenon DEF Call, Expire, Response
<1>7. CASE SocketOpens \/ SocketCloses \/ HubVanishes
  BY <1>7, Zenon DEF SocketOpens, SocketCloses, HubVanishes
<1>8. CASE HelloAck
  BY <1>8, Zenon DEF HelloAck
<1>9. CASE HelloRefused
  BY <1>3, <1>9, Zenon DEF HelloRefused
<1>10. CASE Pong \/ KeepaliveTick
  BY <1>10, Zenon DEF Pong, KeepaliveTick
<1>11. CASE CloseEvent
  BY <1>11, ZenonT(60) DEF CloseEvent
<1>12. CASE ScheduleReconnect \/ ReconnectFires
  BY <1>12, Zenon DEF ScheduleReconnect, ReconnectFires, Fresh
<1>13. CASE ReadyAtOnce \/ ReadyWaits \/ ReadyGivesUp
  BY <1>13, Zenon DEF ReadyAtOnce, ReadyWaits, ReadyGivesUp, Fresh
<1> QED
  BY <1>1, <1>2, <1>4, <1>5, <1>6, <1>7, <1>8, <1>9, <1>10, <1>11, <1>12, <1>13, Zenon DEF Next

\* Every reachable state satisfies the invariant.
THEOREM Invariance == Spec => []IInv
<1>1. IInv /\ [Next]_vars => IInv'
  <2> SUFFICES ASSUME IInv, [Next]_vars PROVE IInv'
    OBVIOUS
  <2>1. CASE UNCHANGED vars
    <3>1. UNCHANGED <<sock, answer, carried, ready, stopped, draining, closing, timer, keepalive,
                      attempt, calls, waiter, wanted, used>>
      BY <2>1 DEF vars, session, socketFlags, timers, application
    <3>2. Fields'
      BY <3>1 DEF IInv, Fields
    <3> QED
      BY <3>1, <3>2 DEF IInv, OneWayUp, KeepsTrying, WritesOnAcceptedLink, QuietClose,
                        ListenersReturn, Connected
  <2>2. CASE Next
    BY <2>2, StartsKeepIInv, StopsKeepIInv, ReadyKeepsIInv, CallsKeepIInv, SocketKeepsIInv, AnswersKeepIInv,
       ReconnectsKeepIInv
    DEF Next
  <2> QED
    BY <2>1, <2>2
<1> QED
  BY InitIInv, <1>1, PTL DEF Spec

\* The fields of a link always have the values TypeOK gives them.
THEOREM TypeCorrect == Spec => []TypeOK
<1>1. Init => Flags
  BY Zenon DEF Init, Flags
<1> QED
  BY <1>1, FlagsKept, Invariance, PTL DEF Spec, IInv, TypeOK

\* The link never has a reconnect scheduled beside a socket, or when stopped,
\* unless a listener of the close events called start() or stop().
THEOREM NeverTwoWaysUp == Spec => []OneWayUp
BY Invariance, PTL DEF IInv

\* A link the application wants always has something that will bring it up.
THEOREM NeverGivesUpQuietly == Spec => []KeepsTrying
BY Invariance, PTL DEF IInv

\* What is written without waiting is written on a socket the hub accepted.
THEOREM NeverWritesEarly == Spec => []WritesOnAcceptedLink
BY Invariance, PTL DEF IInv

-----------------------------------------------------------------------------
(***************************************************************************)
(* What callers and listeners are told.  Each of the four properties is     *)
(* about a pair of fields that different handlers write, so each needs to  *)
(* know what holds of the other fields in between: which socket ready was  *)
(* set for, when 'disconnect' was emitted, that a drain means stopped, and *)
(* where the calls are when there is no socket.  What the code promises to *)
(* an application that lets a close or a drain finish is stated so.        *)
(***************************************************************************)

\* ready is about the socket the link has.
ReadyOnSocket ==
    /\ ready => ~stopped /\ sock # "none" /\ waiter # "waiting"
    /\ ClosesFinish /\ ready => sock # "connecting" /\ answer = "ok"

\* 'disconnect' was emitted for the last socket, and nothing since.
EmittedOnce == emitted => sock = "none" /\ ~told

\* A drain is part of a stop(), and it remembers that 'ready' was told.
DrainIsStop ==
    DrainsFinish =>
        /\ draining # "no" => stopped
        /\ ClosesFinish /\ told => ready \/ draining = "was ready"

\* A link that was stopped has no reconnect coming, and one that lives without
\* having been stopped is wanted.
LivesIfWanted ==
    "stop from a listener" \notin used =>
        /\ stopped => ~timer /\ ~closing
        /\ DrainsFinish => ((~stopped /\ sock # "none") \/ timer \/ closing => wanted)

\* Calls are pending on a socket, or until the drain under way ends.
CallsOnSocket ==
    /\ sock = "none" => carried = {}
    /\ stopped /\ draining = "no" => Pending = {}
    /\ NoStrandedCalls

Told == ReadyOnSocket /\ EmittedOnce /\ DrainIsStop /\ LivesIfWanted /\ CallsOnSocket

\* No step leaves ready behind on another socket.
LEMMA ReadyOnSocketKept ==
  ASSUME IInv, ReadyOnSocket, [Next]_vars PROVE ReadyOnSocket'
<1> USE DEF session, socketFlags, timers, application,
      IInv, OneWayUp, QuietClose, ReadyOnSocket, ClosesFinish, Connected, ClearTimers
<1>1. CASE UNCHANGED vars
  BY <1>1 DEF vars
<1>2. CASE StartWhenUp
  BY <1>2 DEF StartWhenUp, AsksFor, StartUse
<1>3. CASE StartWhenDown
  <2>1. used' = used \cup StartUse /\ stopped' = FALSE /\ UNCHANGED <<ready, waiter>>
    BY <1>3 DEF StartWhenDown, AsksFor
  <2>2. sock = "none" \/ "restart while closing" \in StartUse
    BY <1>3 DEF StartWhenDown, StartUse, Fields
  <2>3. ready => sock # "none" /\ ~ClosesFinish'
    BY <2>1, <2>2
  <2>4. sock' = "connecting"
    BY <1>3 DEF StartWhenDown, Fresh
  <2> QED
    BY <2>1, <2>3, <2>4
<1>4. CASE Stop /\ HaltNow
  BY <1>4 DEF Stop, HaltNow, AsksFor, StopUse, BeginStop
<1>5. CASE Stop /\ HaltGracefully
  BY <1>5 DEF Stop, HaltGracefully, AsksFor, StopUse, BeginStop
<1>6. CASE Stop /\ AlreadyHalting
  BY <1>6 DEF Stop, AlreadyHalting, AsksFor, StopUse
<1>7. CASE DrainEnds /\ stopped
  BY <1>7 DEF DrainEnds, HardStop, WasReady
<1>8. CASE DrainEnds /\ ~stopped
  BY <1>8 DEF DrainEnds, HardStop, WasReady, Fresh
<1>9. CASE ReadyAtOnce \/ ReadyGivesUp
  <2>1. CASE ReadyAtOnce
    BY <2>1 DEF ReadyAtOnce
  <2>2. CASE ReadyGivesUp
    BY <2>2 DEF ReadyGivesUp, Settle
  <2> QED
    BY <1>9, <2>1, <2>2
<1>10. CASE ReadyWaits
  BY <1>10 DEF ReadyWaits, NeverStarted, Fresh
<1>11. CASE \E r \in Calls : Call(r) \/ Expire(r) \/ Response(r)
  <2>1. PICK r \in Calls : Call(r) \/ Expire(r) \/ Response(r)
    BY <1>11
  <2>2. CASE Call(r)
    BY <2>2 DEF Call
  <2>3. CASE Expire(r)
    BY <2>3 DEF Expire
  <2>4. CASE Response(r)
    BY <2>4 DEF Response
  <2> QED
    BY <2>1, <2>2, <2>3, <2>4
<1>12. CASE SocketOpens
  BY <1>12 DEF SocketOpens
<1>13. CASE SocketCloses \/ HubVanishes \/ Pong \/ KeepaliveTick
  <2>1. CASE SocketCloses
    BY <2>1 DEF SocketCloses
  <2>2. CASE HubVanishes
    BY <2>2 DEF HubVanishes
  <2>3. CASE Pong
    BY <2>3 DEF Pong
  <2>4. CASE KeepaliveTick
    BY <2>4 DEF KeepaliveTick
  <2> QED
    BY <1>13, <2>1, <2>2, <2>3, <2>4
<1>14. CASE HelloAck
  BY <1>14 DEF HelloAck, BecomesReady, Settle
<1>15. CASE HelloRefused /\ reconnectOnRejection
  BY <1>15 DEF HelloRefused, Settle
<1>16. CASE HelloRefused /\ HaltNow
  BY <1>16 DEF HelloRefused, HaltNow, BeginStop, Settle
<1>17. CASE HelloRefused /\ HaltGracefully
  BY <1>17 DEF HelloRefused, HaltGracefully, BeginStop, Settle
<1>18. CASE HelloRefused /\ AlreadyHalting
  BY <1>18 DEF HelloRefused, AlreadyHalting, Settle
<1>19. CASE CloseEvent /\ stopped
  BY <1>19 DEF CloseEvent
<1>20. CASE CloseEvent /\ ~stopped
  BY <1>20 DEF CloseEvent
<1>21. CASE ScheduleReconnect
  BY <1>21 DEF ScheduleReconnect
<1>22. CASE ReconnectFires
  BY <1>22 DEF ReconnectFires, OneSocket, Fresh
<1> QED
  BY <1>1, <1>2, <1>3, <1>4, <1>5, <1>6, <1>7, <1>8, <1>9, <1>10, <1>11, <1>12, <1>13, <1>14, <1>15, <1>16, <1>17, <1>18, <1>19, <1>20, <1>21, <1>22 DEF Next, Stop, HelloRefused, Halt

\* emitDisconnect() is silent once it has spoken.
LEMMA EmittedOnceKept ==
  ASSUME Flags, EmittedOnce, [Next]_vars PROVE EmittedOnce'
<1> USE DEF session, socketFlags, timers, application,
      EmittedOnce, Connected, TellDisconnect
<1>1. CASE UNCHANGED vars
  BY <1>1 DEF vars
<1>2. CASE StartWhenUp
  BY <1>2 DEF StartWhenUp, AsksFor, StartUse
<1>3. CASE StartWhenDown
  BY <1>3 DEF StartWhenDown, AsksFor, StartUse, Fresh
<1>4. CASE Stop /\ HaltNow
  BY <1>4 DEF Stop, HaltNow, AsksFor, StopUse, BeginStop
<1>5. CASE Stop /\ HaltGracefully
  BY <1>5 DEF Stop, HaltGracefully, AsksFor, StopUse, BeginStop
<1>6. CASE Stop /\ AlreadyHalting
  BY <1>6 DEF Stop, AlreadyHalting, AsksFor, StopUse
<1>7. CASE DrainEnds /\ stopped
  BY <1>7 DEF DrainEnds, HardStop, WasReady
<1>8. CASE DrainEnds /\ ~stopped
  BY <1>8 DEF DrainEnds, HardStop, WasReady, Fresh
<1>9. CASE ReadyAtOnce \/ ReadyGivesUp
  BY <1>9 DEF ReadyAtOnce, ReadyGivesUp, Settle
<1>10. CASE ReadyWaits
  BY <1>10 DEF ReadyWaits, NeverStarted, Fresh
<1>11. CASE \E r \in Calls : Call(r) \/ Expire(r) \/ Response(r)
  BY <1>11 DEF Call, Expire, Response
<1>12. CASE SocketOpens
  BY <1>12 DEF SocketOpens
<1>13. CASE SocketCloses \/ HubVanishes \/ Pong \/ KeepaliveTick
  BY <1>13 DEF SocketCloses, HubVanishes, Pong, KeepaliveTick
<1>14. CASE HelloAck
  BY <1>14 DEF HelloAck, BecomesReady, Settle
<1>15. CASE HelloRefused /\ reconnectOnRejection
  BY <1>15 DEF HelloRefused, Settle
<1>16. CASE HelloRefused /\ HaltNow
  BY <1>16 DEF HelloRefused, HaltNow, BeginStop, Settle
<1>17. CASE HelloRefused /\ HaltGracefully
  BY <1>17 DEF HelloRefused, HaltGracefully, BeginStop, Settle
<1>18. CASE HelloRefused /\ AlreadyHalting
  BY <1>18 DEF HelloRefused, AlreadyHalting, Settle
<1>19. CASE CloseEvent /\ stopped
  BY <1>19 DEF CloseEvent
<1>20. CASE CloseEvent /\ ~stopped
  BY <1>20 DEF CloseEvent
<1>21. CASE ScheduleReconnect
  BY <1>21 DEF ScheduleReconnect
<1>22. CASE ReconnectFires
  BY <1>22 DEF ReconnectFires, OneSocket, Fresh
<1> QED
  BY <1>1, <1>2, <1>3, <1>4, <1>5, <1>6, <1>7, <1>8, <1>9, <1>10, <1>11, <1>12, <1>13, <1>14, <1>15, <1>16, <1>17, <1>18, <1>19, <1>20, <1>21, <1>22 DEF Next, Stop, HelloRefused, Halt

\* A drain stays part of a stop().
LEMMA DrainIsStopKept ==
  ASSUME Flags, Fields, ReadyOnSocket, EmittedOnce, DrainIsStop, [Next]_vars PROVE DrainIsStop'
<1> USE DEF session, socketFlags, timers, application,
      DrainIsStop, EmittedOnce, ReadyOnSocket, ClosesFinish, DrainsFinish, Connected, TellDisconnect, Flags, Fields
<1>1. CASE UNCHANGED vars
  BY <1>1 DEF vars
<1>2. CASE StartWhenUp
  BY <1>2 DEF StartWhenUp, AsksFor, StartUse
<1>3. CASE StartWhenDown
  BY <1>3 DEF StartWhenDown, AsksFor, StartUse, Fresh
<1>4. CASE Stop /\ HaltNow
  BY <1>4 DEF Stop, HaltNow, AsksFor, StopUse, BeginStop
<1>5. CASE Stop /\ HaltGracefully
  BY <1>5 DEF Stop, HaltGracefully, AsksFor, StopUse, BeginStop
<1>6. CASE Stop /\ AlreadyHalting
  BY <1>6 DEF Stop, AlreadyHalting, AsksFor, StopUse
<1>7. CASE DrainEnds /\ stopped
  BY <1>7 DEF DrainEnds, HardStop, WasReady
<1>8. CASE DrainEnds /\ ~stopped
  BY <1>8 DEF DrainEnds, HardStop, WasReady, Fresh
<1>9. CASE ReadyAtOnce \/ ReadyGivesUp
  BY <1>9 DEF ReadyAtOnce, ReadyGivesUp, Settle
<1>10. CASE ReadyWaits
  BY <1>10 DEF ReadyWaits, NeverStarted, Fresh
<1>11. CASE \E r \in Calls : Call(r) \/ Expire(r) \/ Response(r)
  <2>1. PICK r \in Calls : Call(r) \/ Expire(r) \/ Response(r)
    BY <1>11
  <2>2. CASE Call(r)
    BY <2>2 DEF Call
  <2>3. CASE Expire(r)
    BY <2>3 DEF Expire
  <2>4. CASE Response(r)
    BY <2>4 DEF Response
  <2> QED
    BY <2>1, <2>2, <2>3, <2>4
<1>12. CASE SocketOpens
  BY <1>12 DEF SocketOpens
<1>13. CASE SocketCloses \/ HubVanishes \/ Pong \/ KeepaliveTick
  BY <1>13 DEF SocketCloses, HubVanishes, Pong, KeepaliveTick
<1>14. CASE HelloAck
  BY <1>14 DEF HelloAck, BecomesReady, Settle
<1>15. CASE HelloRefused /\ reconnectOnRejection
  BY <1>15 DEF HelloRefused, Settle
<1>16. CASE HelloRefused /\ HaltNow
  BY <1>16 DEF HelloRefused, HaltNow, BeginStop, Settle
<1>17. CASE HelloRefused /\ HaltGracefully
  BY <1>17 DEF HelloRefused, HaltGracefully, BeginStop, Settle
<1>18. CASE HelloRefused /\ AlreadyHalting
  BY <1>18 DEF HelloRefused, AlreadyHalting, Settle
<1>19. CASE CloseEvent /\ stopped
  BY <1>19 DEF CloseEvent
<1>20. CASE CloseEvent /\ ~stopped
  BY <1>20 DEF CloseEvent
<1>21. CASE ScheduleReconnect
  BY <1>21 DEF ScheduleReconnect
<1>22. CASE ReconnectFires
  BY <1>22 DEF ReconnectFires, OneSocket, Fresh
<1> QED
  BY <1>1, <1>2, <1>3, <1>4, <1>5, <1>6, <1>7, <1>8, <1>9, <1>10, <1>11, <1>12, <1>13, <1>14, <1>15, <1>16, <1>17, <1>18, <1>19, <1>20, <1>21, <1>22 DEF Next, Stop, HelloRefused, Halt

\* Whatever lives on is wanted.
LEMMA LivesIfWantedKept ==
  ASSUME IInv, DrainIsStop, LivesIfWanted, [Next]_vars PROVE LivesIfWanted'
<1> USE DEF session, socketFlags, timers, application,
      LivesIfWanted, DrainIsStop, IInv, DrainsFinish, ClearTimers, Connected
<1>1. CASE UNCHANGED vars
  BY <1>1 DEF vars
<1>2. CASE StartWhenUp
  BY <1>2 DEF StartWhenUp, AsksFor, StartUse
<1>3. CASE StartWhenDown
  BY <1>3 DEF StartWhenDown, AsksFor, StartUse, Fresh
<1>4. CASE Stop /\ HaltNow
  <2>1. "stop from a listener" \in used' \/ ~closing
    BY <1>4 DEF Stop, AsksFor, StopUse
  <2> QED
    BY <1>4, <2>1 DEF Stop, HaltNow, AsksFor, BeginStop
<1>5. CASE Stop /\ HaltGracefully
  BY <1>5 DEF Stop, HaltGracefully, AsksFor, StopUse, BeginStop
<1>6. CASE Stop /\ AlreadyHalting
  BY <1>6 DEF Stop, AlreadyHalting, AsksFor, StopUse
<1>7. CASE DrainEnds /\ stopped
  BY <1>7 DEF DrainEnds, HardStop, WasReady
<1>8. CASE DrainEnds /\ ~stopped
  BY <1>8 DEF DrainEnds, HardStop, WasReady, Fresh
<1>9. CASE ReadyAtOnce \/ ReadyGivesUp
  BY <1>9 DEF ReadyAtOnce, ReadyGivesUp, Settle
<1>10. CASE ReadyWaits
  BY <1>10 DEF ReadyWaits, NeverStarted, Fresh
<1>11. CASE \E r \in Calls : Call(r) \/ Expire(r) \/ Response(r)
  <2>1. PICK r \in Calls : Call(r) \/ Expire(r) \/ Response(r)
    BY <1>11
  <2>2. CASE Call(r)
    BY <2>2 DEF Call
  <2>3. CASE Expire(r)
    BY <2>3 DEF Expire
  <2>4. CASE Response(r)
    BY <2>4 DEF Response
  <2> QED
    BY <2>1, <2>2, <2>3, <2>4
<1>12. CASE SocketOpens
  BY <1>12 DEF SocketOpens
<1>13. CASE SocketCloses \/ HubVanishes \/ Pong \/ KeepaliveTick
  BY <1>13 DEF SocketCloses, HubVanishes, Pong, KeepaliveTick
<1>14. CASE HelloAck
  BY <1>14 DEF HelloAck, BecomesReady, Settle
<1>15. CASE HelloRefused /\ reconnectOnRejection
  BY <1>15 DEF HelloRefused, Settle
<1>16. CASE HelloRefused /\ HaltNow
  BY <1>16 DEF HelloRefused, HaltNow, BeginStop, Settle
<1>17. CASE HelloRefused /\ HaltGracefully
  BY <1>17 DEF HelloRefused, HaltGracefully, BeginStop, Settle
<1>18. CASE HelloRefused /\ AlreadyHalting
  BY <1>18 DEF HelloRefused, AlreadyHalting, Settle
<1>19. CASE CloseEvent /\ stopped
  BY <1>19 DEF CloseEvent
<1>20. CASE CloseEvent /\ ~stopped
  BY <1>20 DEF CloseEvent
<1>21. CASE ScheduleReconnect
  BY <1>21 DEF ScheduleReconnect
<1>22. CASE ReconnectFires
  BY <1>22 DEF ReconnectFires, OneSocket, Fresh
<1> QED
  BY <1>1, <1>2, <1>3, <1>4, <1>5, <1>6, <1>7, <1>8, <1>9, <1>10, <1>11, <1>12, <1>13, <1>14, <1>15, <1>16, <1>17, <1>18, <1>19, <1>20, <1>21, <1>22 DEF Next, Stop, HelloRefused, Halt

\* No call is left behind when a socket goes.
LEMMA CallsOnSocketKept ==
  ASSUME IInv, CallsOnSocket, [Next]_vars PROVE CallsOnSocket'
<1> USE DEF session, socketFlags, timers, application,
      CallsOnSocket, NoStrandedCalls, IInv, Fields, OneWayUp, WritesOnAcceptedLink, ClosesFinish, Pending, FailAllPending, Connected
<1>1. CASE UNCHANGED vars
  BY <1>1 DEF vars
<1>2. CASE StartWhenUp
  BY <1>2 DEF StartWhenUp, AsksFor, StartUse
<1>3. CASE StartWhenDown
  BY <1>3 DEF StartWhenDown, AsksFor, StartUse, Fresh
<1>4. CASE Stop /\ HaltNow
  BY <1>4 DEF Stop, HaltNow, AsksFor, StopUse, BeginStop
<1>5. CASE Stop /\ HaltGracefully
  BY <1>5 DEF Stop, HaltGracefully, AsksFor, StopUse, BeginStop
<1>6. CASE Stop /\ AlreadyHalting
  BY <1>6 DEF Stop, AlreadyHalting, AsksFor, StopUse
<1>7. CASE DrainEnds /\ stopped
  BY <1>7 DEF DrainEnds, HardStop, WasReady
<1>8. CASE DrainEnds /\ ~stopped
  BY <1>8 DEF DrainEnds, HardStop, WasReady, Fresh
<1>9. CASE ReadyAtOnce \/ ReadyGivesUp
  <2>1. CASE ReadyAtOnce
    BY <2>1 DEF ReadyAtOnce
  <2>2. CASE ReadyGivesUp
    BY <2>2 DEF ReadyGivesUp, Settle
  <2> QED
    BY <1>9, <2>1, <2>2
<1>10. CASE ReadyWaits
  BY <1>10 DEF ReadyWaits, NeverStarted, Fresh
<1>11. CASE \E r \in Calls : Call(r) \/ Expire(r) \/ Response(r)
  <2>1. PICK r \in Calls : Call(r) \/ Expire(r) \/ Response(r)
    BY <1>11
  <2>2. CASE Call(r)
    BY <2>2 DEF Call
  <2>3. CASE Expire(r)
    BY <2>3 DEF Expire
  <2>4. CASE Response(r)
    BY <2>4 DEF Response
  <2> QED
    BY <2>1, <2>2, <2>3, <2>4
<1>12. CASE SocketOpens
  BY <1>12 DEF SocketOpens
<1>13. CASE SocketCloses \/ HubVanishes \/ Pong \/ KeepaliveTick
  <2>1. CASE SocketCloses
    BY <2>1 DEF SocketCloses
  <2>2. CASE HubVanishes
    BY <2>2 DEF HubVanishes
  <2>3. CASE Pong
    BY <2>3 DEF Pong
  <2>4. CASE KeepaliveTick
    BY <2>4 DEF KeepaliveTick
  <2> QED
    BY <1>13, <2>1, <2>2, <2>3, <2>4
<1>14. CASE HelloAck
  BY <1>14 DEF HelloAck, BecomesReady, Settle
<1>15. CASE HelloRefused /\ reconnectOnRejection
  BY <1>15 DEF HelloRefused, Settle
<1>16. CASE HelloRefused /\ HaltNow
  BY <1>16 DEF HelloRefused, HaltNow, BeginStop, Settle
<1>17. CASE HelloRefused /\ HaltGracefully
  BY <1>17 DEF HelloRefused, HaltGracefully, BeginStop, Settle
<1>18. CASE HelloRefused /\ AlreadyHalting
  BY <1>18 DEF HelloRefused, AlreadyHalting, Settle
<1>19. CASE CloseEvent /\ stopped
  BY <1>19 DEF CloseEvent
<1>20. CASE CloseEvent /\ ~stopped
  BY <1>20 DEF CloseEvent
<1>21. CASE ScheduleReconnect
  BY <1>21 DEF ScheduleReconnect
<1>22. CASE ReconnectFires
  BY <1>22 DEF ReconnectFires, OneSocket, Fresh
<1> QED
  BY <1>1, <1>2, <1>3, <1>4, <1>5, <1>6, <1>7, <1>8, <1>9, <1>10, <1>11, <1>12, <1>13, <1>14, <1>15, <1>16, <1>17, <1>18, <1>19, <1>20, <1>21, <1>22 DEF Next, Stop, HelloRefused, Halt

\* Every reachable state satisfies all five.
THEOREM ToldInvariance == Spec => []Told
<1>1. Init => Told /\ Flags
  <2>1. Init => Flags
    BY Zenon DEF Init, Flags
  <2> QED
    BY <2>1 DEF Init, Told, ReadyOnSocket, EmittedOnce, DrainIsStop, LivesIfWanted,
       CallsOnSocket, NoStrandedCalls, Pending
<1>2. IInv /\ Flags /\ Told /\ [Next]_vars => Told'
  BY ReadyOnSocketKept, EmittedOnceKept, DrainIsStopKept, LivesIfWantedKept, CallsOnSocketKept
  DEF Told, IInv
<1> QED
  BY <1>1, <1>2, FlagsKept, Invariance, PTL DEF Spec

\* A pending call was sent on the socket the link has, or the drain under way
\* will reject it.
THEOREM CallsNeverStranded == Spec => []NoStrandedCalls
BY ToldInvariance, PTL DEF Told, CallsOnSocket

\* An application told 'ready' is told 'disconnect' when the link is down.
THEOREM DownIsTold == Spec => []ToldWhenDown
<1>1. Told => ToldWhenDown
  BY DEF Told, DrainIsStop, ToldWhenDown
<1> QED
  BY <1>1, ToldInvariance, PTL

\* After stop(), or once the client gave the link up, no connection attempt
\* begins before the application's start().
THEOREM StaysDown ==
  ASSUME "stop from a listener" \notin Uses PROVE Spec => StoppedStaysDown
<1> DEFINE Attempt == DrainsFinish /\ sock # "connecting" /\ sock' = "connecting" => wanted'
<1>1. ASSUME IInv, Told, [Next]_vars PROVE Attempt
  <2> SUFFICES ASSUME DrainsFinish, sock # "connecting", sock' = "connecting" PROVE wanted'
    OBVIOUS
  <2> USE DEF session, timers, application
  <2>1. StartWhenDown \/ ReadyWaits \/ ReconnectFires \/ (DrainEnds /\ ~stopped)
    BY <1>1 DEF Next, vars, StartWhenUp, Stop, Halt, HaltNow, HaltGracefully, AlreadyHalting,
       DrainEnds, ReadyAtOnce, ReadyGivesUp, Call, Expire, Response, SocketOpens,
       SocketCloses, HubVanishes, HelloAck, HelloRefused, Pong, KeepaliveTick, CloseEvent,
       ScheduleReconnect
  <2>2. CASE StartWhenDown \/ ReadyWaits
    BY <2>2 DEF StartWhenDown, AsksFor, ReadyWaits
  <2>3. CASE ReconnectFires
    BY <1>1, <2>3 DEF ReconnectFires, Told, LivesIfWanted, IInv, Fields
  <2>4. CASE DrainEnds /\ ~stopped
    BY <1>1, <2>4 DEF DrainEnds, Told, DrainIsStop
  <2> QED
    BY <2>1, <2>2, <2>3, <2>4
<1> QED
  BY <1>1, Invariance, ToldInvariance, PTL DEF Spec, StoppedStaysDown

\* ready() resolves for a link that is up, or that was started while a socket
\* was closing, and leaves nobody waiting for a link that is ready.
THEOREM ReadyIsTrue == Spec => ReadyTellsTruth
<1> DEFINE Truth ==
          /\ waiter # "resolved" /\ waiter' = "resolved" =>
                ~stopped' /\ (answer' = "ok" \/ (~ClosesFinish /\ sock # "open"))
          /\ ready' => waiter' # "waiting"
<1>1. ASSUME IInv, Told, Told', [Next]_vars PROVE Truth
  <2> SUFFICES ASSUME waiter # "resolved", waiter' = "resolved"
               PROVE  ~stopped' /\ (answer' = "ok" \/ (~ClosesFinish /\ sock # "open"))
    BY <1>1 DEF Told, ReadyOnSocket
  <2> USE DEF session, timers, application
  <2>1. ReadyAtOnce \/ HelloAck
    <3>1. ASSUME HelloRefused PROVE FALSE
      BY <3>1 DEF HelloRefused, Settle
    <3>2. ASSUME NEW r \in Calls, Call(r) \/ Expire(r) \/ Response(r) PROVE FALSE
      BY <3>2 DEF Call, Expire, Response
    <3>3. ASSUME Stop \/ StartWhenUp \/ StartWhenDown PROVE FALSE
      BY <3>3 DEF Stop, StartWhenUp, StartWhenDown, AsksFor
    <3>4. ASSUME ReadyWaits \/ ReadyGivesUp \/ DrainEnds PROVE FALSE
      BY <3>4 DEF ReadyWaits, ReadyGivesUp, Settle, DrainEnds
    <3>5. ASSUME SocketOpens \/ SocketCloses \/ HubVanishes \/ Pong \/ KeepaliveTick PROVE FALSE
      BY <3>5 DEF SocketOpens, SocketCloses, HubVanishes, Pong, KeepaliveTick
    <3>6. ASSUME CloseEvent \/ ScheduleReconnect \/ ReconnectFires \/ UNCHANGED vars PROVE FALSE
      BY <3>6 DEF CloseEvent, ScheduleReconnect, ReconnectFires, vars
    <3> QED
      BY <1>1, <3>1, <3>2, <3>3, <3>4, <3>5, <3>6 DEF Next
  <2>2. CASE HelloAck
    <3>1. ready' /\ answer' = "ok"
      BY <2>2 DEF HelloAck
    <3> QED
      BY <1>1, <3>1 DEF Told, ReadyOnSocket
  <2>3. CASE ReadyAtOnce
    <3>1. ready /\ UNCHANGED <<sock, answer, stopped>>
      BY <2>3 DEF ReadyAtOnce
    <3> QED
      BY <1>1, <3>1 DEF IInv, WritesOnAcceptedLink, Connected, Told, ReadyOnSocket
  <2> QED
    BY <2>1, <2>2, <2>3
<1> QED
  BY <1>1, Invariance, ToldInvariance, PTL DEF Spec, ReadyTellsTruth
=============================================================================
