--------------------------------- MODULE Hub ---------------------------------
(***************************************************************************)
(* The hub's registry: which socket speaks for which kind, from the        *)
(* connection to the last close event (src/src/hub/create-hub.js and the   *)
(* hello, status and subscription branches of src/src/hub/dispatch.js).    *)
(*                                                                         *)
(* A JavaScript callback runs to completion, so each handler is one step;  *)
(* a handler that awaits is one step per stretch between awaits.  The two  *)
(* awaits here are the key lookup of a hello (resolving) and the verdict   *)
(* of canSubscribe (lane, checking): anything can happen while they are    *)
(* pending, and a socket that was closed still delivers the messages the   *)
(* network had for it.  What the peers are told is in module PeerView, the *)
(* replay windows of the kinds in RecentIds.                               *)
(***************************************************************************)
EXTENDS Naturals, Sequences, FiniteSets

CONSTANTS
    Sockets, Kinds, Topics,
    None,               \* no socket, no kind: null in the code
    MaxPendingSockets,
    HelloTimer,         \* helloTimeoutMs > 0
    Gated,              \* canSubscribe is configured
    MaxLookups,         \* bound: key lookups under way at one time
    MaxLane             \* bound: subscribes of one socket awaiting a verdict

ASSUME HubAssumption ==
    /\ None \notin Sockets \cup Kinds
    /\ MaxPendingSockets \in Nat \ {0}
    /\ HelloTimer \in BOOLEAN
    /\ Gated \in BOOLEAN
    /\ MaxLookups \in Nat
    /\ MaxLane \in Nat

VARIABLES
    state,          \* of each socket: "new" (not yet attached), "open",
                    \* "closing" (closed or terminated, its close event is
                    \* still to come) or "closed"
    kind,           \* ws.__kind, set together with ws.__secret
    alive,          \* ws.isAlive
    silent,         \* sockets whose peer is gone without a word
    clients,        \* kind -> socket
    statuses,       \* kind -> the socket whose status is retained
    subscriptions,  \* topic -> kinds
    pending,        \* pendingSockets
    arrival,        \* their insertion order; 0 for the others
    resolving,      \* of each socket: the kinds whose key lookup is under way
    lane,           \* ws.__gateLane: topics of subscribes in arrival order
    checking,       \* the head of the lane awaits its verdict
    stopped,        \* stop() was called: the keepalive is cleared for good
    late            \* history: sockets attached since the last stop()

halt     == <<stopped, late>>
registry == <<clients, statuses, subscriptions>>
gate     == <<lane, checking>>
tracking == <<pending, arrival>>
vars == <<state, kind, alive, silent, registry, tracking, resolving, gate, halt>>

-----------------------------------------------------------------------------
Registered(ws) == kind[ws] # None /\ clients[kind[ws]] = ws
Connected == {k \in Kinds : clients[k] # None}

\* ws.close() or ws.terminate() on each socket of S.
Closing(S) == [ws \in Sockets |->
    IF ws \in S /\ state[ws] = "open" THEN "closing" ELSE state[ws]]

\* untrackPending, of each socket of S.
Untrack(S) ==
    /\ pending' = pending \ S
    /\ arrival' = [ws \in Sockets |-> IF ws \in S THEN 0 ELSE arrival[ws]]

\* The four lines that take kinds out of the hub's maps.
Forget(gone) ==
    /\ clients' = [k \in Kinds |-> IF k \in gone THEN None ELSE clients[k]]
    /\ statuses' = [k \in Kinds |-> IF k \in gone THEN None ELSE statuses[k]]
    /\ subscriptions' = [t \in Topics |-> subscriptions[t] \ gone]

\* The event loop may hand a message of ws to its handler.
Delivers(ws) == state[ws] \in {"open", "closing"} /\ ws \notin silent

-----------------------------------------------------------------------------
(* Connections and the hello handshake.                                    *)

\* Mutant: > for >= at the cap.
RoomToWait_OffByOne == Cardinality(pending) <= MaxPendingSockets
RoomToWait == Cardinality(pending) < MaxPendingSockets

\* At the cap, trackPending evicts from the oldest on.  A hub that was stopped
\* attaches a socket like any other.
Attach(ws) ==
    /\ state[ws] = "new"
    /\ \E kept \in SUBSET pending :
         /\ Cardinality(kept) = IF RoomToWait
                                THEN Cardinality(pending)
                                ELSE MaxPendingSockets - 1
         /\ \A v \in pending \ kept, w \in kept : arrival[v] < arrival[w]
         /\ state' = [Closing(pending \ kept) EXCEPT ![ws] = "open"]
         /\ pending' = kept \cup {ws}
         /\ arrival' = [v \in Sockets |->
                IF v = ws THEN 1 + Cardinality({x \in Sockets : state[x] # "new"})
                ELSE IF v \in kept THEN arrival[v] ELSE 0]
    /\ alive' = [alive EXCEPT ![ws] = TRUE]
    /\ late' = IF stopped THEN late \cup {ws} ELSE late
    /\ UNCHANGED <<kind, silent, registry, resolving, gate, stopped>>

HelloTimeout(ws) ==
    /\ HelloTimer
    /\ ws \in pending
    /\ Untrack({ws})
    /\ state' = Closing({ws})
    /\ UNCHANGED <<kind, alive, silent, registry, resolving, gate, halt>>

\* A hello starts the lookup of the key of the kind it claims.
HelloArrives(ws, k) ==
    /\ Delivers(ws)
    /\ kind[ws] = None
    /\ Cardinality({p \in Sockets \X Kinds : p[2] \in resolving[p[1]]}) < MaxLookups
    /\ resolving' = [resolving EXCEPT ![ws] = @ \cup {k}]
    /\ UNCHANGED <<state, kind, alive, silent, registry, tracking, gate, halt>>

\* A hello without a usable kind closes the socket; the timer stays.
BadHello(ws) ==
    /\ Delivers(ws)
    /\ kind[ws] = None
    /\ state[ws] = "open"
    /\ state' = Closing({ws})
    /\ UNCHANGED <<kind, alive, silent, registry, tracking, resolving, gate, halt>>

\* No key, a socket closed or authenticated meanwhile, or a hello that does
\* not verify: it is dropped without an answer.
HelloDropped(ws, k) ==
    /\ k \in resolving[ws]
    /\ resolving' = [resolving EXCEPT ![ws] = @ \ {k}]
    /\ UNCHANGED <<state, kind, alive, silent, registry, tracking, gate, halt>>

\* Mutant: the socket's state is not looked at again after the key lookup.
Admissible_ClosedSocket(ws) == kind[ws] = None

\* Mutant: a socket another hello authenticated meanwhile passes.
Admissible_Twice(ws) == state[ws] = "open"

Admissible(ws) == state[ws] = "open" /\ kind[ws] = None

Replaced(ws, k) == {clients[k]} \ {ws}

\* An older socket of the kind is closed, and keeps its __kind.
HelloAccepted(ws, k) ==
    /\ k \in resolving[ws]
    /\ Admissible(ws)
    /\ resolving' = [resolving EXCEPT ![ws] = @ \ {k}]
    /\ state' = Closing(Replaced(ws, k))
    /\ kind' = [kind EXCEPT ![ws] = k]
    /\ Untrack({ws})
    /\ clients' = [clients EXCEPT ![k] = ws]
    /\ UNCHANGED <<alive, silent, statuses, subscriptions, gate, halt>>

-----------------------------------------------------------------------------
(* Messages of an authenticated socket; one that no longer speaks for its   *)
(* kind is ignored.                                                        *)

Heard(ws) == Delivers(ws) /\ Registered(ws)

\* Mutant: the sender's kind is stored where its status belongs.
StatusUpdate_StoresKind(ws) ==
    /\ Heard(ws)
    /\ statuses' = [statuses EXCEPT ![kind[ws]] = kind[ws]]
    /\ UNCHANGED <<state, kind, alive, silent, clients, subscriptions,
                   tracking, resolving, gate, halt>>

StatusUpdate(ws) ==
    /\ Heard(ws)
    /\ statuses' = [statuses EXCEPT ![kind[ws]] = ws]
    /\ UNCHANGED <<state, kind, alive, silent, clients, subscriptions,
                   tracking, resolving, gate, halt>>

Record(t, k) == subscriptions' = [subscriptions EXCEPT ![t] = @ \cup {k}]

\* Without canSubscribe at once; with it, in the socket's lane.
Subscribe(ws, t) ==
    /\ Heard(ws)
    /\ \/ ~Gated /\ Record(t, kind[ws]) /\ UNCHANGED lane
       \/ /\ Gated
          /\ Len(lane[ws]) < MaxLane
          /\ lane' = [lane EXCEPT ![ws] = Append(@, t)]
          /\ UNCHANGED subscriptions
    /\ UNCHANGED <<state, kind, alive, silent, clients, statuses,
                   tracking, resolving, checking, halt>>

\* An unsubscribe, of one topic or of all, never waits in the lane.
Unsubscribe(ws, T) ==
    /\ Heard(ws)
    /\ subscriptions' = [t \in Topics |->
            IF t \in T THEN subscriptions[t] \ {kind[ws]} ELSE subscriptions[t]]
    /\ UNCHANGED <<state, kind, alive, silent, clients, statuses,
                   tracking, resolving, lane, checking, halt>>

\* The lane asks for the next verdict, unless the socket is stale by now.
LaneStart(ws) ==
    /\ lane[ws] # <<>>
    /\ ~checking[ws]
    /\ IF Registered(ws)
       THEN checking' = [checking EXCEPT ![ws] = TRUE] /\ UNCHANGED lane
       ELSE lane' = [lane EXCEPT ![ws] = Tail(@)] /\ UNCHANGED checking
    /\ UNCHANGED <<state, kind, alive, silent, registry, tracking, resolving, halt>>

\* Mutant: who the socket is is not asked again after the verdict.
StillCurrent_NoRecheck(ws) == TRUE
StillCurrent(ws) == Registered(ws)

\* The verdict: allowed and still current, or not.
LaneVerdict(ws) ==
    /\ checking[ws]
    /\ checking' = [checking EXCEPT ![ws] = FALSE]
    /\ lane' = [lane EXCEPT ![ws] = Tail(@)]
    /\ \/ StillCurrent(ws) /\ Record(Head(lane[ws]), kind[ws])
       \/ UNCHANGED subscriptions
    /\ UNCHANGED <<state, kind, alive, silent, clients, statuses,
                   tracking, resolving, halt>>

-----------------------------------------------------------------------------
(* Disconnects.                                                            *)

\* The peer closes, or the socket fails and its error handler closes it.
PeerCloses(ws) ==
    /\ state[ws] = "open"
    /\ state' = Closing({ws})
    /\ UNCHANGED <<kind, alive, silent, registry, tracking, resolving, gate, halt>>

SpeaksForKind(ws) == Registered(ws)

CloseEvent(ws) ==
    /\ state[ws] = "closing"
    /\ state' = [state EXCEPT ![ws] = "closed"]
    /\ Untrack({ws})
    /\ IF SpeaksForKind(ws) THEN Forget({kind[ws]}) ELSE UNCHANGED registry
    /\ UNCHANGED <<kind, alive, silent, resolving, gate, halt>>

\* The peer's host or network disappears: no pong, no message, no close.
Silence(ws) ==
    /\ state[ws] = "open"
    /\ ws \notin silent
    /\ silent' = silent \cup {ws}
    /\ UNCHANGED <<state, kind, alive, registry, tracking, resolving, gate, halt>>

Pong(ws) ==
    /\ Delivers(ws)
    /\ ~alive[ws]
    /\ alive' = [alive EXCEPT ![ws] = TRUE]
    /\ UNCHANGED <<state, kind, silent, registry, tracking, resolving, gate, halt>>

Terminated(dead) == {clients[k] : k \in dead}

\* Mutant: pinging a peer does not clear its isAlive.
Pinged_KeepsAlive(ws) == FALSE
Pinged(ws) == Registered(ws)

\* The interval: a peer that did not answer the last ping is terminated and
\* forgotten, the others are pinged.
KeepaliveTick ==
    /\ ~stopped
    /\ LET dead == {k \in Connected : ~alive[clients[k]]}
       IN  /\ state' = Closing(Terminated(dead))
           /\ Forget(dead)
    /\ alive' = [ws \in Sockets |-> alive[ws] /\ ~Pinged(ws)]
    /\ UNCHANGED <<kind, silent, tracking, resolving, gate, halt>>

ClosedByStop == pending \cup {clients[k] : k \in Connected}

\* stop(), which may be called again.
HubStop ==
    /\ stopped' = TRUE
    /\ late' = {}
    /\ state' = Closing(ClosedByStop)
    /\ Untrack(pending)
    /\ clients' = [k \in Kinds |-> None]
    /\ statuses' = [k \in Kinds |-> None]
    /\ subscriptions' = [t \in Topics |-> {}]
    /\ UNCHANGED <<kind, alive, silent, resolving, gate>>

-----------------------------------------------------------------------------
Init ==
    /\ state = [ws \in Sockets |-> "new"]
    /\ kind = [ws \in Sockets |-> None]
    /\ alive = [ws \in Sockets |-> TRUE]
    /\ silent = {}
    /\ clients = [k \in Kinds |-> None]
    /\ statuses = [k \in Kinds |-> None]
    /\ subscriptions = [t \in Topics |-> {}]
    /\ pending = {}
    /\ arrival = [ws \in Sockets |-> 0]
    /\ resolving = [ws \in Sockets |-> {}]
    /\ lane = [ws \in Sockets |-> <<>>]
    /\ checking = [ws \in Sockets |-> FALSE]
    /\ stopped = FALSE
    /\ late = {}

Handshake(ws) ==
    \/ Attach(ws)
    \/ HelloTimeout(ws)
    \/ BadHello(ws)
    \/ \E k \in Kinds :
         HelloArrives(ws, k) \/ HelloDropped(ws, k) \/ HelloAccepted(ws, k)

Message(ws) ==
    \/ StatusUpdate(ws)
    \/ \E t \in Topics : Subscribe(ws, t)
    \/ \E T \in {{t} : t \in Topics} \cup {Topics} : Unsubscribe(ws, T)
    \/ LaneStart(ws)
    \/ LaneVerdict(ws)

Connection(ws) ==
    \/ PeerCloses(ws)
    \/ CloseEvent(ws)
    \/ Silence(ws)
    \/ Pong(ws)

Next ==
    \/ \E ws \in Sockets : Handshake(ws) \/ Message(ws) \/ Connection(ws)
    \/ KeepaliveTick
    \/ HubStop

Spec == Init /\ [][Next]_vars

\* Timers and intervals fire, and a closed socket's close event comes (ws
\* destroys a socket whose peer does not answer the close frame).
Fairness ==
    /\ \A ws \in Sockets : WF_vars(CloseEvent(ws))
    /\ WF_vars(KeepaliveTick)
FairSpec == Spec /\ Fairness
-----------------------------------------------------------------------------
\* The registry, the tracking of pending sockets and the lanes keep their types
\* (the fields of createHub and of a socket).
TypeOK ==
    /\ state \in [Sockets -> {"new", "open", "closing", "closed"}]
    /\ kind \in [Sockets -> Kinds \cup {None}]
    /\ alive \in [Sockets -> BOOLEAN]
    /\ silent \in SUBSET Sockets
    /\ clients \in [Kinds -> Sockets \cup {None}]
    /\ statuses \in [Kinds -> Sockets \cup {None}]
    /\ subscriptions \in [Topics -> SUBSET Kinds]
    /\ pending \in SUBSET Sockets
    /\ arrival \in [Sockets -> Nat]
    /\ resolving \in [Sockets -> SUBSET Kinds]
    /\ lane \in [Sockets -> Seq(Topics)]
    /\ checking \in [Sockets -> BOOLEAN]
    /\ stopped \in BOOLEAN
    /\ late \in SUBSET Sockets

\* One socket speaks for a kind: the registered one has not seen its close
\* event, and an authenticated socket the hub has not started to close is the
\* registered one.  The close event of a replaced socket, a terminated peer's
\* late close event, or a late hello never breaks the pairing.
OneSocketPerKind ==
    /\ \A k \in Connected : /\ kind[clients[k]] = k
                            /\ state[clients[k]] \in {"open", "closing"}
    /\ \A ws \in Sockets : state[ws] = "open" /\ kind[ws] # None => Registered(ws)

\* Statuses and subscriptions belong to connected kinds, whatever verdict of
\* canSubscribe comes in after a disconnect ("every subscription belonging to
\* that peer is dropped", README.MD).
NoOrphans ==
    /\ \A t \in Topics : subscriptions[t] \subseteq Connected
    /\ \A k \in Kinds : statuses[k] # None => k \in Connected

\* The cap on sockets that have not said hello holds, and every one that could
\* still say it is under the cap's and the timer's watch; an authenticated
\* socket never is.
PendingTracked ==
    /\ Cardinality(pending) <= MaxPendingSockets
    /\ \A ws \in Sockets : state[ws] = "open" /\ kind[ws] = None => ws \in pending
    /\ \A ws \in pending : kind[ws] = None

\* No socket the hub had at stop() outlives it: none stays open, and no key
\* lookup or verdict that was under way registers one, or brings a status or a
\* subscription of one back.  Whatever the hub holds after stop() belongs to
\* sockets that were attached later, which the code does not refuse.
StopIsFinal ==
    stopped => /\ \A ws \in Sockets : state[ws] = "open" => ws \in late
               /\ \A k \in Connected : clients[k] \in late
               /\ \A k \in Kinds : statuses[k] # None => statuses[k] \in late
               /\ \A t \in Topics : subscriptions[t] \subseteq {kind[ws] : ws \in late}
               /\ pending \subseteq late

\* A peer that vanished without closing is forgotten, unless its socket was
\* attached after stop(), which has ended the keepalive.
VanishedPeerForgotten ==
    \A ws \in Sockets :
        ws \in silent /\ Registered(ws) ~> ~Registered(ws) \/ ws \in late
=============================================================================
