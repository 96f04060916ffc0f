------------------------------- MODULE PeerView -------------------------------
(***************************************************************************)
(* What one client knows of the other peers: the broadcasts of the hub     *)
(* (publishPeers, status.update, the snapshot after hello), the outbox     *)
(* they wait in, and what the client makes of them                         *)
(* (handleInboundMessage, src/src/client/inbound.js).                      *)
(*                                                                         *)
(* A peers.update carries the whole registry and is never conflated; a     *)
(* status.update takes the place of the one of the same peer that still    *)
(* waits.  Peers come, go and are replaced, and the client's own link may  *)
(* break.  A connection is told apart by its connectedAt, a clock reading; *)
(* which connection it really is, is history.                              *)
(***************************************************************************)
EXTENDS Integers, Sequences, FiniteSets

CONSTANTS
    Peers,          \* the other peers
    MaxTime,        \* bound of the model on the hub's clock
    MaxConnects,    \* bound of the model on connections, of all peers
    MaxStatuses,    \* bound of the model on status updates, of all peers
    MaxDrops        \* bound of the model on the client's broken links

ASSUME PeerViewAssumption ==
    /\ IsFiniteSet(Peers)
    /\ MaxTime \in Nat /\ MaxConnects \in Nat /\ MaxStatuses \in Nat /\ MaxDrops \in Nat

Never == -1
NoStatus == 0
Time == 0 .. MaxTime

VARIABLES
    \* The hub.
    now,            \* Date.now()
    connectedAt,    \* clients: per peer the time of its hello, Never if absent
    statuses,       \* statuses: per peer its last status
    line,           \* the client's outbox at the hub
    wire,           \* written to the client
    \* The client.
    link,           \* the client is connected
    peers,          \* client.peers, as connectedAt
    lastStatusByPeer,
    \* History, and what is left to do.
    connection,     \* per peer the number of its connection
    previousAt,     \* per peer the connectedAt of the one before it
    noticed,        \* per peer the connection the application was told of
    sameInstant,    \* peers that had two connections at one clock reading
    stale,          \* the last peers.update was refused by a full outbox
    unsent,         \* peers whose last status was refused
    jumped,         \* peers whose status was conflated past a peers.update
    connects, posted, drops

hubVars    == <<now, connectedAt, statuses>>
clientVars == <<peers, lastStatusByPeer, noticed>>
counters   == <<connects, posted, drops>>
vars == <<hubVars, line, wire, link, clientVars, connection, previousAt, sameInstant, stale,
          unsent, jumped, counters>>

Init ==
    /\ now = 0
    /\ connectedAt = [p \in Peers |-> Never] /\ statuses = [p \in Peers |-> NoStatus]
    /\ line = <<>> /\ wire = <<>> /\ link = FALSE
    /\ peers = [p \in Peers |-> Never] /\ lastStatusByPeer = [p \in Peers |-> NoStatus]
    /\ connection = [p \in Peers |-> 0] /\ previousAt = [p \in Peers |-> Never]
    /\ noticed = [p \in Peers |-> 0] /\ sameInstant = {}
    /\ stale = FALSE /\ unsent = {} /\ jumped = {}
    /\ connects = 0 /\ posted = 0 /\ drops = 0

-----------------------------------------------------------------------------
(***************************************************************************)
(* What the hub sends.                                                     *)
(***************************************************************************)
PeersUpdate(at, who) == [type |-> "peers.update", at |-> at, who |-> who]
StatusUpdate(p, v)   == [type |-> "status.update", from |-> p, status |-> v]
Snapshot(s)          == [type |-> "status.snapshot", of |-> s]

Waiting(p) == {i \in DOMAIN line : line[i].type = "status.update" /\ line[i].from = p}

\* publishPeers(): every change of the registry, while the client is there.
publishPeers(at, who) ==
    IF link
    THEN \/ line' = Append(line, PeersUpdate(at, who)) /\ stale' = FALSE
         \/ stale' = TRUE /\ UNCHANGED line
    ELSE UNCHANGED <<line, stale>>

\* The peer's hello is accepted, after its earlier socket closed or while it
\* has not.  A status survives the replacement.
Connect(p) ==
    /\ connects < MaxConnects
    /\ connects' = connects + 1
    /\ connectedAt' = [connectedAt EXCEPT ![p] = now]
    /\ connection' = [connection EXCEPT ![p] = @ + 1]
    /\ previousAt' = [previousAt EXCEPT ![p] = now]
    /\ sameInstant' = IF previousAt[p] = now THEN sameInstant \cup {p} ELSE sameInstant
    /\ publishPeers(connectedAt', connection')
    /\ UNCHANGED <<now, statuses, wire, link, clientVars, unsent, jumped, posted, drops>>

DropStatus(p) == statuses' = [statuses EXCEPT ![p] = NoStatus]

\* The close event of the peer's socket.
Disconnect(p) ==
    /\ connectedAt[p] # Never
    /\ connectedAt' = [connectedAt EXCEPT ![p] = Never]
    /\ DropStatus(p)
    /\ publishPeers(connectedAt', connection)
    /\ UNCHANGED <<now, wire, link, clientVars, connection, previousAt, sameInstant, unsent, jumped,
                   counters>>

\* Mutant: the one that waits is not looked for.
Conflated_Not(p, v) == line' = Append(line, StatusUpdate(p, v)) /\ UNCHANGED jumped

\* A status of p, number v, takes the place of the one that waits.
Conflated(p, v) ==
    \E i \in Waiting(p) :
        /\ line' = [line EXCEPT ![i] = StatusUpdate(p, v)]
        /\ jumped' = IF \E j \in i + 1 .. Len(line) :
                          line[j].type = "peers.update" /\ line[j].at[p] = Never
                     THEN jumped \cup {p} ELSE jumped \ {p}

\* Mutant: the status that waits stays.
Relay_KeepsOld(p, v) ==
    /\ line' = IF Waiting(p) = {} THEN Append(line, StatusUpdate(p, v)) ELSE line
    /\ unsent' = unsent \ {p}
    /\ UNCHANGED jumped

\* The broadcast of a status, as far as the client is concerned.
Relay(p, v) ==
    \/ /\ unsent' = unsent \ {p}
       /\ \/ Conflated(p, v)
          \/ /\ Waiting(p) = {}
             /\ line' = Append(line, StatusUpdate(p, v))
             /\ jumped' = jumped \ {p}
    \/ /\ unsent' = unsent \cup {p}
       /\ UNCHANGED <<line, jumped>>

\* A status.update of p arrives at the hub.
Status(p) ==
    /\ connectedAt[p] # Never /\ posted < MaxStatuses
    /\ posted' = posted + 1
    /\ statuses' = [statuses EXCEPT ![p] = posted + 1]
    /\ IF link THEN Relay(p, posted + 1) ELSE UNCHANGED <<line, unsent, jumped>>
    /\ UNCHANGED <<now, connectedAt, wire, link, clientVars, connection, previousAt, sameInstant,
                   stale, connects, drops>>

ClockTicks ==
    /\ now < MaxTime
    /\ now' = now + 1
    /\ UNCHANGED <<connectedAt, statuses, line, wire, link, clientVars, connection, previousAt,
                   sameInstant, stale, unsent, jumped, counters>>

HubWrites ==
    /\ line # <<>>
    /\ line' = Tail(line) /\ wire' = Append(wire, Head(line))
    /\ UNCHANGED <<hubVars, link, clientVars, connection, previousAt, sameInstant, stale, unsent,
                   jumped, counters>>

-----------------------------------------------------------------------------
(***************************************************************************)
(* The client.                                                             *)
(***************************************************************************)
\* The hello of the client: publishPeers(), then the snapshot of all statuses.
LinkUp ==
    /\ ~link
    /\ link' = TRUE
    /\ line' = <<PeersUpdate(connectedAt, connection), Snapshot(statuses)>>
    /\ stale' = FALSE /\ unsent' = {} /\ jumped' = {}
    /\ UNCHANGED <<hubVars, wire, clientVars, connection, previousAt, sameInstant, counters>>

\* What was on its way is lost; what the client knows, it keeps.
LinkDown ==
    /\ link /\ drops < MaxDrops
    /\ drops' = drops + 1
    /\ link' = FALSE
    /\ line' = <<>> /\ wire' = <<>>
    /\ UNCHANGED <<hubVars, clientVars, connection, previousAt, sameInstant, stale, unsent, jumped,
                   connects, posted>>

\* Mutant: the application hears of new peers only.
Differs_NewOnly(old, new) == old = Never
\* peer.connect for a peer that was not listed, peer.replaced for one that
\* was, with another connectedAt.
Differs(old, new) == old # new

OnPeersUpdate(m) ==
    /\ peers' = m.at
    /\ noticed' = [p \in Peers |->
          IF m.at[p] = Never THEN 0
          ELSE IF Differs(peers[p], m.at[p]) THEN m.who[p] ELSE noticed[p]]
    /\ lastStatusByPeer' = [p \in Peers |->
          IF peers[p] # Never /\ m.at[p] = Never THEN NoStatus ELSE lastStatusByPeer[p]]

OnStatusUpdate(m) ==
    /\ lastStatusByPeer' = [lastStatusByPeer EXCEPT ![m.from] = m.status]
    /\ UNCHANGED <<peers, noticed>>

OnSnapshot(m) ==
    /\ lastStatusByPeer' = [p \in Peers |->
          IF m.of[p] = NoStatus THEN lastStatusByPeer[p] ELSE m.of[p]]
    /\ UNCHANGED <<peers, noticed>>

Receives ==
    /\ wire # <<>>
    /\ wire' = Tail(wire)
    /\ LET m == Head(wire)
       IN  \/ m.type = "peers.update" /\ OnPeersUpdate(m)
           \/ m.type = "status.update" /\ OnStatusUpdate(m)
           \/ m.type = "status.snapshot" /\ OnSnapshot(m)
    /\ UNCHANGED <<hubVars, line, link, connection, previousAt, sameInstant, stale, unsent, jumped,
                   counters>>

Next ==
    \/ \E p \in Peers : Connect(p) \/ Disconnect(p) \/ Status(p)
    \/ ClockTicks \/ HubWrites
    \/ LinkUp \/ LinkDown \/ Receives

Spec == Init /\ [][Next]_vars

-----------------------------------------------------------------------------
(***************************************************************************)
(* Properties.                                                             *)
(***************************************************************************)
Message ==
    [type : {"peers.update"}, at : [Peers -> Time \cup {Never}], who : [Peers -> 0 .. MaxConnects]]
    \cup [type : {"status.update"}, from : Peers, status : 1 .. MaxStatuses]
    \cup [type : {"status.snapshot"}, of : [Peers -> 0 .. MaxStatuses]]

\* A status waits at most once per peer (the conflation key), and only a
\* connected client has messages on their way.
TypeOK ==
    /\ now \in Time
    /\ connectedAt \in [Peers -> Time \cup {Never}] /\ peers \in [Peers -> Time \cup {Never}]
    /\ statuses \in [Peers -> 0 .. MaxStatuses]
    /\ lastStatusByPeer \in [Peers -> 0 .. MaxStatuses]
    /\ line \in Seq(Message) /\ wire \in Seq(Message)
    /\ \A p \in Peers : Cardinality(Waiting(p)) <= 1
    /\ link \in BOOLEAN
    /\ ~link => line = <<>> /\ wire = <<>>
    /\ connection \in [Peers -> 0 .. MaxConnects] /\ noticed \in [Peers -> 0 .. MaxConnects]
    /\ previousAt \in [Peers -> Time \cup {Never}]
    /\ sameInstant \subseteq Peers /\ stale \in BOOLEAN
    /\ unsent \subseteq Peers /\ jumped \subseteq Peers
    /\ connects \in 0 .. MaxConnects /\ posted \in 0 .. MaxStatuses /\ drops \in 0 .. MaxDrops

CaughtUp == link /\ line = <<>> /\ wire = <<>>

\* Through broken links, replacements and refused updates: once nothing is on
\* its way the client lists the peers the hub lists, and the application was
\* told of the very connection each of them has, unless the last update did
\* not fit; two connections at one clock reading pass for one
\* (publishPeers; peers.update: peer.connect, peer.replaced, peer.disconnect).
PeersConverge ==
    CaughtUp /\ ~stale =>
        /\ peers = connectedAt
        /\ \A p \in Peers \ sameInstant :
              noticed[p] = IF connectedAt[p] = Never THEN 0 ELSE connection[p]

\* Once nothing is on its way, the client has the last status of each peer,
\* unless it did not fit, or was conflated into a message that stands before
\* the news that its peer had left (status.update, status.snapshot).
StatusConverges ==
    CaughtUp /\ ~stale =>
        \A p \in Peers \ (unsent \cup jumped) :
            statuses[p] # NoStatus => lastStatusByPeer[p] = statuses[p]

\* The same, and conflation is no excuse.
LatestStatusArrives ==
    CaughtUp /\ ~stale =>
        \A p \in Peers \ unsent :
            statuses[p] # NoStatus => lastStatusByPeer[p] = statuses[p]
=============================================================================
