---------------------------- MODULE PeerViewProofs ----------------------------
(***************************************************************************)
(* Theorems about PeerView, for any finite set of peers, any clock and any *)
(* number of connections, status updates and broken links.                 *)
(*                                                                         *)
(* What the client has to learn is in the last message about it that is on *)
(* its way (InFlight), or there is none and the client knows it: of the    *)
(* registry the last peers.update, of a status the last message that sets  *)
(* or clears it.  The application was told of the right connection         *)
(* because, as long as the clock tells a peer's connections apart, equal   *)
(* times in two messages mean one connection (Distinct).                   *)
(***************************************************************************)
EXTENDS PeerView, FiniteSetTheorems, SequenceTheorems, TLAPS

\* The last message of q that is in C or H is in C.
Lasts(q, C, H) == \E i \in DOMAIN q : q[i] \in C /\ \A j \in DOMAIN q : j > i => q[j] \notin H
Clear(q, H)    == \A i \in DOMAIN q : q[i] \notin H

\* The last message about it on its way to the client, in the outbox l or else
\* on the wire w, is in C; none is on its way.
InFlight(l, w, C, H) == Lasts(l, C, H) \/ (Clear(l, H) /\ Lasts(w, C, H))
Gone(l, w, H)        == Clear(l, H) /\ Clear(w, H)

Updates     == {m \in Message : m.type = "peers.update"}
Listing(at) == {m \in Updates : m.at = at}

\* The messages that set the status v of p, and those that leave another.
Setting(p, v) ==
    {m \in Message :
        \/ m.type = "status.update" /\ m.from = p /\ m.status = v
        \/ m.type = "status.snapshot" /\ m.of[p] = v}
Spoiling(p, v) ==
    {m \in Message :
        \/ m.type = "status.update" /\ m.from = p /\ m.status # v
        \/ m.type = "status.snapshot" /\ m.of[p] \notin {NoStatus, v}
        \/ m.type = "peers.update" /\ m.at[p] = Never}

Types ==
    /\ now \in Time
    /\ connectedAt \in [Peers -> Time \cup {Never}] /\ peers \in [Peers -> Time \cup {Never}]
    /\ statuses \in [Peers -> 0 .. MaxStatuses]
    /\ lastStatusByPeer \in [Peers -> 0 .. MaxStatuses]
    /\ line \in Seq(Message) /\ wire \in Seq(Message)
    /\ link \in BOOLEAN
    /\ ~link => line = <<>> /\ wire = <<>>
    /\ connection \in [Peers -> 0 .. MaxConnects] /\ noticed \in [Peers -> 0 .. MaxConnects]
    /\ previousAt \in [Peers -> Time \cup {Never}]
    /\ sameInstant \subseteq Peers /\ stale \in BOOLEAN
    /\ unsent \subseteq Peers /\ jumped \subseteq Peers
    /\ connects \in 0 .. MaxConnects /\ posted \in 0 .. MaxStatuses /\ drops \in 0 .. MaxDrops

\* The hub's tables.
Tables ==
    \A p \in Peers :
        /\ connection[p] <= connects /\ previousAt[p] <= now
        /\ connectedAt[p] \in {Never, previousAt[p]}
        /\ statuses[p] # NoStatus => connectedAt[p] # Never

\* The outbox: a status waits once per peer, and no snapshot behind one.
Waits ==
    /\ \A p \in Peers : \A i, j \in Waiting(p) : i = j
    /\ \A i, j \in DOMAIN line :
          i < j /\ line[j].type = "status.snapshot" => line[i].type # "status.update"

\* What the client knows and will be told of a peer's connection: its time and
\* its number.
Sent    == {line[i] : i \in DOMAIN line} \cup {wire[i] : i \in DOMAIN wire}
Seen(p) == {<<peers[p], noticed[p]>>, <<previousAt[p], connection[p]>>}
           \cup {<<m.at[p], m.who[p]>> : m \in Sent \cap Updates}

\* Equal times are one connection, and none is later than the last.
Honest(S, last) ==
    \A x, y \in S : /\ x[1] <= last
                    /\ x[1] = y[1] /\ x[1] # Never => x[2] = y[2]

Distinct ==
    \A p \in Peers :
        /\ peers[p] = Never => noticed[p] = 0
        /\ p \notin sameInstant => Honest(Seen(p), previousAt[p])

PeersOnTheWay ==
    link /\ ~stale =>
        \/ InFlight(line, wire, Listing(connectedAt), Updates)
        \/ Gone(line, wire, Updates) /\ peers = connectedAt

\* The status of p is on its way, or known.
StatusKept(p) ==
    \/ InFlight(line, wire, Setting(p, statuses[p]), Spoiling(p, statuses[p]))
    \/ Gone(line, wire, Spoiling(p, statuses[p])) /\ lastStatusByPeer[p] = statuses[p]

StatusOnTheWay ==
    link => \A p \in Peers \ (unsent \cup jumped) : statuses[p] # NoStatus => StatusKept(p)

-----------------------------------------------------------------------------
(* Queues.                                                                 *)

\* A queue without its first message.
LEMMA TailOf ==
  ASSUME NEW T, NEW q \in Seq(T), q # <<>>
  PROVE  /\ Tail(q) \in Seq(T) /\ Head(q) \in T
         /\ 1 \in DOMAIN q /\ Head(q) = q[1] /\ DOMAIN q \subseteq Nat
         /\ \A i \in DOMAIN Tail(q) :
               i \in Nat /\ i + 1 > 1 /\ i + 1 \in DOMAIN q /\ Tail(q)[i] = q[i + 1]
         /\ \A i \in DOMAIN q : i # 1 => i - 1 \in DOMAIN Tail(q) /\ Tail(q)[i - 1] = q[i]
<1>1. Len(q) \in Nat /\ Len(q) >= 1 /\ DOMAIN q = 1 .. Len(q)
  BY EmptySeq, LenProperties
<1>2. /\ Tail(q) \in Seq(T) /\ Head(q) \in T /\ Head(q) = q[1]
      /\ DOMAIN Tail(q) = 1 .. (Len(q) - 1)
      /\ \A i \in 1 .. (Len(q) - 1) : Tail(q)[i] = q[i + 1]
  BY <1>1, HeadTailProperties
<1> QED
  BY <1>1, <1>2

\* A queue with a message added at its end.
LEMMA AppendOf ==
  ASSUME NEW T, NEW q \in Seq(T), NEW m \in T
  PROVE  /\ Append(q, m) \in Seq(T) /\ DOMAIN q \subseteq Nat
         /\ \E n \in Nat :
               /\ DOMAIN Append(q, m) = DOMAIN q \cup {n} /\ Append(q, m)[n] = m
               /\ \A i \in DOMAIN q : Append(q, m)[i] = q[i] /\ i < n
<1>1. /\ DOMAIN q = 1 .. Len(q) /\ Len(q) \in Nat
      /\ Append(q, m) \in Seq(T)
      /\ DOMAIN Append(q, m) = 1 .. (Len(q) + 1)
      /\ \A i \in 1 .. Len(q) : Append(q, m)[i] = q[i]
      /\ Append(q, m)[Len(q) + 1] = m
  BY AppendProperties, LenProperties
<1> DEFINE n == Len(q) + 1
<1>2. /\ n \in Nat /\ 1 .. n = DOMAIN q \cup {n} /\ DOMAIN q \subseteq Nat
      /\ \A i \in DOMAIN q : i < n
  BY <1>1
<1>3. /\ DOMAIN Append(q, m) = DOMAIN q \cup {n} /\ Append(q, m)[n] = m
      /\ \A i \in DOMAIN q : Append(q, m)[i] = q[i]
  BY <1>1, <1>2
<1> HIDE DEF n
<1> QED
  BY <1>1, <1>2, <1>3

\* The last message of a kind, when the first message is taken off the queue.
LEMMA TailLasts ==
  ASSUME NEW T, NEW q \in Seq(T), q # <<>>, NEW C, NEW H
  PROVE  /\ Lasts(q, C, H) => Lasts(Tail(q), C, H) \/ (Head(q) \in C /\ Clear(Tail(q), H))
         /\ Clear(q, H) => Clear(Tail(q), H) /\ Head(q) \notin H
<1>1. /\ 1 \in DOMAIN q /\ Head(q) = q[1] /\ DOMAIN q \subseteq Nat
      /\ \A i \in DOMAIN Tail(q) :
            i \in Nat /\ i + 1 > 1 /\ i + 1 \in DOMAIN q /\ Tail(q)[i] = q[i + 1]
      /\ \A i \in DOMAIN q : i # 1 => i - 1 \in DOMAIN Tail(q) /\ Tail(q)[i - 1] = q[i]
  BY TailOf
<1>2. ASSUME Lasts(q, C, H)
      PROVE  Lasts(Tail(q), C, H) \/ (Head(q) \in C /\ Clear(Tail(q), H))
  <2>1. PICK i \in DOMAIN q : q[i] \in C /\ \A j \in DOMAIN q : j > i => q[j] \notin H
    BY <1>2 DEF Lasts
  <2>2. CASE i = 1
    BY <1>1, <2>1, <2>2 DEF Clear
  <2>3. CASE i # 1
    <3>1. i - 1 \in DOMAIN Tail(q) /\ Tail(q)[i - 1] \in C
      BY <1>1, <2>1, <2>3
    <3>2. ASSUME NEW j \in DOMAIN Tail(q), j > i - 1 PROVE Tail(q)[j] \notin H
      <4>1. j + 1 > i /\ j + 1 \in DOMAIN q
        BY <1>1, <2>1, <3>2
      <4> QED
        BY <1>1, <2>1, <4>1
    <3> QED
      BY <3>1, <3>2 DEF Lasts
  <2> QED
    BY <2>2, <2>3
<1>3. ASSUME Clear(q, H) PROVE Clear(Tail(q), H) /\ Head(q) \notin H
  BY <1>1, <1>3 DEF Clear
<1> QED
  BY <1>2, <1>3

\* And when a message is added at its end.
LEMMA AppendLasts ==
  ASSUME NEW T, NEW q \in Seq(T), NEW m \in T, NEW C, NEW H
  PROVE  /\ m \in C => Lasts(Append(q, m), C, H)
         /\ m \notin H /\ Lasts(q, C, H) => Lasts(Append(q, m), C, H)
         /\ m \notin H /\ Clear(q, H) => Clear(Append(q, m), H)
<1> DEFINE a == Append(q, m)
<1>1. DOMAIN q \subseteq Nat
  BY AppendOf
<1>2. PICK n \in Nat : /\ DOMAIN a = DOMAIN q \cup {n} /\ a[n] = m
                       /\ \A i \in DOMAIN q : a[i] = q[i] /\ i < n
  BY AppendOf
<1> HIDE DEF a
<1>3. ASSUME m \in C PROVE Lasts(a, C, H)
  <2>1. n \in DOMAIN a /\ a[n] \in C /\ \A j \in DOMAIN a : j > n => a[j] \notin H
    BY <1>1, <1>2, <1>3
  <2> QED
    BY <2>1 DEF Lasts
<1>4. ASSUME m \notin H, Lasts(q, C, H) PROVE Lasts(a, C, H)
  <2>1. PICK i \in DOMAIN q : q[i] \in C /\ \A j \in DOMAIN q : j > i => q[j] \notin H
    BY <1>4 DEF Lasts
  <2>2. i \in DOMAIN a /\ a[i] \in C /\ \A j \in DOMAIN a : j > i => a[j] \notin H
    BY <1>1, <1>2, <1>4, <2>1
  <2> QED
    BY <2>2 DEF Lasts
<1>5. ASSUME m \notin H, Clear(q, H) PROVE Clear(a, H)
  BY <1>2, <1>5 DEF Clear
<1> QED
  BY <1>3, <1>4, <1>5 DEF a

\* Nothing is on its way.
LEMMA NothingWaits ==
  /\ <<>> \in Seq(Message)
  /\ \A C, H : Clear(<<>>, H) /\ ~Lasts(<<>>, C, H)
<1>1. DOMAIN <<>> = {}
  OBVIOUS
<1> QED
  BY <1>1 DEF Lasts, Clear

\* What a message is.
LEMMA MessageKinds ==
  /\ \A at \in [Peers -> Time \cup {Never}], who \in [Peers -> 0 .. MaxConnects] :
        /\ PeersUpdate(at, who) \in Message
        /\ PeersUpdate(at, who).type = "peers.update"
        /\ PeersUpdate(at, who).at = at /\ PeersUpdate(at, who).who = who
  /\ \A p \in Peers, v \in 1 .. MaxStatuses :
        /\ StatusUpdate(p, v) \in Message
        /\ StatusUpdate(p, v).type = "status.update"
        /\ StatusUpdate(p, v).from = p /\ StatusUpdate(p, v).status = v
  /\ \A s \in [Peers -> 0 .. MaxStatuses] :
        /\ Snapshot(s) \in Message
        /\ Snapshot(s).type = "status.snapshot" /\ Snapshot(s).of = s
  /\ \A m \in Message :
        \/ /\ m.type = "peers.update"
           /\ m.at \in [Peers -> Time \cup {Never}] /\ m.who \in [Peers -> 0 .. MaxConnects]
        \/ m.type = "status.update" /\ m.from \in Peers /\ m.status \in 1 .. MaxStatuses
        \/ m.type = "status.snapshot" /\ m.of \in [Peers -> 0 .. MaxStatuses]
<1>1. /\ \A at \in [Peers -> Time \cup {Never}], who \in [Peers -> 0 .. MaxConnects] :
            PeersUpdate(at, who) \in Message
      /\ \A p \in Peers, v \in 1 .. MaxStatuses : StatusUpdate(p, v) \in Message
      /\ \A s \in [Peers -> 0 .. MaxStatuses] : Snapshot(s) \in Message
  BY Zenon DEF PeersUpdate, StatusUpdate, Snapshot, Message
<1>2. /\ \A at, who : /\ PeersUpdate(at, who).type = "peers.update"
                      /\ PeersUpdate(at, who).at = at /\ PeersUpdate(at, who).who = who
      /\ \A p, v : /\ StatusUpdate(p, v).type = "status.update"
                   /\ StatusUpdate(p, v).from = p /\ StatusUpdate(p, v).status = v
      /\ \A s : Snapshot(s).type = "status.snapshot" /\ Snapshot(s).of = s
  BY DEF PeersUpdate, StatusUpdate, Snapshot
<1>3. ASSUME NEW m \in Message
      PROVE  \/ /\ m.type = "peers.update"
                /\ m.at \in [Peers -> Time \cup {Never}] /\ m.who \in [Peers -> 0 .. MaxConnects]
             \/ m.type = "status.update" /\ m.from \in Peers /\ m.status \in 1 .. MaxStatuses
             \/ m.type = "status.snapshot" /\ m.of \in [Peers -> 0 .. MaxStatuses]
  BY DEF Message
<1> QED
  BY <1>1, <1>2, <1>3

LEMMA Bounds == MaxTime \in Nat /\ MaxConnects \in Nat /\ MaxStatuses \in Nat /\ MaxDrops \in Nat
BY PeerViewAssumption DEF PeerViewAssumption

-----------------------------------------------------------------------------
(***************************************************************************)
(* The tables and the outbox.                                              *)
(***************************************************************************)
Base == Types /\ Tables /\ Waits

\* A peers.update at the end of the outbox, or refused by it.
LEMMA Published ==
  ASSUME Types, NEW at \in [Peers -> Time \cup {Never}], NEW who \in [Peers -> 0 .. MaxConnects],
         publishPeers(at, who)
  PROVE  /\ PeersUpdate(at, who) \in Message
         /\ line' \in Seq(Message) /\ stale' \in BOOLEAN
         /\ \/ link /\ line' = Append(line, PeersUpdate(at, who)) /\ stale' = FALSE
            \/ link /\ line' = line /\ stale' = TRUE
            \/ ~link /\ line' = line /\ stale' = stale
<1>1. PeersUpdate(at, who) \in Message
  BY MessageKinds
<1>2. Append(line, PeersUpdate(at, who)) \in Seq(Message)
  BY <1>1, AppendOf DEF Types
<1>3. \/ link /\ line' = Append(line, PeersUpdate(at, who)) /\ stale' = FALSE
      \/ link /\ line' = line /\ stale' = TRUE
      \/ ~link /\ line' = line /\ stale' = stale
  BY DEF publishPeers
<1>4. line' \in Seq(Message) /\ stale' \in BOOLEAN
  <2>1. line \in Seq(Message) /\ stale \in BOOLEAN
    BY DEF Types
  <2> QED
    BY <1>2, <1>3, <2>1
<1> QED
  BY <1>1, <1>3, <1>4

\* A message at the end that is no snapshot, and no second status of a peer,
\* leaves the outbox in order.
LEMMA WaitsAppend ==
  ASSUME Types, Waits, NEW m \in Message, line' = Append(line, m),
         m.type # "status.snapshot",
         m.type = "status.update" => Waiting(m.from) = {}
  PROVE  Waits'
<1>1. line \in Seq(Message) /\ DOMAIN line \subseteq Nat
  BY AppendOf DEF Types
<1>2. PICK n \in Nat : /\ DOMAIN line' = DOMAIN line \cup {n} /\ line'[n] = m
                       /\ \A i \in DOMAIN line : line'[i] = line[i] /\ i < n
  BY <1>1, AppendOf
<1>3. ASSUME NEW p \in Peers, NEW i \in Waiting(p)', NEW j \in Waiting(p)' PROVE i = j
  <2>1. /\ i \in DOMAIN line' /\ line'[i].type = "status.update" /\ line'[i].from = p
        /\ j \in DOMAIN line' /\ line'[j].type = "status.update" /\ line'[j].from = p
    BY <1>3 DEF Waiting
  <2>2. CASE i = n /\ j = n
    BY <2>2
  <2>3. CASE i # n /\ j # n
    <3>1. i \in Waiting(p) /\ j \in Waiting(p)
      BY <1>2, <2>1, <2>3 DEF Waiting
    <3> QED
      BY <3>1 DEF Waits
  <2>4. CASE i = n /\ j # n
    BY <1>2, <2>1, <2>4 DEF Waiting
  <2>5. CASE i # n /\ j = n
    BY <1>2, <2>1, <2>5 DEF Waiting
  <2> QED
    BY <2>2, <2>3, <2>4, <2>5
<1>4. ASSUME NEW i \in DOMAIN line', NEW j \in DOMAIN line', i < j,
             line'[j].type = "status.snapshot"
      PROVE  line'[i].type # "status.update"
  <2>1. j \in DOMAIN line /\ i \in DOMAIN line
    BY <1>1, <1>2, <1>4
  <2> QED
    BY <1>2, <1>4, <2>1 DEF Waits
<1> QED
  BY <1>3, <1>4 DEF Waits

\* Taking the first message off the outbox.
LEMMA WaitsTail == ASSUME Types, Waits, line # <<>>, line' = Tail(line) PROVE Waits'
<1>1. /\ DOMAIN line \subseteq Nat
      /\ \A i \in DOMAIN line' :
            i \in Nat /\ i + 1 \in DOMAIN line /\ line'[i] = line[i + 1]
  BY TailOf DEF Types
<1>2. ASSUME NEW p \in Peers, NEW i \in Waiting(p)', NEW j \in Waiting(p)' PROVE i = j
  <2>1. i \in DOMAIN line' /\ j \in DOMAIN line'
    BY DEF Waiting
  <2>2. i + 1 \in Waiting(p) /\ j + 1 \in Waiting(p)
    BY <1>1, <2>1 DEF Waiting
  <2>3. i + 1 = j + 1
    BY <2>2 DEF Waits
  <2> QED
    BY <1>1, <2>1, <2>3
<1>3. ASSUME NEW i \in DOMAIN line', NEW j \in DOMAIN line', i < j,
             line'[j].type = "status.snapshot"
      PROVE  line'[i].type # "status.update"
  <2>1. i + 1 < j + 1
    BY <1>1, <1>3
  <2> QED
    BY <1>1, <1>3, <2>1 DEF Waits
<1> QED
  BY <1>2, <1>3 DEF Waits

\* A status that takes the place of the one that waits.
LEMMA WaitsReplaced ==
  ASSUME Types, Waits, NEW p \in Peers, NEW v \in 1 .. MaxStatuses, NEW i \in Waiting(p),
         line' = [line EXCEPT ![i] = StatusUpdate(p, v)]
  PROVE  /\ line' \in Seq(Message) /\ DOMAIN line' = DOMAIN line /\ i \in DOMAIN line
         /\ line'[i] = StatusUpdate(p, v)
         /\ \A k \in DOMAIN line : k # i => line'[k] = line[k]
         /\ Waits'
<1>1. /\ line \in Seq(Message) /\ i \in DOMAIN line
      /\ line[i].type = "status.update" /\ line[i].from = p
  BY DEF Types, Waiting
<1>2. /\ StatusUpdate(p, v) \in Message /\ StatusUpdate(p, v).type = "status.update"
      /\ StatusUpdate(p, v).from = p
  BY MessageKinds
<1>3. /\ DOMAIN line' = DOMAIN line /\ line'[i] = StatusUpdate(p, v)
      /\ \A k \in DOMAIN line : k # i => line'[k] = line[k]
  BY <1>1
<1>4. line' \in Seq(Message)
  <2>1. line \in [1 .. Len(line) -> Message] /\ Len(line) \in Nat
    BY <1>1, LenProperties
  <2>2. line' \in [1 .. Len(line) -> Message]
    BY <1>2, <2>1
  <2> QED
    BY <2>1, <2>2
<1>5. Waits'
  <2>1. ASSUME NEW k \in DOMAIN line
        PROVE  /\ line'[k].type = line[k].type
               /\ line[k].type = "status.update" => line'[k].from = line[k].from
    BY <1>1, <1>2, <1>3, <2>1
  <2>2. \A q \in Peers : Waiting(q)' = Waiting(q)
    BY <1>3, <2>1 DEF Waiting
  <2> QED
    BY <1>3, <2>1, <2>2 DEF Waits
<1> QED
  BY <1>1, <1>3, <1>4, <1>5

\* What a status does to the outbox.
LEMMA Relayed ==
  ASSUME Types, Waits, NEW p \in Peers, NEW v \in 1 .. MaxStatuses, Relay(p, v)
  PROVE  /\ line' \in Seq(Message) /\ Waits'
         /\ unsent' \in SUBSET Peers /\ jumped' \in SUBSET Peers
<1>1. unsent' \in SUBSET Peers /\ jumped' \in SUBSET Peers
  BY DEF Relay, Conflated, Types
<1>2. CASE Conflated(p, v)
  <2>1. PICK i \in Waiting(p) : line' = [line EXCEPT ![i] = StatusUpdate(p, v)]
    BY <1>2 DEF Conflated
  <2> QED
    BY <1>1, <2>1, WaitsReplaced
<1>3. CASE Waiting(p) = {} /\ line' = Append(line, StatusUpdate(p, v))
  <2>1. /\ StatusUpdate(p, v) \in Message /\ StatusUpdate(p, v).type = "status.update"
        /\ StatusUpdate(p, v).from = p
    BY MessageKinds
  <2>2. line' \in Seq(Message)
    BY <1>3, <2>1, AppendOf DEF Types
  <2>3. Waits'
    BY <1>3, <2>1, WaitsAppend
  <2> QED
    BY <1>1, <2>2, <2>3
<1>4. CASE UNCHANGED line
  BY <1>1, <1>4 DEF Types, Waits, Waiting
<1> QED
  BY <1>2, <1>3, <1>4 DEF Relay

LEMMA ConnectBase == ASSUME Base, NEW p \in Peers, Connect(p) PROVE Base'
<1>1. /\ connects < MaxConnects /\ connects' = connects + 1
      /\ connectedAt' = [connectedAt EXCEPT ![p] = now]
      /\ connection' = [connection EXCEPT ![p] = @ + 1]
      /\ previousAt' = [previousAt EXCEPT ![p] = now]
      /\ sameInstant' \in {sameInstant, sameInstant \cup {p}}
      /\ publishPeers(connectedAt', connection')
      /\ UNCHANGED <<now, statuses, wire, link, peers, lastStatusByPeer, noticed, unsent, jumped,
                     posted, drops>>
  BY DEF Connect, clientVars
<1>2. connects' \in 0 .. MaxConnects
  BY <1>1, Bounds DEF Base, Types
<1>3. /\ connectedAt' \in [Peers -> Time \cup {Never}]
      /\ previousAt' \in [Peers -> Time \cup {Never}]
  BY <1>1 DEF Base, Types
<1>4. connection' \in [Peers -> 0 .. MaxConnects] /\ \A q \in Peers : connection'[q] <= connects'
  BY <1>1, Bounds DEF Base, Types, Tables
<1>5. /\ line' \in Seq(Message) /\ stale' \in BOOLEAN
      /\ PeersUpdate(connectedAt', connection') \in Message
      /\ line' = line \/ (link /\ line' = Append(line, PeersUpdate(connectedAt', connection')))
  BY <1>1, <1>3, <1>4, Published DEF Base
<1>6. Types'
  BY <1>1, <1>2, <1>3, <1>4, <1>5 DEF Base, Types
<1>7. Tables'
  <2>1. now # Never /\ now \in Int
    BY Bounds DEF Base, Types, Time, Never
  <2> QED
    BY <1>1, <1>4, <2>1 DEF Base, Types, Tables
<1>8. Waits'
  <2>1. CASE line' = line
    BY <2>1 DEF Base, Waits, Waiting
  <2>2. CASE line' = Append(line, PeersUpdate(connectedAt', connection'))
    <3>1. PeersUpdate(connectedAt', connection').type = "peers.update"
      BY <1>3, <1>4, MessageKinds
    <3> QED
      BY <1>5, <2>2, <3>1, WaitsAppend DEF Base
  <2> QED
    BY <1>5, <2>1, <2>2
<1> QED
  BY <1>6, <1>7, <1>8 DEF Base

LEMMA DisconnectBase == ASSUME Base, NEW p \in Peers, Disconnect(p) PROVE Base'
<1>1. /\ connectedAt' = [connectedAt EXCEPT ![p] = Never]
      /\ statuses' = [statuses EXCEPT ![p] = NoStatus]
      /\ publishPeers(connectedAt', connection)
      /\ UNCHANGED <<now, wire, link, peers, lastStatusByPeer, noticed, connection, previousAt,
                     sameInstant, unsent, jumped, connects, posted, drops>>
  BY DEF Disconnect, DropStatus, clientVars, counters
<1>2. connectedAt' \in [Peers -> Time \cup {Never}] /\ connection \in [Peers -> 0 .. MaxConnects]
  BY <1>1 DEF Base, Types
<1>3. statuses' \in [Peers -> 0 .. MaxStatuses]
  BY <1>1, Bounds DEF Base, Types, NoStatus
<1>4. /\ line' \in Seq(Message) /\ stale' \in BOOLEAN
      /\ PeersUpdate(connectedAt', connection) \in Message
      /\ line' = line \/ (link /\ line' = Append(line, PeersUpdate(connectedAt', connection)))
  BY <1>1, <1>2, Published DEF Base
<1>5. Types'
  BY <1>1, <1>2, <1>3, <1>4 DEF Base, Types
<1>6. Tables'
  BY <1>1 DEF Base, Types, Tables
<1>7. Waits'
  <2>1. CASE line' = line
    BY <2>1 DEF Base, Waits, Waiting
  <2>2. CASE line' = Append(line, PeersUpdate(connectedAt', connection))
    <3>1. PeersUpdate(connectedAt', connection).type = "peers.update"
      BY <1>2, MessageKinds
    <3> QED
      BY <1>4, <2>2, <3>1, WaitsAppend DEF Base
  <2> QED
    BY <1>4, <2>1, <2>2
<1> QED
  BY <1>5, <1>6, <1>7 DEF Base

LEMMA StatusBase == ASSUME Base, NEW p \in Peers, Status(p) PROVE Base'
<1>1. /\ connectedAt[p] # Never /\ posted < MaxStatuses /\ posted' = posted + 1
      /\ statuses' = [statuses EXCEPT ![p] = posted + 1]
      /\ \/ link /\ Relay(p, posted + 1)
         \/ UNCHANGED <<line, unsent, jumped>>
      /\ UNCHANGED <<now, connectedAt, wire, link, peers, lastStatusByPeer, noticed, connection,
                     previousAt, sameInstant, stale, connects, drops>>
  BY DEF Status, clientVars
<1>2. posted + 1 \in 1 .. MaxStatuses /\ posted' \in 0 .. MaxStatuses
  BY <1>1, Bounds DEF Base, Types
<1>3. statuses' \in [Peers -> 0 .. MaxStatuses]
  BY <1>1, <1>2, Bounds DEF Base, Types
<1>4. /\ line' \in Seq(Message) /\ Waits' /\ unsent' \subseteq Peers /\ jumped' \subseteq Peers
      /\ ~link => line' = line
  <2>1. CASE link /\ Relay(p, posted + 1)
    BY <1>2, <2>1, Relayed DEF Base
  <2>2. CASE UNCHANGED <<line, unsent, jumped>>
    BY <2>2 DEF Base, Types, Waits, Waiting
  <2> QED
    BY <1>1, <2>1, <2>2
<1>5. Types'
  BY <1>1, <1>2, <1>3, <1>4 DEF Base, Types
<1>6. Tables'
  BY <1>1 DEF Base, Types, Tables
<1> QED
  BY <1>4, <1>5, <1>6 DEF Base

LEMMA HubWritesBase == ASSUME Base, HubWrites PROVE Base'
<1>1. /\ line # <<>> /\ line' = Tail(line) /\ wire' = Append(wire, Head(line))
      /\ UNCHANGED <<now, connectedAt, statuses, link, peers, lastStatusByPeer, noticed, connection,
                     previousAt, sameInstant, stale, unsent, jumped, connects, posted, drops>>
  BY DEF HubWrites, hubVars, clientVars, counters
<1>2. line' \in Seq(Message) /\ wire' \in Seq(Message)
  <2>1. Tail(line) \in Seq(Message) /\ Head(line) \in Message
    BY <1>1, TailOf DEF Base, Types
  <2> QED
    BY <1>1, <2>1, AppendOf DEF Base, Types
<1>3. Types' /\ Tables'
  BY <1>1, <1>2 DEF Base, Types, Tables
<1>4. Waits'
  BY <1>1, WaitsTail DEF Base
<1> QED
  BY <1>3, <1>4 DEF Base

LEMMA LinkUpBase == ASSUME Base, LinkUp PROVE Base'
<1> DEFINE m == PeersUpdate(connectedAt, connection)
           n == Snapshot(statuses)
<1>1. /\ ~link /\ link' = TRUE /\ line' = <<m, n>>
      /\ stale' = FALSE /\ unsent' = {} /\ jumped' = {}
      /\ UNCHANGED <<now, connectedAt, statuses, wire, peers, lastStatusByPeer, noticed, connection,
                     previousAt, sameInstant, connects, posted, drops>>
  BY DEF LinkUp, hubVars, clientVars, counters
<1>2. m \in Message /\ n \in Message /\ m.type = "peers.update" /\ n.type = "status.snapshot"
  <2>1. /\ connectedAt \in [Peers -> Time \cup {Never}] /\ connection \in [Peers -> 0 .. MaxConnects]
        /\ statuses \in [Peers -> 0 .. MaxStatuses]
    BY DEF Base, Types
  <2> QED
    BY <2>1, MessageKinds
<1> HIDE DEF m, n
<1>3. line' \in Seq(Message) /\ DOMAIN line' = {1, 2} /\ line'[1] = m /\ line'[2] = n
  BY <1>1, <1>2
<1>4. Types' /\ Tables'
  BY <1>1, <1>3 DEF Base, Types, Tables
<1>5. Waits'
  <2>1. \A i \in DOMAIN line' : line'[i].type # "status.update"
    BY <1>2, <1>3
  <2>2. \A p \in Peers : Waiting(p)' = {}
    BY <2>1 DEF Waiting
  <2> QED
    BY <2>1, <2>2 DEF Waits
<1> QED
  BY <1>4, <1>5 DEF Base

LEMMA LinkDownBase == ASSUME Base, LinkDown PROVE Base'
<1>1. /\ link' = FALSE /\ line' = <<>> /\ wire' = <<>> /\ drops < MaxDrops /\ drops' = drops + 1
      /\ UNCHANGED <<now, connectedAt, statuses, peers, lastStatusByPeer, noticed, connection,
                     previousAt, sameInstant, stale, unsent, jumped, connects, posted>>
  BY DEF LinkDown, hubVars, clientVars
<1>2. drops' \in 0 .. MaxDrops
  BY <1>1, Bounds DEF Base, Types
<1>3. Types' /\ Tables'
  BY <1>1, <1>2, NothingWaits DEF Base, Types, Tables
<1>4. Waits'
  <2>1. DOMAIN line' = {}
    BY <1>1
  <2> QED
    BY <2>1 DEF Waits, Waiting
<1> QED
  BY <1>3, <1>4 DEF Base

LEMMA ReceivesBase == ASSUME Base, Receives PROVE Base'
<1> DEFINE m == Head(wire)
<1>1. /\ wire # <<>> /\ wire' = Tail(wire)
      /\ \/ m.type = "peers.update" /\ OnPeersUpdate(m)
         \/ m.type = "status.update" /\ OnStatusUpdate(m)
         \/ m.type = "status.snapshot" /\ OnSnapshot(m)
      /\ UNCHANGED <<now, connectedAt, statuses, line, link, connection, previousAt, sameInstant,
                     stale, unsent, jumped, connects, posted, drops>>
  BY DEF Receives, hubVars, counters
<1>2. m \in Message /\ wire' \in Seq(Message)
  BY <1>1, TailOf DEF Base, Types
<1>3. /\ m.type = "peers.update" =>
            m.at \in [Peers -> Time \cup {Never}] /\ m.who \in [Peers -> 0 .. MaxConnects]
      /\ m.type = "status.update" => m.from \in Peers /\ m.status \in 1 .. MaxStatuses
      /\ m.type = "status.snapshot" => m.of \in [Peers -> 0 .. MaxStatuses]
  BY <1>2, MessageKinds
<1> HIDE DEF m
<1>4. /\ peers' \in [Peers -> Time \cup {Never}] /\ noticed' \in [Peers -> 0 .. MaxConnects]
      /\ lastStatusByPeer' \in [Peers -> 0 .. MaxStatuses]
  <2>1. 0 \in 0 .. MaxConnects /\ NoStatus \in 0 .. MaxStatuses
    BY Bounds DEF NoStatus
  <2>2. CASE m.type = "peers.update" /\ OnPeersUpdate(m)
    BY <1>3, <2>1, <2>2 DEF OnPeersUpdate, Base, Types
  <2>3. CASE m.type = "status.update" /\ OnStatusUpdate(m)
    BY <1>3, <2>3, Bounds DEF OnStatusUpdate, Base, Types
  <2>4. CASE m.type = "status.snapshot" /\ OnSnapshot(m)
    BY <1>3, <2>4 DEF OnSnapshot, Base, Types
  <2> QED
    BY <1>1, <2>2, <2>3, <2>4
<1>5. link
  BY <1>1 DEF Base, Types
<1>6. Types' /\ Tables'
  BY <1>1, <1>2, <1>4, <1>5 DEF Base, Types, Tables
<1>7. Waits'
  BY <1>1 DEF Base, Waits, Waiting
<1> QED
  BY <1>6, <1>7 DEF Base

LEMMA OthersBase == ASSUME Base, ClockTicks \/ UNCHANGED vars PROVE Base'
<1>1. /\ UNCHANGED <<connectedAt, statuses, line, wire, link, peers, lastStatusByPeer, noticed,
                     connection, previousAt, sameInstant, stale, unsent, jumped, connects, posted,
                     drops>>
      /\ now' = now \/ (now < MaxTime /\ now' = now + 1)
  BY DEF ClockTicks, vars, hubVars, clientVars, counters
<1>2. now' \in Time /\ now <= now'
  BY <1>1, Bounds DEF Base, Types, Time
<1>3. Types' /\ Waits'
  BY <1>1, <1>2 DEF Base, Types, Waits, Waiting
<1>4. Tables'
  <2>1. \A p \in Peers : previousAt[p] \in Int /\ now \in Int /\ now' \in Int
    BY <1>2, Bounds DEF Base, Types, Time, Never
  <2> QED
    BY <1>1, <1>2, <2>1 DEF Base, Tables
<1> QED
  BY <1>3, <1>4 DEF Base

LEMMA InitBase == Init => Base
<1> SUFFICES ASSUME Init PROVE Base
  OBVIOUS
<1>1. Types
  <2>1. 0 \in Time /\ 0 \in 0 .. MaxConnects /\ 0 \in 0 .. MaxStatuses /\ 0 \in 0 .. MaxDrops
    BY Bounds DEF Time
  <2>2. <<>> \in Seq(Message)
    BY NothingWaits
  <2> QED
    BY <2>1, <2>2 DEF Init, Types, NoStatus
<1>2. Tables
  BY DEF Init, Tables, Never
<1>3. Waits
  <2>1. DOMAIN line = {}
    BY DEF Init
  <2> QED
    BY <2>1 DEF Waits, Waiting
<1> QED
  BY <1>1, <1>2, <1>3 DEF Base

\* The tables are what they are said to be, and a status waits once per peer:
\* the conflation key, dropStatus() and publishPeers().
LEMMA BaseHolds == Spec => []Base
<1>1. Base /\ [Next]_vars => Base'
  BY ConnectBase, DisconnectBase, StatusBase, HubWritesBase, LinkUpBase, LinkDownBase, ReceivesBase,
     OthersBase DEF Next
<1> QED
  BY <1>1, InitBase, PTL DEF Spec

\* A status waits at most once per peer, and only a connected client has
\* messages on their way.
THEOREM TypeCorrect == Spec => []TypeOK
<1>1. Base => TypeOK
  <2> SUFFICES ASSUME Base PROVE TypeOK
    OBVIOUS
  <2>1. ASSUME NEW p \in Peers PROVE Cardinality(Waiting(p)) <= 1
    <3>1. CASE Waiting(p) = {}
      BY <3>1, FS_EmptySet
    <3>2. CASE Waiting(p) # {}
      <4>1. PICK i : i \in Waiting(p)
        BY <3>2
      <4>2. Waiting(p) = {i}
        BY <4>1 DEF Base, Waits
      <4> QED
        BY <4>2, FS_Singleton
    <3> QED
      BY <3>1, <3>2
  <2> QED
    BY <2>1 DEF Base, Types, TypeOK
<1> QED
  BY <1>1, BaseHolds, PTL

-----------------------------------------------------------------------------
(***************************************************************************)
(* The last message on its way.                                            *)
(***************************************************************************)
LEMMA InFlightAppend ==
  ASSUME NEW T, NEW l \in Seq(T), NEW w, NEW m \in T, NEW C, NEW H
  PROVE  /\ m \in C => InFlight(Append(l, m), w, C, H)
         /\ m \notin H =>
               /\ InFlight(l, w, C, H) => InFlight(Append(l, m), w, C, H)
               /\ Gone(l, w, H) => Gone(Append(l, m), w, H)
<1>1. /\ m \in C => Lasts(Append(l, m), C, H)
      /\ m \notin H /\ Lasts(l, C, H) => Lasts(Append(l, m), C, H)
      /\ m \notin H /\ Clear(l, H) => Clear(Append(l, m), H)
  BY AppendLasts
<1> QED
  BY <1>1 DEF InFlight, Gone

\* The hub writes the first message of the outbox.
LEMMA InFlightWritten ==
  ASSUME NEW T, NEW l \in Seq(T), NEW w \in Seq(T), l # <<>>, NEW C, NEW H
  PROVE  /\ InFlight(l, w, C, H) => InFlight(Tail(l), Append(w, Head(l)), C, H)
         /\ Gone(l, w, H) => Gone(Tail(l), Append(w, Head(l)), H)
<1>1. Head(l) \in T
  BY TailOf
<1>2. /\ Lasts(l, C, H) => Lasts(Tail(l), C, H) \/ (Head(l) \in C /\ Clear(Tail(l), H))
      /\ Clear(l, H) => Clear(Tail(l), H) /\ Head(l) \notin H
  BY TailLasts
<1>3. /\ Head(l) \in C => Lasts(Append(w, Head(l)), C, H)
      /\ Head(l) \notin H /\ Lasts(w, C, H) => Lasts(Append(w, Head(l)), C, H)
      /\ Head(l) \notin H /\ Clear(w, H) => Clear(Append(w, Head(l)), H)
  BY <1>1, AppendLasts
<1> QED
  BY <1>2, <1>3 DEF InFlight, Gone

\* The client receives the first message on the wire.
LEMMA InFlightReceived ==
  ASSUME NEW T, NEW l, NEW w \in Seq(T), w # <<>>, NEW C, NEW H
  PROVE  /\ InFlight(l, w, C, H) =>
               InFlight(l, Tail(w), C, H) \/ (Gone(l, Tail(w), H) /\ Head(w) \in C)
         /\ Gone(l, w, H) => Gone(l, Tail(w), H) /\ Head(w) \notin H
<1>1. /\ Lasts(w, C, H) => Lasts(Tail(w), C, H) \/ (Head(w) \in C /\ Clear(Tail(w), H))
      /\ Clear(w, H) => Clear(Tail(w), H) /\ Head(w) \notin H
  BY TailLasts
<1> QED
  BY <1>1 DEF InFlight, Gone

\* A message of the outbox is replaced by one that is not about it either.
LEMMA InFlightReplaced ==
  ASSUME NEW l, NEW r, NEW w, NEW i \in DOMAIN l, NEW C, NEW H,
         DOMAIN r = DOMAIN l, \A k \in DOMAIN l : k # i => r[k] = l[k],
         l[i] \notin C, r[i] \notin H
  PROVE  /\ InFlight(l, w, C, H) => InFlight(r, w, C, H)
         /\ Gone(l, w, H) => Gone(r, w, H)
<1>1. Lasts(l, C, H) => Lasts(r, C, H)
  BY DEF Lasts
<1>2. Clear(l, H) => Clear(r, H)
  BY DEF Clear
<1> QED
  BY <1>1, <1>2 DEF InFlight, Gone

-----------------------------------------------------------------------------
(***************************************************************************)
(* The registry.                                                           *)
(***************************************************************************)
\* What a client receives that is no peers.update is not about the registry.
LEMMA NoUpdate == \A m \in Message : m \in Updates <=> m.type = "peers.update"
BY DEF Updates

LEMMA ConnectPeers ==
  ASSUME Base, PeersOnTheWay, NEW p \in Peers, Connect(p) \/ Disconnect(p)
  PROVE  PeersOnTheWay'
<1>1. /\ connectedAt' \in [Peers -> Time \cup {Never}]
      /\ connection' \in [Peers -> 0 .. MaxConnects]
  BY ConnectBase, DisconnectBase DEF Base, Types
<1>2. publishPeers(connectedAt', connection') /\ UNCHANGED <<wire, link>>
  BY DEF Connect, Disconnect
<1> DEFINE m == PeersUpdate(connectedAt', connection')
           C == Listing(connectedAt')
<1>3. /\ m \in Message
      /\ \/ link /\ line' = Append(line, m) /\ stale' = FALSE
         \/ link /\ line' = line /\ stale' = TRUE
         \/ ~link /\ line' = line /\ stale' = stale
  BY <1>1, <1>2, Published DEF Base
<1>4. m \in C
  <2>1. m.type = "peers.update" /\ m.at = connectedAt'
    BY <1>1, MessageKinds
  <2> QED
    BY <1>3, <2>1 DEF Listing, Updates
<1> HIDE DEF m, C
<1> SUFFICES ASSUME link', ~stale' PROVE InFlight(line', wire', C, Updates)
  BY DEF PeersOnTheWay, C
<1>5. line' = Append(line, m)
  BY <1>2, <1>3
<1> QED
  BY <1>2, <1>3, <1>4, <1>5, InFlightAppend DEF Base, Types

LEMMA StatusPeers ==
  ASSUME Base, PeersOnTheWay, NEW p \in Peers, Status(p)
  PROVE  PeersOnTheWay'
<1>1. /\ posted < MaxStatuses
      /\ \/ link /\ Relay(p, posted + 1)
         \/ UNCHANGED line
      /\ UNCHANGED <<connectedAt, wire, link, peers, stale>>
  BY DEF Status, clientVars
<1> DEFINE v == posted + 1
           m == StatusUpdate(p, v)
           C == Listing(connectedAt)
<1>2. v \in 1 .. MaxStatuses
  BY <1>1, Bounds DEF Base, Types
<1>3. m \in Message /\ m \notin Updates
  <2>1. m \in Message /\ m.type = "status.update"
    BY <1>2, MessageKinds
  <2> QED
    BY <2>1, NoUpdate
<1>4. /\ InFlight(line, wire, C, Updates) => InFlight(line', wire, C, Updates)
      /\ Gone(line, wire, Updates) => Gone(line', wire, Updates)
  <2> HIDE DEF v, m, C
  <2>1. CASE UNCHANGED line
    BY <2>1
  <2>2. CASE line' = Append(line, m)
    <3>1. line \in Seq(Message)
      BY DEF Base, Types
    <3> QED
      BY <1>3, <2>2, <3>1, InFlightAppend
  <2>3. CASE Conflated(p, v)
    <3>1. PICK i \in Waiting(p) : line' = [line EXCEPT ![i] = m]
      BY <2>3 DEF Conflated, m
    <3>2. /\ DOMAIN line' = DOMAIN line /\ i \in DOMAIN line /\ line'[i] = m
          /\ \A k \in DOMAIN line : k # i => line'[k] = line[k]
      BY <1>2, <3>1, WaitsReplaced DEF Base, m
    <3>3. line[i] \notin C
      BY <3>1 DEF C, Listing, Updates, Waiting
    <3> QED
      BY <1>3, <3>2, <3>3, InFlightReplaced
  <2> QED
    BY <1>1, <2>1, <2>2, <2>3 DEF Relay, v, m
<1> QED
  BY <1>1, <1>4 DEF PeersOnTheWay

LEMMA LinkUpPeers == ASSUME Base, LinkUp PROVE PeersOnTheWay'
<1> DEFINE m == PeersUpdate(connectedAt, connection)
           n == Snapshot(statuses)
<1>1. line' = <<m, n>> /\ UNCHANGED <<connectedAt, wire>>
  BY DEF LinkUp, hubVars
<1>2. m \in Message /\ m.type = "peers.update" /\ m.at = connectedAt /\ n.type = "status.snapshot"
  <2>1. /\ connectedAt \in [Peers -> Time \cup {Never}] /\ connection \in [Peers -> 0 .. MaxConnects]
        /\ statuses \in [Peers -> 0 .. MaxStatuses]
    BY DEF Base, Types
  <2> QED
    BY <2>1, MessageKinds
<1> HIDE DEF m, n
<1>3. m \in Listing(connectedAt') /\ n \notin Updates
  BY <1>1, <1>2 DEF Listing, Updates
<1>4. DOMAIN line' = {1, 2} /\ line'[1] = m /\ line'[2] = n
  BY <1>1
<1>5. Lasts(line', Listing(connectedAt'), Updates)
  BY <1>3, <1>4 DEF Lasts
<1> QED
  BY <1>5 DEF PeersOnTheWay, InFlight

LEMMA HubWritesPeers == ASSUME Base, PeersOnTheWay, HubWrites PROVE PeersOnTheWay'
<1>1. /\ line # <<>> /\ line' = Tail(line) /\ wire' = Append(wire, Head(line))
      /\ UNCHANGED <<connectedAt, link, stale, peers>>
  BY DEF HubWrites, hubVars, clientVars
<1>2. line \in Seq(Message) /\ wire \in Seq(Message)
  BY DEF Base, Types
<1> DEFINE C == Listing(connectedAt)
<1> HIDE DEF C
<1>3. /\ InFlight(line, wire, C, Updates) => InFlight(line', wire', C, Updates)
      /\ Gone(line, wire, Updates) => Gone(line', wire', Updates)
  BY <1>1, <1>2, InFlightWritten
<1> QED
  BY <1>1, <1>3 DEF PeersOnTheWay, C

LEMMA ReceivesPeers == ASSUME Base, PeersOnTheWay, Receives PROVE PeersOnTheWay'
<1> DEFINE m == Head(wire)
           C == Listing(connectedAt)
<1>1. /\ wire # <<>> /\ wire' = Tail(wire)
      /\ \/ m.type = "peers.update" /\ OnPeersUpdate(m)
         \/ m.type = "status.update" /\ OnStatusUpdate(m)
         \/ m.type = "status.snapshot" /\ OnSnapshot(m)
      /\ UNCHANGED <<connectedAt, line, link, stale>>
  BY DEF Receives, hubVars
<1>2. wire \in Seq(Message) /\ m \in Message
  BY <1>1, TailOf DEF Base, Types
<1>3. /\ InFlight(line, wire, C, Updates) =>
            InFlight(line, wire', C, Updates) \/ (Gone(line, wire', Updates) /\ m \in C)
      /\ Gone(line, wire, Updates) => Gone(line, wire', Updates) /\ m \notin Updates
  <2> HIDE DEF C
  <2> QED
    BY <1>1, <1>2, InFlightReceived
<1> HIDE DEF m
<1>4. m \in C => peers' = connectedAt
  BY <1>1 DEF C, Listing, Updates, OnPeersUpdate
<1>5. m \notin Updates => peers' = peers
  BY <1>1, <1>2, NoUpdate DEF OnStatusUpdate, OnSnapshot
<1> QED
  BY <1>1, <1>3, <1>4, <1>5 DEF PeersOnTheWay

\* Whatever happens, the registry as it is reaches the client.
LEMMA PeersOnTheWayHolds == Spec => []PeersOnTheWay
<1>1. Init => PeersOnTheWay
  BY DEF Init, PeersOnTheWay
<1>2. Base /\ PeersOnTheWay /\ [Next]_vars => PeersOnTheWay'
  <2> SUFFICES ASSUME Base, PeersOnTheWay, [Next]_vars PROVE PeersOnTheWay'
    OBVIOUS
  <2>1. ASSUME LinkDown PROVE PeersOnTheWay'
    BY <2>1 DEF LinkDown, PeersOnTheWay
  <2>2. ASSUME ClockTicks \/ UNCHANGED vars PROVE PeersOnTheWay'
    <3>1. UNCHANGED <<connectedAt, line, wire, link, stale, peers>>
      BY <2>2 DEF ClockTicks, vars, hubVars, clientVars
    <3> QED
      BY <3>1 DEF PeersOnTheWay
  <2> QED
    BY <2>1, <2>2, ConnectPeers, StatusPeers, LinkUpPeers, HubWritesPeers, ReceivesPeers DEF Next
<1> QED
  BY <1>1, <1>2, BaseHolds, PTL DEF Spec

-----------------------------------------------------------------------------
(***************************************************************************)
(* The statuses.                                                           *)
(***************************************************************************)
\* Of a status v that is set: what sets it, and what leaves it alone.
LEMMA AboutStatus ==
  ASSUME NEW p \in Peers, NEW v \in 1 .. MaxStatuses
  PROVE  /\ StatusUpdate(p, v) \in Setting(p, v)
         /\ \A s \in [Peers -> 0 .. MaxStatuses] : s[p] = v => Snapshot(s) \in Setting(p, v)
         /\ \A at \in [Peers -> Time \cup {Never}], who \in [Peers -> 0 .. MaxConnects] :
               at[p] # Never => PeersUpdate(at, who) \notin Spoiling(p, v)
         /\ \A q \in Peers, u \in 1 .. MaxStatuses :
               q # p => StatusUpdate(q, u) \notin Spoiling(p, v)
         /\ \A m : m.type = "status.update" /\ m.from # p => m \notin Setting(p, v)
<1>1. StatusUpdate(p, v) \in Setting(p, v)
  BY MessageKinds DEF Setting
<1>2. ASSUME NEW s \in [Peers -> 0 .. MaxStatuses], s[p] = v PROVE Snapshot(s) \in Setting(p, v)
  BY <1>2, MessageKinds DEF Setting
<1>3. ASSUME NEW at \in [Peers -> Time \cup {Never}], NEW who \in [Peers -> 0 .. MaxConnects],
             at[p] # Never
      PROVE  PeersUpdate(at, who) \notin Spoiling(p, v)
  BY <1>3, MessageKinds DEF Spoiling
<1>4. ASSUME NEW q \in Peers, NEW u \in 1 .. MaxStatuses, q # p
      PROVE  StatusUpdate(q, u) \notin Spoiling(p, v)
  BY <1>4, MessageKinds DEF Spoiling
<1>5. \A m : m.type = "status.update" /\ m.from # p => m \notin Setting(p, v)
  BY DEF Setting
<1> QED
  BY <1>1, <1>2, <1>3, <1>4, <1>5

\* Peers come and go; of the one that left there is no status.
LEMMA ConnectStatus ==
  ASSUME Base, StatusOnTheWay, NEW r \in Peers, Connect(r) \/ Disconnect(r)
  PROVE  StatusOnTheWay'
<1>1. /\ connectedAt' \in [Peers -> Time \cup {Never}]
      /\ connection' \in [Peers -> 0 .. MaxConnects] /\ Base'
  BY ConnectBase, DisconnectBase DEF Base, Types
<1>2. /\ publishPeers(connectedAt', connection')
      /\ UNCHANGED <<wire, link, lastStatusByPeer, unsent, jumped>>
  BY DEF Connect, Disconnect, clientVars
<1> DEFINE m == PeersUpdate(connectedAt', connection')
<1>3. m \in Message /\ (line' = line \/ line' = Append(line, m))
  BY <1>1, <1>2, Published DEF Base
<1> SUFFICES ASSUME link', NEW p \in Peers \ (unsent' \cup jumped'), statuses'[p] # NoStatus
             PROVE  StatusKept(p)'
  BY DEF StatusOnTheWay, StatusKept
<1>4. statuses'[p] = statuses[p] /\ connectedAt'[p] # Never
  <2>1. connectedAt'[p] # Never
    BY <1>1 DEF Base, Tables
  <2>2. statuses'[p] = statuses[p]
    <3>1. CASE Connect(r)
      BY <3>1 DEF Connect
    <3>2. CASE Disconnect(r)
      <4>1. statuses' = [statuses EXCEPT ![r] = NoStatus] /\ statuses \in [Peers -> 0 .. MaxStatuses]
        BY <3>2 DEF Disconnect, DropStatus, Base, Types
      <4> QED
        BY <4>1
    <3> QED
      BY <3>1, <3>2
  <2> QED
    BY <2>1, <2>2
<1>5. StatusKept(p)
  BY <1>2, <1>4 DEF StatusOnTheWay, StatusKept
<1>6. statuses[p] \in 1 .. MaxStatuses
  BY <1>4, Bounds DEF Base, Types, NoStatus
<1> DEFINE C == Setting(p, statuses[p])
           H == Spoiling(p, statuses[p])
<1>7. m \notin H
  BY <1>1, <1>4, <1>6, AboutStatus
<1>8. line \in Seq(Message)
  BY DEF Base, Types
<1> HIDE DEF m, C, H
<1>9. /\ InFlight(line, wire, C, H) => InFlight(line', wire', C, H)
      /\ Gone(line, wire, H) => Gone(line', wire', H)
  BY <1>2, <1>3, <1>7, <1>8, InFlightAppend
<1> QED
  BY <1>2, <1>4, <1>5, <1>9 DEF StatusKept, C, H

\* Another peer's status.
LEMMA OtherStatus ==
  ASSUME Base, NEW r \in Peers, NEW u \in 1 .. MaxStatuses, Relay(r, u),
         NEW p \in Peers, p # r, NEW v \in 1 .. MaxStatuses
  PROVE  /\ InFlight(line, wire, Setting(p, v), Spoiling(p, v)) =>
               InFlight(line', wire, Setting(p, v), Spoiling(p, v))
         /\ Gone(line, wire, Spoiling(p, v)) => Gone(line', wire, Spoiling(p, v))
<1> DEFINE C == Setting(p, v)
           H == Spoiling(p, v)
           m == StatusUpdate(r, u)
<1>1. m \in Message /\ m \notin H
  BY AboutStatus, MessageKinds
<1>2. \A i \in Waiting(r) : line[i] \notin C
  BY AboutStatus DEF Waiting
<1> HIDE DEF C, H
<1> SUFFICES /\ InFlight(line, wire, C, H) => InFlight(line', wire, C, H)
             /\ Gone(line, wire, H) => Gone(line', wire, H)
  BY DEF C, H
<1>3. CASE UNCHANGED line
  BY <1>3
<1>4. CASE line' = Append(line, m)
  <2>1. line \in Seq(Message)
    BY DEF Base, Types
  <2> HIDE DEF m
  <2> QED
    BY <1>1, <1>4, <2>1, InFlightAppend
<1>5. CASE Conflated(r, u)
  <2>1. PICK i \in Waiting(r) : line' = [line EXCEPT ![i] = m]
    BY <1>5 DEF Conflated
  <2>2. /\ DOMAIN line' = DOMAIN line /\ i \in DOMAIN line /\ line'[i] = m
        /\ \A k \in DOMAIN line : k # i => line'[k] = line[k]
    BY <2>1, WaitsReplaced DEF Base
  <2> HIDE DEF m
  <2> QED
    BY <1>1, <1>2, <2>1, <2>2, InFlightReplaced
<1> QED
  BY <1>3, <1>4, <1>5 DEF Relay

\* The peer's own status is the last message about it in the outbox, unless it
\* did not fit or was conflated past the news that the peer had left.
LEMMA OwnStatus ==
  ASSUME Base, NEW p \in Peers, NEW v \in 1 .. MaxStatuses, Relay(p, v),
         p \notin unsent', p \notin jumped'
  PROVE  InFlight(line', wire, Setting(p, v), Spoiling(p, v))
<1> DEFINE C == Setting(p, v)
           H == Spoiling(p, v)
           m == StatusUpdate(p, v)
<1>1. m \in Message /\ m \in C
  BY AboutStatus, MessageKinds
<1>2. line \in Seq(Message) /\ DOMAIN line \subseteq Nat
  BY AppendOf DEF Base, Types
<1>3. CASE line' = Append(line, m)
  <2> HIDE DEF m, C, H
  <2>1. InFlight(line', wire, C, H)
    BY <1>1, <1>2, <1>3, InFlightAppend
  <2> QED
    BY <2>1 DEF C, H
<1>4. CASE Conflated(p, v)
  <2>1. PICK i \in Waiting(p) :
            /\ line' = [line EXCEPT ![i] = m]
            /\ jumped' = IF \E j \in i + 1 .. Len(line) :
                              line[j].type = "peers.update" /\ line[j].at[p] = Never
                         THEN jumped \cup {p} ELSE jumped \ {p}
    BY <1>4 DEF Conflated
  <2>2. /\ DOMAIN line' = DOMAIN line /\ i \in DOMAIN line /\ line'[i] = m
        /\ \A k \in DOMAIN line : k # i => line'[k] = line[k]
    BY <2>1, WaitsReplaced DEF Base
  <2>3. \A j \in i + 1 .. Len(line) : ~(line[j].type = "peers.update" /\ line[j].at[p] = Never)
    BY <2>1
  <2>4. ASSUME NEW j \in DOMAIN line', j > i PROVE line'[j] \notin H
    <3>1. j \in DOMAIN line /\ line'[j] = line[j] /\ j \in i + 1 .. Len(line)
      BY <1>2, <2>2, <2>4, LenProperties
    <3>2. ~(line[j].type = "status.update" /\ line[j].from = p)
      BY <1>2, <2>1, <2>4, <3>1 DEF Base, Waits, Waiting
    <3>3. line[j].type # "status.snapshot"
      BY <1>2, <2>1, <2>2, <2>4, <3>1 DEF Base, Waits, Waiting
    <3> QED
      BY <2>3, <3>1, <3>2, <3>3 DEF Spoiling
  <2> HIDE DEF m, C, H
  <2>5. Lasts(line', C, H)
    BY <1>1, <2>2, <2>4 DEF Lasts
  <2> QED
    BY <2>5 DEF InFlight, C, H
<1> QED
  BY <1>3, <1>4 DEF Relay

LEMMA RelayMarks ==
  ASSUME NEW r, NEW u, Relay(r, u), NEW p, p # r, p \notin unsent', p \notin jumped'
  PROVE  p \notin unsent /\ p \notin jumped
BY DEF Relay, Conflated

LEMMA StatusStatus ==
  ASSUME Base, StatusOnTheWay, NEW r \in Peers, Status(r)
  PROVE  StatusOnTheWay'
<1>1. /\ posted < MaxStatuses
      /\ statuses' = [statuses EXCEPT ![r] = posted + 1]
      /\ link => Relay(r, posted + 1)
      /\ UNCHANGED <<wire, link, lastStatusByPeer>>
  BY DEF Status, clientVars
<1>2. posted + 1 \in 1 .. MaxStatuses /\ statuses \in [Peers -> 0 .. MaxStatuses]
  BY <1>1, Bounds DEF Base, Types
<1> SUFFICES ASSUME link', NEW p \in Peers \ (unsent' \cup jumped'), statuses'[p] # NoStatus
             PROVE  StatusKept(p)'
  BY DEF StatusOnTheWay, StatusKept
<1>3. CASE p = r
  <2>1. statuses'[p] = posted + 1
    BY <1>1, <1>2, <1>3
  <2>2. InFlight(line', wire, Setting(p, posted + 1), Spoiling(p, posted + 1))
    BY <1>1, <1>2, <1>3, OwnStatus
  <2> QED
    BY <1>1, <2>1, <2>2 DEF StatusKept
<1>4. CASE p # r
  <2>1. statuses'[p] = statuses[p]
    BY <1>1, <1>2, <1>4
  <2>2. statuses[p] \in 1 .. MaxStatuses
    BY <1>2, <2>1, Bounds DEF NoStatus
  <2>3. StatusKept(p)
    <3>1. p \notin unsent /\ p \notin jumped
      BY <1>1, <1>4, RelayMarks
    <3> QED
      BY <1>1, <2>1, <3>1 DEF StatusOnTheWay, StatusKept
  <2> DEFINE C == Setting(p, statuses[p])
             H == Spoiling(p, statuses[p])
  <2>4. /\ InFlight(line, wire, C, H) => InFlight(line', wire, C, H)
        /\ Gone(line, wire, H) => Gone(line', wire, H)
    BY <1>1, <1>2, <1>4, <2>2, OtherStatus
  <2> QED
    BY <1>1, <2>1, <2>3, <2>4 DEF StatusKept
<1> QED
  BY <1>3, <1>4

LEMMA LinkUpStatus == ASSUME Base, LinkUp PROVE StatusOnTheWay'
<1> DEFINE m == PeersUpdate(connectedAt, connection)
           n == Snapshot(statuses)
<1>1. line' = <<m, n>> /\ UNCHANGED <<statuses, wire>> /\ statuses \in [Peers -> 0 .. MaxStatuses]
  BY DEF LinkUp, hubVars, Base, Types
<1> SUFFICES ASSUME NEW p \in Peers, statuses[p] # NoStatus
             PROVE  InFlight(line', wire, Setting(p, statuses[p]), Spoiling(p, statuses[p]))
  BY <1>1 DEF StatusOnTheWay, StatusKept
<1>2. statuses[p] \in 1 .. MaxStatuses
  BY <1>1, Bounds DEF NoStatus
<1>3. n \in Setting(p, statuses[p])
  BY <1>1, <1>2, AboutStatus
<1> HIDE DEF m, n
<1>4. DOMAIN line' = {1, 2} /\ line'[2] = n
  BY <1>1
<1>5. Lasts(line', Setting(p, statuses[p]), Spoiling(p, statuses[p]))
  BY <1>3, <1>4 DEF Lasts
<1> QED
  BY <1>5 DEF InFlight

LEMMA HubWritesStatus == ASSUME Base, StatusOnTheWay, HubWrites PROVE StatusOnTheWay'
<1>1. /\ line # <<>> /\ line' = Tail(line) /\ wire' = Append(wire, Head(line))
      /\ UNCHANGED <<statuses, link, lastStatusByPeer, unsent, jumped>>
  BY DEF HubWrites, hubVars, clientVars
<1>2. line \in Seq(Message) /\ wire \in Seq(Message)
  BY DEF Base, Types
<1> SUFFICES ASSUME link', NEW p \in Peers \ (unsent' \cup jumped'), statuses'[p] # NoStatus
             PROVE  StatusKept(p)'
  BY DEF StatusOnTheWay, StatusKept
<1>3. StatusKept(p)
  BY <1>1 DEF StatusOnTheWay, StatusKept
<1> DEFINE C == Setting(p, statuses[p])
           H == Spoiling(p, statuses[p])
<1> HIDE DEF C, H
<1>4. /\ InFlight(line, wire, C, H) => InFlight(line', wire', C, H)
      /\ Gone(line, wire, H) => Gone(line', wire', H)
  BY <1>1, <1>2, InFlightWritten
<1> QED
  BY <1>1, <1>3, <1>4 DEF StatusKept, C, H

LEMMA ReceivesStatus == ASSUME Base, StatusOnTheWay, Receives PROVE StatusOnTheWay'
<1> DEFINE m == Head(wire)
<1>1. /\ wire # <<>> /\ wire' = Tail(wire)
      /\ \/ m.type = "peers.update" /\ OnPeersUpdate(m)
         \/ m.type = "status.update" /\ OnStatusUpdate(m)
         \/ m.type = "status.snapshot" /\ OnSnapshot(m)
      /\ UNCHANGED <<statuses, line, link, unsent, jumped>>
  BY DEF Receives, hubVars
<1>2. /\ wire \in Seq(Message) /\ m \in Message
      /\ statuses \in [Peers -> 0 .. MaxStatuses]
      /\ lastStatusByPeer \in [Peers -> 0 .. MaxStatuses]
  BY <1>1, TailOf DEF Base, Types
<1> SUFFICES ASSUME link', NEW p \in Peers \ (unsent' \cup jumped'), statuses'[p] # NoStatus
             PROVE  StatusKept(p)'
  BY DEF StatusOnTheWay, StatusKept
<1>3. StatusKept(p) /\ statuses[p] # NoStatus
  BY <1>1 DEF StatusOnTheWay, StatusKept
<1> DEFINE v == statuses[p]
           C == Setting(p, v)
           H == Spoiling(p, v)
<1>4. /\ InFlight(line, wire, C, H) =>
            InFlight(line, wire', C, H) \/ (Gone(line, wire', H) /\ m \in C)
      /\ Gone(line, wire, H) => Gone(line, wire', H) /\ m \notin H
  <2> HIDE DEF C, H
  <2> QED
    BY <1>1, <1>2, InFlightReceived
<1> HIDE DEF m
<1>5. m \in C => lastStatusByPeer'[p] = v
  <2> SUFFICES ASSUME m \in C PROVE lastStatusByPeer'[p] = v
    OBVIOUS
  <2>1. CASE m.type = "status.update" /\ m.from = p /\ m.status = v
    BY <1>1, <1>2, <2>1 DEF OnStatusUpdate
  <2>2. CASE m.type = "status.snapshot" /\ m.of[p] = v
    BY <1>1, <1>3, <2>2 DEF OnSnapshot
  <2> QED
    BY <2>1, <2>2 DEF Setting
<1>6. m \notin H /\ lastStatusByPeer[p] = v => lastStatusByPeer'[p] = v
  <2> SUFFICES ASSUME m \notin H, lastStatusByPeer[p] = v PROVE lastStatusByPeer'[p] = v
    OBVIOUS
  <2>1. CASE m.type = "peers.update"
    <3>1. m.at[p] # Never
      BY <1>2, <2>1 DEF Spoiling
    <3> QED
      BY <1>1, <2>1, <3>1 DEF OnPeersUpdate
  <2>2. CASE m.type = "status.update"
    <3>1. m.from = p => m.status = v
      BY <1>2, <2>2 DEF Spoiling
    <3> QED
      BY <1>1, <1>2, <2>2, <3>1 DEF OnStatusUpdate
  <2>3. CASE m.type = "status.snapshot"
    <3>1. m.of[p] \in {NoStatus, v}
      BY <1>2, <2>3 DEF Spoiling
    <3> QED
      BY <1>1, <2>3, <3>1 DEF OnSnapshot
  <2> QED
    BY <1>1, <2>1, <2>2, <2>3
<1> HIDE DEF C, H
<1>7. \/ InFlight(line', wire', C, H)
      \/ Gone(line', wire', H) /\ lastStatusByPeer'[p] = v
  <2>1. InFlight(line, wire, C, H) \/ (Gone(line, wire, H) /\ lastStatusByPeer[p] = v)
    BY <1>3 DEF StatusKept, C, H
  <2> QED
    BY <1>1, <1>4, <1>5, <1>6, <2>1
<1> QED
  BY <1>1, <1>7 DEF StatusKept, C, H

\* Whatever happens, the last status of a peer reaches the client, but for the
\* two cases the marks tell.
LEMMA StatusOnTheWayHolds == Spec => []StatusOnTheWay
<1>1. Init => StatusOnTheWay
  BY DEF Init, StatusOnTheWay
<1>2. Base /\ StatusOnTheWay /\ [Next]_vars => StatusOnTheWay'
  <2> SUFFICES ASSUME Base, StatusOnTheWay, [Next]_vars PROVE StatusOnTheWay'
    OBVIOUS
  <2>1. ASSUME LinkDown PROVE StatusOnTheWay'
    BY <2>1 DEF LinkDown, StatusOnTheWay
  <2>2. ASSUME ClockTicks \/ UNCHANGED vars PROVE StatusOnTheWay'
    <3>1. UNCHANGED <<statuses, line, wire, link, lastStatusByPeer, unsent, jumped>>
      BY <2>2 DEF ClockTicks, vars, hubVars, clientVars
    <3> QED
      BY <3>1 DEF StatusOnTheWay, StatusKept
  <2> QED
    BY <2>1, <2>2, ConnectStatus, StatusStatus, LinkUpStatus, HubWritesStatus, ReceivesStatus
    DEF Next
<1> QED
  BY <1>1, <1>2, BaseHolds, PTL DEF Spec

\* Once nothing is on its way, the client has the last status of each peer,
\* unless it did not fit, or was conflated into a message that stands before
\* the news that its peer had left.
THEOREM StatusLearned == Spec => []StatusConverges
<1>1. StatusOnTheWay => StatusConverges
  <2> SUFFICES ASSUME StatusOnTheWay, CaughtUp, NEW p \in Peers \ (unsent \cup jumped),
                      statuses[p] # NoStatus
               PROVE  lastStatusByPeer[p] = statuses[p]
    BY DEF StatusConverges
  <2> DEFINE C == Setting(p, statuses[p])
             H == Spoiling(p, statuses[p])
  <2>1. InFlight(line, wire, C, H) \/ lastStatusByPeer[p] = statuses[p]
    BY DEF StatusOnTheWay, StatusKept, CaughtUp
  <2> HIDE DEF C, H
  <2>2. ~InFlight(line, wire, C, H)
    BY NothingWaits DEF CaughtUp, InFlight
  <2> QED
    BY <2>1, <2>2
<1> QED
  BY <1>1, StatusOnTheWayHolds, PTL

-----------------------------------------------------------------------------
(***************************************************************************)
(* Which connection the application was told of.                           *)
(***************************************************************************)
\* What is seen of p, spelled out.
LEMMA SeenIs ==
  /\ \A p : /\ <<peers[p], noticed[p]>> \in Seen(p)
            /\ <<previousAt[p], connection[p]>> \in Seen(p)
            /\ \A m \in Sent \cap Updates : <<m.at[p], m.who[p]>> \in Seen(p)
  /\ \A p : \A x \in Seen(p) :
        \/ x = <<peers[p], noticed[p]>> \/ x = <<previousAt[p], connection[p]>>
        \/ \E m \in Sent \cap Updates : x = <<m.at[p], m.who[p]>>
BY DEF Seen

\* Less is seen, or of no connection.
LEMMA HonestWithin ==
  ASSUME NEW S, NEW last \in Time \cup {Never}, Honest(S, last),
         NEW R, \A x \in R : x \in S \/ x[1] = Never
  PROVE  Honest(R, last)
<1>1. Never <= last
  BY Bounds DEF Time, Never
<1> QED
  BY <1>1 DEF Honest

\* A step that sends and tells of p only what is so, or that it is absent.
LEMMA PairsKept ==
  ASSUME Base, NEW p \in Peers, Honest(Seen(p), previousAt[p]),
         previousAt'[p] = previousAt[p], connection'[p] = connection[p],
         \A m \in Sent' \cap Updates :
             m \in Sent \/ m.at[p] = Never \/ (m.at[p] = previousAt[p] /\ m.who[p] = connection[p]),
         <<peers'[p], noticed'[p]>> \in Seen(p) \/ peers'[p] = Never
  PROVE  Honest(Seen(p)', previousAt'[p])
<1>1. ASSUME NEW x \in Seen(p)' PROVE x \in Seen(p) \/ x[1] = Never
  <2>1. \/ x = <<peers'[p], noticed'[p]>> \/ x = <<previousAt'[p], connection'[p]>>
        \/ \E m \in Sent' \cap Updates : x = <<m.at[p], m.who[p]>>
    BY DEF Seen
  <2>2. CASE x = <<peers'[p], noticed'[p]>>
    BY <2>2
  <2>3. CASE x = <<previousAt'[p], connection'[p]>>
    BY <2>3, SeenIs
  <2>4. CASE \E m \in Sent' \cap Updates : x = <<m.at[p], m.who[p]>>
    <3>1. PICK m \in Sent' \cap Updates : x = <<m.at[p], m.who[p]>>
      BY <2>4
    <3>2. m \in Sent \/ m.at[p] = Never \/ (m.at[p] = previousAt[p] /\ m.who[p] = connection[p])
      BY <3>1
    <3>3. CASE m \in Sent
      BY <3>1, <3>3, SeenIs
    <3>4. CASE m.at[p] = Never
      BY <3>1, <3>4
    <3>5. CASE m.at[p] = previousAt[p] /\ m.who[p] = connection[p]
      BY <3>1, <3>5, SeenIs
    <3> QED
      BY <3>2, <3>3, <3>4, <3>5
  <2> QED
    BY <2>1, <2>2, <2>3, <2>4
<1>2. previousAt[p] \in Time \cup {Never}
  BY DEF Base, Types
<1> DEFINE S == Seen(p)
           R == Seen(p)'
<1>3. Honest(S, previousAt[p]) /\ \A x \in R : x \in S \/ x[1] = Never
  BY <1>1
<1> HIDE DEF S, R
<1>4. Honest(R, previousAt[p])
  BY <1>2, <1>3, HonestWithin
<1> QED
  BY <1>4 DEF R

\* The messages of a queue with one more.
LEMMA MembersOf ==
  ASSUME NEW T, NEW q \in Seq(T), NEW m \in T
  PROVE  \A i \in DOMAIN Append(q, m) :
             Append(q, m)[i] = m \/ \E j \in DOMAIN q : Append(q, m)[i] = q[j]
<1> DEFINE a == Append(q, m)
<1>1. PICK n \in Nat : /\ DOMAIN a = DOMAIN q \cup {n} /\ a[n] = m
                       /\ \A i \in DOMAIN q : a[i] = q[i] /\ i < n
  BY AppendOf
<1> HIDE DEF a
<1>2. \A i \in DOMAIN a : a[i] = m \/ \E j \in DOMAIN q : a[i] = q[j]
  BY <1>1
<1> QED
  BY <1>2 DEF a

\* The messages that are on their way after a step.
LEMMA SentAfter ==
  ASSUME Base
  PROVE  /\ \A m \in Message : line' = Append(line, m) /\ UNCHANGED wire => Sent' \subseteq Sent \cup {m}
         /\ \A i \in DOMAIN line : \A m : line' = [line EXCEPT ![i] = m] /\ UNCHANGED wire =>
                Sent' \subseteq Sent \cup {m}
         /\ line # <<>> /\ line' = Tail(line) /\ wire' = Append(wire, Head(line)) =>
                Sent' \subseteq Sent
         /\ wire # <<>> /\ wire' = Tail(wire) /\ UNCHANGED line =>
                Sent' \subseteq Sent /\ Head(wire) \in Sent
         /\ UNCHANGED <<line, wire>> => Sent' = Sent
         /\ \A m, n : line' = <<m, n>> /\ UNCHANGED wire => Sent' \subseteq Sent \cup {m, n}
         /\ line' = <<>> /\ wire' = <<>> => Sent' = {}
<1> USE DEF Sent
<1>0. line \in Seq(Message) /\ wire \in Seq(Message)
  BY DEF Base, Types
<1>1. ASSUME NEW m \in Message, line' = Append(line, m), UNCHANGED wire
      PROVE  Sent' \subseteq Sent \cup {m}
  <2>1. \A i \in DOMAIN line' : line'[i] = m \/ \E j \in DOMAIN line : line'[i] = line[j]
    <3>1. line \in Seq(Message)
      BY <1>0
    <3>2. \A i \in DOMAIN Append(line, m) :
              Append(line, m)[i] = m \/ \E j \in DOMAIN line : Append(line, m)[i] = line[j]
      BY <3>1, MembersOf
    <3> QED
      BY <1>1, <3>2
  <2> QED
    BY <1>1, <2>1
<1>2. ASSUME NEW i \in DOMAIN line, NEW m, line' = [line EXCEPT ![i] = m], UNCHANGED wire
      PROVE  Sent' \subseteq Sent \cup {m}
  <2>1. DOMAIN line' = DOMAIN line /\ \A k \in DOMAIN line : line'[k] = line[k] \/ line'[k] = m
    BY <1>0, <1>2
  <2> QED
    BY <1>2, <2>1
<1>3. ASSUME line # <<>>, line' = Tail(line), wire' = Append(wire, Head(line))
      PROVE  Sent' \subseteq Sent
  <2>1. /\ Head(line) \in Message /\ 1 \in DOMAIN line /\ Head(line) = line[1]
        /\ \A i \in DOMAIN line' : i + 1 \in DOMAIN line /\ line'[i] = line[i + 1]
    BY <1>0, <1>3, TailOf
  <2> DEFINE m == Head(line)
  <2>2. \A i \in DOMAIN wire' : wire'[i] = m \/ \E j \in DOMAIN wire : wire'[i] = wire[j]
    <3>1. wire \in Seq(Message) /\ m \in Message /\ wire' = Append(wire, m)
      BY <1>0, <1>3, <2>1
    <3> HIDE DEF m
    <3>2. \A i \in DOMAIN Append(wire, m) :
              Append(wire, m)[i] = m \/ \E j \in DOMAIN wire : Append(wire, m)[i] = wire[j]
      BY <3>1, MembersOf
    <3> QED
      BY <3>1, <3>2
  <2> QED
    BY <2>1, <2>2
<1>4. ASSUME wire # <<>>, wire' = Tail(wire), UNCHANGED line
      PROVE  Sent' \subseteq Sent /\ Head(wire) \in Sent
  <2>1. /\ 1 \in DOMAIN wire /\ Head(wire) = wire[1]
        /\ \A i \in DOMAIN wire' : i + 1 \in DOMAIN wire /\ wire'[i] = wire[i + 1]
    BY <1>0, <1>4, TailOf
  <2> QED
    BY <1>4, <2>1
<1>5. ASSUME NEW m, NEW n, line' = <<m, n>>, UNCHANGED wire PROVE Sent' \subseteq Sent \cup {m, n}
  <2>1. DOMAIN line' = {1, 2} /\ line'[1] = m /\ line'[2] = n
    BY <1>5
  <2> QED
    BY <1>5, <2>1
<1>6. UNCHANGED <<line, wire>> => Sent' = Sent
  OBVIOUS
<1>7. line' = <<>> /\ wire' = <<>> => Sent' = {}
  OBVIOUS
<1> QED
  BY <1>1, <1>2, <1>3, <1>4, <1>5, <1>6, <1>7 DEF Sent

\* What the hub lists of a peer is its last connection.
LEMMA Listed ==
  ASSUME Base, NEW p \in Peers
  PROVE  /\ connectedAt[p] \in {Never, previousAt[p]}
         /\ previousAt[p] \in Time \cup {Never} /\ now \in Time /\ previousAt[p] <= now
         /\ connection[p] \in 0 .. MaxConnects
BY DEF Base, Types, Tables

\* The times that are seen are numbers.
LEMMA SeenNumbers == ASSUME Base, NEW p \in Peers PROVE \A x \in Seen(p) : x[1] \in Int
<1>1. \A t \in Time \cup {Never} : t \in Int
  BY Bounds DEF Time, Never
<1>2. peers[p] \in Time \cup {Never} /\ previousAt[p] \in Time \cup {Never}
  BY DEF Base, Types
<1>3. \A m \in Updates : m.at[p] \in Time \cup {Never}
  BY MessageKinds DEF Updates
<1> HIDE DEF Time, Never
<1>4. ASSUME NEW x \in Seen(p) PROVE x[1] \in Int
  <2>1. x[1] \in Time \cup {Never}
    BY <1>2, <1>3, SeenIs
  <2> QED
    BY <1>1, <2>1
<1> QED
  BY <1>4

\* The first half of Distinct changes only when the client hears.
LEMMA DistinctIf ==
  ASSUME Distinct, UNCHANGED <<peers, noticed>>,
         \A p \in Peers : p \notin sameInstant' => Honest(Seen(p)', previousAt'[p])
  PROVE  Distinct'
BY DEF Distinct

LEMMA ConnectDistinct == ASSUME Base, Distinct, NEW r \in Peers, Connect(r) PROVE Distinct'
<1>1. /\ connectedAt' = [connectedAt EXCEPT ![r] = now]
      /\ connection' = [connection EXCEPT ![r] = @ + 1]
      /\ previousAt' = [previousAt EXCEPT ![r] = now]
      /\ sameInstant' = IF previousAt[r] = now THEN sameInstant \cup {r} ELSE sameInstant
      /\ publishPeers(connectedAt', connection')
      /\ UNCHANGED <<wire, peers, noticed>>
  BY DEF Connect, clientVars
<1>2. /\ connectedAt' \in [Peers -> Time \cup {Never}]
      /\ connection' \in [Peers -> 0 .. MaxConnects]
      /\ connectedAt \in [Peers -> Time \cup {Never}] /\ previousAt \in [Peers -> Time \cup {Never}]
      /\ connection \in [Peers -> 0 .. MaxConnects]
  <2>1. Base'
    BY ConnectBase
  <2> QED
    BY <2>1 DEF Base, Types
<1> DEFINE m == PeersUpdate(connectedAt', connection')
<1>3. /\ m \in Message /\ m.at = connectedAt' /\ m.who = connection'
      /\ line' = line \/ line' = Append(line, m)
  <2>1. m \in Message /\ m.at = connectedAt' /\ m.who = connection'
    BY <1>2, MessageKinds
  <2>2. line' = line \/ line' = Append(line, m)
    BY <1>1 DEF publishPeers
  <2> QED
    BY <2>1, <2>2
<1> HIDE DEF m
<1>4. Sent' \subseteq Sent \cup {m}
  BY <1>1, <1>3, SentAfter
<1>5. ASSUME NEW p \in Peers, p \notin sameInstant', p # r
      PROVE  Honest(Seen(p)', previousAt'[p])
  <2>1. /\ previousAt'[p] = previousAt[p] /\ connection'[p] = connection[p]
        /\ connectedAt'[p] = connectedAt[p]
    BY <1>1, <1>2, <1>5
  <2>2. Honest(Seen(p), previousAt[p])
    BY <1>1, <1>5 DEF Distinct
  <2>3. m.at[p] = Never \/ (m.at[p] = previousAt[p] /\ m.who[p] = connection[p])
    BY <1>3, <2>1, Listed
  <2>4. \A k \in Sent' \cap Updates :
            k \in Sent \/ k.at[p] = Never \/ (k.at[p] = previousAt[p] /\ k.who[p] = connection[p])
    BY <1>4, <2>3
  <2>5. <<peers'[p], noticed'[p]>> \in Seen(p)
    BY <1>1, SeenIs
  <2> QED
    BY <2>1, <2>2, <2>4, <2>5, PairsKept
<1>6. ASSUME r \notin sameInstant' PROVE Honest(Seen(r)', previousAt'[r])
  <2>1. /\ previousAt'[r] = now /\ connection'[r] = connection[r] + 1 /\ connectedAt'[r] = now
        /\ previousAt[r] # now /\ r \notin sameInstant
    BY <1>1, <1>2, <1>6
  <2>2. previousAt[r] < now /\ previousAt[r] \in Int /\ now \in Int
    <3>1. previousAt[r] \in Time \cup {Never} /\ now \in Time /\ previousAt[r] <= now
      BY Listed
    <3> QED
      BY <2>1, <3>1, Bounds DEF Time, Never
  <2>3. Honest(Seen(r), previousAt[r])
    BY <2>1 DEF Distinct
  <2> DEFINE n == <<now, connection[r] + 1>>
  <2>4. ASSUME NEW x \in Seen(r)' PROVE x \in Seen(r) \/ x = n
    <3>1. \/ x = <<peers'[r], noticed'[r]>> \/ x = <<previousAt'[r], connection'[r]>>
          \/ \E k \in Sent' \cap Updates : x = <<k.at[r], k.who[r]>>
      BY DEF Seen
    <3>2. CASE x = <<peers'[r], noticed'[r]>>
      BY <1>1, <3>2, SeenIs
    <3>3. CASE x = <<previousAt'[r], connection'[r]>>
      BY <2>1, <3>3
    <3>4. CASE \E k \in Sent' \cap Updates : x = <<k.at[r], k.who[r]>>
      <4>1. PICK k \in Sent' \cap Updates : x = <<k.at[r], k.who[r]>>
        BY <3>4
      <4>2. CASE k \in Sent
        BY <4>1, <4>2, SeenIs
      <4>3. CASE k = m
        BY <1>3, <2>1, <4>1, <4>3
      <4> QED
        BY <1>4, <4>1, <4>2, <4>3
    <3> QED
      BY <3>1, <3>2, <3>3, <3>4
  <2>5. n[1] = now
    OBVIOUS
  <2> DEFINE S == Seen(r)
             R == Seen(r)'
             last == previousAt[r]
  <2>6. Honest(S, last) /\ last < now /\ last \in Int /\ \A x \in R : x \in S \/ x = n
    BY <2>2, <2>3, <2>4
  <2>7. \A x \in S : x[1] \in Int
    BY SeenNumbers
  <2> HIDE DEF S, R, n, last
  <2>8. now \in Int
    BY <2>2
  <2>9. \A x \in S : x[1] <= last
    BY <2>6 DEF Honest
  <2>10. \A x \in S : x[1] # now
    BY <2>6, <2>8, <2>9, <2>7
  <2>11. \A x \in R : x[1] <= now
    BY <2>5, <2>6, <2>8, <2>9, <2>7
  <2>12. \A x, y \in R : x[1] = y[1] /\ x[1] # Never => x[2] = y[2]
    BY <2>5, <2>6, <2>10 DEF Honest
  <2>13. Honest(R, now)
    BY <2>11, <2>12 DEF Honest
  <2> QED
    BY <2>1, <2>13 DEF R
<1> QED
  BY <1>1, <1>5, <1>6, DistinctIf

\* A step of the hub that leaves the connections as they are.
LEMMA NoConnection ==
  ASSUME Base, Distinct, UNCHANGED <<peers, noticed, previousAt, connection, sameInstant>>,
         \A m \in Sent' \cap Updates : \A p \in Peers :
             m \in Sent \/ m.at[p] = Never \/ (m.at[p] = previousAt[p] /\ m.who[p] = connection[p])
  PROVE  Distinct'
<1>1. ASSUME NEW p \in Peers, p \notin sameInstant' PROVE Honest(Seen(p)', previousAt'[p])
  <2>1. Honest(Seen(p), previousAt[p])
    BY <1>1 DEF Distinct
  <2>2. <<peers'[p], noticed'[p]>> \in Seen(p)
    BY SeenIs
  <2>3. previousAt'[p] = previousAt[p] /\ connection'[p] = connection[p]
    OBVIOUS
  <2>4. \A m \in Sent' \cap Updates :
            m \in Sent \/ m.at[p] = Never \/ (m.at[p] = previousAt[p] /\ m.who[p] = connection[p])
    OBVIOUS
  <2> QED
    BY <2>1, <2>2, <2>3, <2>4, PairsKept
<1> QED
  BY <1>1, DistinctIf

LEMMA DisconnectDistinct == ASSUME Base, Distinct, NEW r \in Peers, Disconnect(r) PROVE Distinct'
<1>1. /\ connectedAt' = [connectedAt EXCEPT ![r] = Never]
      /\ publishPeers(connectedAt', connection)
      /\ UNCHANGED <<wire, peers, noticed, previousAt, connection, sameInstant>>
  BY DEF Disconnect, clientVars
<1>2. /\ connectedAt' \in [Peers -> Time \cup {Never}]
      /\ connection \in [Peers -> 0 .. MaxConnects]
      /\ connectedAt \in [Peers -> Time \cup {Never}]
  <2>1. Base'
    BY DisconnectBase
  <2> QED
    BY <2>1 DEF Base, Types
<1> DEFINE m == PeersUpdate(connectedAt', connection)
<1>3. /\ m \in Message /\ m.at = connectedAt' /\ m.who = connection
      /\ line' = line \/ line' = Append(line, m)
  <2>1. m \in Message /\ m.at = connectedAt' /\ m.who = connection
    BY <1>2, MessageKinds
  <2>2. line' = line \/ line' = Append(line, m)
    BY <1>1 DEF publishPeers
  <2> QED
    BY <2>1, <2>2
<1> HIDE DEF m
<1>4. Sent' \subseteq Sent \cup {m}
  BY <1>1, <1>3, SentAfter
<1>5. ASSUME NEW p \in Peers
      PROVE  m.at[p] = Never \/ (m.at[p] = previousAt[p] /\ m.who[p] = connection[p])
  <2>1. connectedAt'[p] \in {Never, connectedAt[p]}
    BY <1>1, <1>2
  <2> QED
    BY <1>3, <2>1, Listed
<1> QED
  BY <1>1, <1>4, <1>5, NoConnection

LEMMA StatusDistinct == ASSUME Base, Distinct, NEW r \in Peers, Status(r) PROVE Distinct'
<1>1. /\ posted < MaxStatuses /\ (Relay(r, posted + 1) \/ UNCHANGED line)
      /\ UNCHANGED <<wire, peers, noticed, previousAt, connection, sameInstant>>
  BY DEF Status, clientVars
<1> DEFINE m == StatusUpdate(r, posted + 1)
<1>2. m \in Message /\ m \notin Updates
  <2>1. posted + 1 \in 1 .. MaxStatuses
    BY <1>1, Bounds DEF Base, Types
  <2>2. m \in Message /\ m.type = "status.update"
    BY <2>1, MessageKinds
  <2> QED
    BY <2>2, NoUpdate
<1>3. Sent' \subseteq Sent \cup {m}
  <2>1. CASE UNCHANGED line
    BY <1>1, <2>1, SentAfter
  <2>2. CASE line' = Append(line, m)
    BY <1>1, <1>2, <2>2, SentAfter
  <2>3. CASE Conflated(r, posted + 1)
    <3>1. PICK i \in DOMAIN line : line' = [line EXCEPT ![i] = m]
      BY <2>3 DEF Conflated, Waiting
    <3> HIDE DEF m
    <3>2. line' = [line EXCEPT ![i] = m] /\ UNCHANGED wire => Sent' \subseteq Sent \cup {m}
      BY SentAfter
    <3> QED
      BY <1>1, <3>1, <3>2
  <2> QED
    BY <1>1, <2>1, <2>2, <2>3 DEF Relay
<1> HIDE DEF m
<1> QED
  BY <1>1, <1>2, <1>3, NoConnection

LEMMA LinkUpDistinct == ASSUME Base, Distinct, LinkUp PROVE Distinct'
<1> DEFINE m == PeersUpdate(connectedAt, connection)
           n == Snapshot(statuses)
<1>1. /\ line' = <<m, n>>
      /\ UNCHANGED <<wire, peers, noticed, previousAt, connection, sameInstant>>
  BY DEF LinkUp, clientVars
<1>2. /\ connectedAt \in [Peers -> Time \cup {Never}] /\ connection \in [Peers -> 0 .. MaxConnects]
      /\ statuses \in [Peers -> 0 .. MaxStatuses]
  BY DEF Base, Types
<1>3. m.at = connectedAt /\ m.who = connection /\ n \notin Updates
  <2>1. m.at = connectedAt /\ m.who = connection /\ n \in Message /\ n.type = "status.snapshot"
    BY <1>2, MessageKinds
  <2> QED
    BY <2>1, NoUpdate
<1> HIDE DEF m, n
<1>4. Sent' \subseteq Sent \cup {m, n}
  BY <1>1, SentAfter
<1>5. ASSUME NEW p \in Peers
      PROVE  m.at[p] = Never \/ (m.at[p] = previousAt[p] /\ m.who[p] = connection[p])
  BY <1>3, Listed
<1> QED
  BY <1>1, <1>3, <1>4, <1>5, NoConnection

LEMMA ReceivesDistinct == ASSUME Base, Distinct, Receives PROVE Distinct'
<1> DEFINE m == Head(wire)
<1>1. /\ wire # <<>> /\ wire' = Tail(wire)
      /\ \/ m.type = "peers.update" /\ OnPeersUpdate(m)
         \/ m.type = "status.update" /\ OnStatusUpdate(m)
         \/ m.type = "status.snapshot" /\ OnSnapshot(m)
      /\ UNCHANGED <<line, previousAt, connection, sameInstant>>
  BY DEF Receives, hubVars
<1>2. Sent' \subseteq Sent /\ m \in Sent /\ m \in Message
  BY <1>1, SentAfter, TailOf DEF Base, Types
<1> HIDE DEF m
<1>3. CASE m.type = "peers.update" /\ OnPeersUpdate(m)
  <2>1. m \in Sent \cap Updates
    BY <1>2, <1>3, NoUpdate
  <2>2. ASSUME NEW p \in Peers
        PROVE  /\ peers'[p] = m.at[p]
               /\ noticed'[p] = IF m.at[p] = Never THEN 0
                                ELSE IF peers[p] # m.at[p] THEN m.who[p] ELSE noticed[p]
    BY <1>3 DEF OnPeersUpdate, Differs
  <2>3. ASSUME NEW p \in Peers, p \notin sameInstant'
        PROVE  Honest(Seen(p)', previousAt'[p])
    <3>1. Honest(Seen(p), previousAt[p])
      BY <1>1, <2>3 DEF Distinct
    <3>2. <<peers'[p], noticed'[p]>> \in Seen(p) \/ peers'[p] = Never
      <4>1. CASE peers[p] = m.at[p] /\ m.at[p] # Never
        BY <2>2, <4>1, SeenIs
      <4>2. CASE peers[p] # m.at[p] /\ m.at[p] # Never
        BY <2>1, <2>2, <4>2, SeenIs
      <4> QED
        BY <2>2, <4>1, <4>2
    <3>3. \A k \in Sent' \cap Updates :
              k \in Sent \/ k.at[p] = Never \/ (k.at[p] = previousAt[p] /\ k.who[p] = connection[p])
      BY <1>2
    <3>4. previousAt'[p] = previousAt[p] /\ connection'[p] = connection[p]
      BY <1>1
    <3> QED
      BY <3>1, <3>2, <3>3, <3>4, PairsKept
  <2>4. \A p \in Peers : peers'[p] = Never => noticed'[p] = 0
    BY <2>2
  <2> QED
    BY <2>3, <2>4 DEF Distinct
<1>4. CASE UNCHANGED <<peers, noticed>>
  BY <1>1, <1>2, <1>4, NoConnection
<1> QED
  BY <1>1, <1>3, <1>4 DEF OnStatusUpdate, OnSnapshot

LEMMA OthersDistinct ==
  ASSUME Base, Distinct, HubWrites \/ LinkDown \/ ClockTicks \/ UNCHANGED vars
  PROVE  Distinct'
<1>1. UNCHANGED <<peers, noticed, previousAt, connection, sameInstant>>
  BY DEF HubWrites, LinkDown, ClockTicks, vars, clientVars
<1>2. Sent' \subseteq Sent
  <2>1. CASE HubWrites
    BY <2>1, SentAfter DEF HubWrites
  <2>2. CASE LinkDown
    BY <2>2, SentAfter DEF LinkDown
  <2>3. CASE ClockTicks \/ UNCHANGED vars
    <3>1. UNCHANGED <<line, wire>>
      BY <2>3 DEF ClockTicks, vars
    <3> QED
      BY <3>1, SentAfter
  <2> QED
    BY <2>1, <2>2, <2>3
<1> QED
  BY <1>1, <1>2, NoConnection

\* As long as the clock tells a peer's connections apart, equal times are one
\* connection, at the hub, on the way and at the client.
LEMMA DistinctHolds == Spec => []Distinct
<1>1. Init => Distinct
  <2> SUFFICES ASSUME Init, NEW p \in Peers
               PROVE  peers[p] = Never /\ noticed[p] = 0 /\ Honest(Seen(p), previousAt[p])
    BY DEF Distinct
  <2>1. Sent = {}
    BY DEF Init, Sent
  <2>2. peers[p] = Never /\ noticed[p] = 0 /\ previousAt[p] = Never /\ connection[p] = 0
    BY DEF Init
  <2>3. Seen(p) = {<<Never, 0>>}
    BY <2>1, <2>2 DEF Seen
  <2> QED
    BY <2>2, <2>3 DEF Honest, Never
<1>2. Base /\ Distinct /\ [Next]_vars => Distinct'
  BY ConnectDistinct, DisconnectDistinct, StatusDistinct, LinkUpDistinct, ReceivesDistinct,
     OthersDistinct DEF Next
<1> QED
  BY <1>1, <1>2, BaseHolds, PTL DEF Spec

\* Through broken links, replacements and refused updates: once nothing is on
\* its way the client lists the peers the hub lists, and the application was
\* told of the very connection each of them has, unless the last update did
\* not fit; two connections at one clock reading pass for one.
THEOREM PeersLearned == Spec => []PeersConverge
<1>1. Base /\ PeersOnTheWay /\ Distinct => PeersConverge
  <2> SUFFICES ASSUME Base, PeersOnTheWay, Distinct, CaughtUp, ~stale PROVE
               /\ peers = connectedAt
               /\ \A p \in Peers \ sameInstant :
                     noticed[p] = IF connectedAt[p] = Never THEN 0 ELSE connection[p]
    BY DEF PeersConverge
  <2>1. peers = connectedAt
    <3> DEFINE C == Listing(connectedAt)
    <3>1. InFlight(line, wire, C, Updates) \/ peers = connectedAt
      BY DEF PeersOnTheWay, CaughtUp
    <3> HIDE DEF C
    <3>2. ~InFlight(line, wire, C, Updates)
      BY NothingWaits DEF CaughtUp, InFlight
    <3> QED
      BY <3>1, <3>2
  <2>2. ASSUME NEW p \in Peers \ sameInstant, connectedAt[p] = Never PROVE noticed[p] = 0
    BY <2>1, <2>2 DEF Distinct
  <2>3. ASSUME NEW p \in Peers \ sameInstant, connectedAt[p] # Never
        PROVE  noticed[p] = connection[p]
    <3>1. peers[p] = previousAt[p] /\ peers[p] # Never
      BY <2>1, <2>3, Listed
    <3>2. Honest(Seen(p), previousAt[p])
      BY DEF Distinct
    <3> DEFINE x == <<peers[p], noticed[p]>>
               y == <<previousAt[p], connection[p]>>
    <3>3. x \in Seen(p) /\ y \in Seen(p)
      BY SeenIs
    <3>4. x[1] = y[1] /\ x[1] # Never /\ x[2] = noticed[p] /\ y[2] = connection[p]
      BY <3>1
    <3> HIDE DEF x, y
    <3>5. x[2] = y[2]
      BY <3>2, <3>3, <3>4 DEF Honest
    <3> QED
      BY <3>4, <3>5
  <2> QED
    BY <2>1, <2>2, <2>3
<1> QED
  BY <1>1, BaseHolds, PeersOnTheWayHolds, DistinctHolds, PTL
=============================================================================
