------------------------------- MODULE HubProofs -------------------------------
(***************************************************************************)
(* Theorems about Hub, for any sockets, kinds, topics and caps, with and   *)
(* without canSubscribe.                                                   *)
(*                                                                         *)
(* The safety properties hold together or not at all: that a departed kind *)
(* leaves nothing behind rests on which socket speaks for it, that stop()  *)
(* closes every socket on each open one being tracked or registered, and   *)
(* both on a socket having no kind before its hello.                       *)
(***************************************************************************)
EXTENDS Hub, FiniteSetTheorems, TLAPS

\* The fields of createHub and of a socket, apart from the gate lane.
Maps ==
    /\ state \in [Sockets -> {"new", "open", "closing", "closed"}]
    /\ kind \in [Sockets -> Kinds \cup {None}]
    /\ clients \in [Kinds -> Sockets \cup {None}]
    /\ statuses \in [Kinds -> Sockets \cup {None}]
    /\ subscriptions \in [Topics -> SUBSET Kinds]
    /\ pending \in SUBSET Sockets

\* Sockets that have not been attached are unknown to the hub.
NewAreUnknown ==
    \A ws \in Sockets : state[ws] = "new" => kind[ws] = None

Finite ==
    /\ IsFiniteSet(pending)
    /\ IsFiniteSet({ws \in Sockets : state[ws] # "new"})

IInv ==
    /\ Maps
    /\ NewAreUnknown
    /\ Finite
    /\ OneSocketPerKind
    /\ NoOrphans
    /\ PendingTracked
    /\ StopIsFinal

-----------------------------------------------------------------------------
\* What closing some sockets does to the states of all.
LEMMA ClosingStates ==
  ASSUME Maps, NEW S
  PROVE  /\ Closing(S) \in [Sockets -> {"new", "open", "closing", "closed"}]
         /\ \A ws \in Sockets :
               /\ Closing(S)[ws] = "new" <=> state[ws] = "new"
               /\ Closing(S)[ws] = "open" <=> state[ws] = "open" /\ ws \notin S
               /\ Closing(S)[ws] \in {"open", "closing"} <=> state[ws] \in {"open", "closing"}
         /\ {ws \in Sockets : Closing(S)[ws] # "new"} = {ws \in Sockets : state[ws] # "new"}
<1>1. /\ Closing(S) \in [Sockets -> {"new", "open", "closing", "closed"}]
      /\ \A ws \in Sockets :
            /\ Closing(S)[ws] = "new" <=> state[ws] = "new"
            /\ Closing(S)[ws] = "open" <=> state[ws] = "open" /\ ws \notin S
            /\ Closing(S)[ws] \in {"open", "closing"} <=> state[ws] \in {"open", "closing"}
  BY DEF Closing, Maps
<1> HIDE DEF Closing
<1> QED
  BY <1>1

\* Fewer sockets wait, and they are still finitely many and under the cap.
LEMMA FewerPending ==
  ASSUME IsFiniteSet(pending), Cardinality(pending) <= MaxPendingSockets,
         NEW T \in SUBSET pending
  PROVE  IsFiniteSet(T) /\ Cardinality(T) <= MaxPendingSockets
<1>1. IsFiniteSet(T) /\ Cardinality(T) <= Cardinality(pending)
  BY FS_Subset, Zenon
<1>2. Cardinality(T) \in Nat /\ Cardinality(pending) \in Nat /\ MaxPendingSockets \in Nat
  BY <1>1, FS_CardinalityType, HubAssumption DEF HubAssumption
<1> QED
  BY <1>1, <1>2

\* The hub before the first connection (createHub).
LEMMA InitIInv == Init => IInv
<1> SUFFICES ASSUME Init PROVE IInv
  OBVIOUS
<1> USE DEF Init
<1>1. Maps /\ NewAreUnknown
  BY DEF Maps, NewAreUnknown
<1>2. Finite
  <2>1. {ws \in Sockets : state[ws] # "new"} = {}
    OBVIOUS
  <2> QED
    BY <2>1, FS_EmptySet DEF Finite
<1>3. OneSocketPerKind /\ NoOrphans /\ StopIsFinal
  BY DEF OneSocketPerKind, NoOrphans, StopIsFinal, Connected
<1>4. PendingTracked
  BY FS_EmptySet, HubAssumption DEF PendingTracked, HubAssumption
<1> QED
  BY <1>1, <1>2, <1>3, <1>4 DEF IInv

\* A step that touches neither sockets nor registry nor tracking keeps the
\* invariant: a lookup that starts or fails, a pong, a lane that moves on.
LEMMA ElsewhereKeepsIInv ==
  IInv /\ UNCHANGED <<state, kind, registry, pending, halt>> => IInv'
BY DEF IInv, Maps, NewAreUnknown, Finite, OneSocketPerKind, NoOrphans, PendingTracked,
       StopIsFinal, Registered, Connected, registry, halt

-----------------------------------------------------------------------------
\* A step that closes sockets and stops tracking some of those, and leaves the
\* registry alone, keeps the invariant (hello timeout, bad hello, a peer that
\* closes).
LEMMA ClosesKeepIInv ==
  ASSUME IInv, NEW S \in SUBSET Sockets, NEW T \in SUBSET S,
         state' = Closing(S), pending' = pending \ T,
         UNCHANGED <<kind, registry, halt>>
  PROVE  IInv'
<1>1. /\ Closing(S) \in [Sockets -> {"new", "open", "closing", "closed"}]
      /\ \A ws \in Sockets :
            /\ Closing(S)[ws] = "new" <=> state[ws] = "new"
            /\ Closing(S)[ws] = "open" <=> state[ws] = "open" /\ ws \notin S
            /\ Closing(S)[ws] \in {"open", "closing"} <=> state[ws] \in {"open", "closing"}
      /\ {ws \in Sockets : Closing(S)[ws] # "new"} = {ws \in Sockets : state[ws] # "new"}
  BY ClosingStates DEF IInv
<1>2. Maps' /\ NewAreUnknown'
  BY <1>1 DEF IInv, Maps, NewAreUnknown, registry
<1>3. IsFiniteSet(pending') /\ Cardinality(pending') <= MaxPendingSockets
  BY FewerPending, Zenon DEF IInv, Finite, PendingTracked
<1>4. Finite'
  BY <1>1, <1>3 DEF IInv, Finite
<1>5. OneSocketPerKind'
  BY <1>1 DEF IInv, OneSocketPerKind, Registered, Connected, registry, Maps
<1>6. NoOrphans'
  BY DEF IInv, NoOrphans, Connected, registry
<1>7. PendingTracked'
  BY <1>1, <1>3 DEF IInv, PendingTracked
<1>8. StopIsFinal'
  BY <1>1 DEF IInv, StopIsFinal, Connected, registry, halt
<1> QED
  BY <1>2, <1>4, <1>5, <1>6, <1>7, <1>8 DEF IInv

\* A connection is attached, at the cap in place of the oldest ones (attach,
\* trackPending).
LEMMA AttachKeepsIInv ==
  ASSUME IInv, NEW ws \in Sockets, Attach(ws)
  PROVE  IInv'
<1>1. /\ state[ws] = "new" /\ kind[ws] = None
      /\ UNCHANGED <<kind, registry, stopped>>
      /\ late' = IF stopped THEN late \cup {ws} ELSE late
  BY DEF Attach, IInv, NewAreUnknown
<1>2. PICK kept \in SUBSET pending :
         /\ Cardinality(kept) = IF RoomToWait
                                THEN Cardinality(pending)
                                ELSE MaxPendingSockets - 1
         /\ state' = [Closing(pending \ kept) EXCEPT ![ws] = "open"]
         /\ pending' = kept \cup {ws}
  BY DEF Attach
<1> DEFINE old == Closing(pending \ kept)
<1>3. /\ old \in [Sockets -> {"new", "open", "closing", "closed"}]
      /\ \A v \in Sockets :
            /\ old[v] = "new" <=> state[v] = "new"
            /\ old[v] = "open" <=> state[v] = "open" /\ v \notin pending \ kept
            /\ old[v] \in {"open", "closing"} <=> state[v] \in {"open", "closing"}
      /\ {v \in Sockets : old[v] # "new"} = {v \in Sockets : state[v] # "new"}
  BY ClosingStates DEF IInv
<1>4. state' = [old EXCEPT ![ws] = "open"]
  BY <1>2
<1> HIDE DEF old
<1>5. state'[ws] = "open" /\ \A v \in Sockets : v # ws => state'[v] = old[v]
  BY <1>3, <1>4
<1>6. Maps' /\ NewAreUnknown'
  BY <1>1, <1>2, <1>3, <1>4, <1>5 DEF IInv, Maps, NewAreUnknown, registry
<1>7. IsFiniteSet(pending') /\ Cardinality(pending') <= MaxPendingSockets
  <2>1. IsFiniteSet(pending) /\ Cardinality(pending) \in Nat
    BY FS_CardinalityType DEF IInv, Finite
  <2>2. IsFiniteSet(kept)
    BY <2>1, FS_Subset, Zenon
  <2>3. Cardinality(kept) \in Nat
    BY <2>2, FS_CardinalityType
  <2>4. Cardinality(kept) <= MaxPendingSockets - 1
    BY <1>2, <2>1, HubAssumption DEF RoomToWait, HubAssumption
  <2>5. /\ IsFiniteSet(kept \cup {ws})
        /\ \/ Cardinality(kept \cup {ws}) = Cardinality(kept)
           \/ Cardinality(kept \cup {ws}) = Cardinality(kept) + 1
    BY <2>2, FS_AddElement, Zenon
  <2> QED
    BY <1>2, <2>3, <2>4, <2>5, HubAssumption DEF HubAssumption
<1>8. Finite'
  <2> DEFINE seen == {v \in Sockets : state[v] # "new"}
  <2>1. {v \in Sockets : state'[v] # "new"} = seen \cup {ws}
    BY <1>3, <1>5
  <2>2. IsFiniteSet(seen)
    BY DEF IInv, Finite
  <2> HIDE DEF seen
  <2>3. IsFiniteSet(seen \cup {ws})
    BY <2>2, FS_AddElement, Zenon
  <2> QED
    BY <1>7, <2>1, <2>3 DEF Finite
<1>9. OneSocketPerKind'
  BY <1>1, <1>3, <1>5 DEF IInv, OneSocketPerKind, Registered, Connected, registry, Maps
<1>10. NoOrphans'
  BY <1>1 DEF IInv, NoOrphans, Connected, registry
<1>11. PendingTracked'
  BY <1>1, <1>2, <1>3, <1>5, <1>7 DEF IInv, PendingTracked
<1>12. StopIsFinal'
  <2> SUFFICES ASSUME stopped PROVE StopIsFinal'
    BY <1>1 DEF StopIsFinal
  <2>1. late' = late \cup {ws}
    BY <1>1
  <2>2. \A v \in Sockets : state'[v] = "open" => v \in late'
    BY <1>3, <1>5, <2>1 DEF IInv, StopIsFinal
  <2>3. pending' \subseteq late'
    BY <1>2, <2>1 DEF IInv, StopIsFinal
  <2>4. {kind[v] : v \in late} \subseteq {kind[v] : v \in late'}
    BY <2>1
  <2>5. UNCHANGED <<kind, clients, statuses, subscriptions>> /\ Connected' = Connected
    BY <1>1 DEF registry, Connected
  <2>6. /\ \A k \in Connected : clients[k] \in late'
        /\ \A k \in Kinds : statuses[k] # None => statuses[k] \in late'
    BY <2>1 DEF IInv, StopIsFinal
  <2>7. \A t \in Topics : subscriptions[t] \subseteq {kind[v] : v \in late'}
    BY <2>4 DEF IInv, StopIsFinal
  <2> QED
    BY <2>2, <2>3, <2>5, <2>6, <2>7 DEF StopIsFinal
<1> QED
  BY <1>6, <1>8, <1>9, <1>10, <1>11, <1>12 DEF IInv

\* A hello is accepted and takes the place of the kind's older socket.
LEMMA HelloAcceptedKeepsIInv ==
  ASSUME IInv, NEW ws \in Sockets, NEW k \in Kinds, HelloAccepted(ws, k)
  PROVE  IInv'
<1>1. /\ state[ws] = "open" /\ kind[ws] = None
      /\ state' = Closing(Replaced(ws, k))
      /\ kind' = [kind EXCEPT ![ws] = k]
      /\ pending' = pending \ {ws}
      /\ clients' = [clients EXCEPT ![k] = ws]
      /\ UNCHANGED <<statuses, subscriptions, halt>>
  BY DEF HelloAccepted, Admissible, Untrack
<1>2. None \notin Sockets \cup Kinds
  BY HubAssumption DEF HubAssumption
<1>3. /\ state' \in [Sockets -> {"new", "open", "closing", "closed"}]
      /\ \A v \in Sockets :
            /\ state'[v] = "new" <=> state[v] = "new"
            /\ state'[v] = "open" <=> state[v] = "open" /\ v \notin Replaced(ws, k)
            /\ state'[v] \in {"open", "closing"} <=> state[v] \in {"open", "closing"}
      /\ {v \in Sockets : state'[v] # "new"} = {v \in Sockets : state[v] # "new"}
  BY <1>1, ClosingStates DEF IInv
<1>4. /\ kind'[ws] = k /\ \A v \in Sockets : v # ws => kind'[v] = kind[v]
      /\ clients'[k] = ws /\ \A j \in Kinds : j # k => clients'[j] = clients[j]
  BY <1>1 DEF IInv, Maps
<1>5. Maps'
  BY <1>1, <1>3 DEF IInv, Maps
<1>6. NewAreUnknown'
  BY <1>1, <1>3, <1>4 DEF IInv, NewAreUnknown
<1>7. IsFiniteSet(pending') /\ Cardinality(pending') <= MaxPendingSockets
  BY <1>1, FewerPending, Zenon DEF IInv, Finite, PendingTracked
<1>8. Finite'
  BY <1>3, <1>7 DEF IInv, Finite
<1>9. OneSocketPerKind'
  <2>1. ASSUME NEW j \in Kinds, clients'[j] # None
        PROVE  kind'[clients'[j]] = j /\ state'[clients'[j]] \in {"open", "closing"}
    <3>1. CASE j = k
      BY <1>1, <1>3, <1>4, <3>1
    <3>2. CASE j # k
      <4>1. clients'[j] = clients[j] /\ clients[j] \in Sockets
        BY <1>4, <2>1, <3>2 DEF IInv, Maps
      <4>2. kind[clients[j]] = j /\ state[clients[j]] \in {"open", "closing"}
        BY <2>1, <4>1 DEF IInv, OneSocketPerKind, Connected
      <4>3. clients[j] # ws
        BY <1>1, <1>2, <4>2
      <4> QED
        BY <1>3, <1>4, <4>1, <4>2, <4>3
    <3> QED
      BY <3>1, <3>2
  <2>2. ASSUME NEW v \in Sockets, state'[v] = "open", kind'[v] # None
        PROVE  clients'[kind'[v]] = v
    <3>1. CASE v = ws
      BY <1>4, <3>1
    <3>2. CASE v # ws
      <4>1. state[v] = "open" /\ v \notin Replaced(ws, k) /\ kind[v] = kind'[v]
        BY <1>3, <1>4, <2>2, <3>2
      <4>2. kind[v] \in Kinds /\ clients[kind[v]] = v
        BY <2>2, <4>1 DEF IInv, Maps, OneSocketPerKind, Registered
      <4>3. kind[v] # k
        BY <3>2, <4>1, <4>2 DEF Replaced
      <4> QED
        BY <1>4, <4>1, <4>2, <4>3
    <3> QED
      BY <3>1, <3>2
  <2> QED
    BY <2>1, <2>2 DEF OneSocketPerKind, Registered, Connected
<1>10. NoOrphans'
  <2>1. Connected \subseteq Connected'
    BY <1>2, <1>4 DEF Connected
  <2> QED
    BY <1>1, <2>1 DEF IInv, NoOrphans
<1>11. PendingTracked'
  BY <1>1, <1>2, <1>3, <1>4, <1>7 DEF IInv, PendingTracked, Maps
<1>12. StopIsFinal'
  <2> SUFFICES ASSUME stopped PROVE StopIsFinal'
    BY <1>1 DEF StopIsFinal, halt
  <2>1. ws \in late /\ late' = late
    BY <1>1 DEF IInv, StopIsFinal, halt
  <2>2. \A j \in Connected' : clients'[j] \in late
    BY <1>4, <2>1 DEF IInv, StopIsFinal, Connected
  <2>3. ASSUME NEW t \in Topics, NEW j \in subscriptions[t]
        PROVE  j \in {kind'[v] : v \in late}
    <3>1. j \in Connected
      BY DEF IInv, NoOrphans
    <3>2. j \in Connected'
      BY <1>2, <1>4, <3>1 DEF Connected
    <3>3. kind'[clients'[j]] = j
      BY <1>9, <3>2 DEF OneSocketPerKind
    <3> QED
      BY <2>2, <3>2, <3>3
  <2>4. pending' \subseteq late /\ \A v \in Sockets : state'[v] = "open" => v \in late
    BY <1>1, <1>3 DEF IInv, StopIsFinal
  <2>5. \A j \in Kinds : statuses[j] # None => statuses[j] \in late
    BY DEF IInv, StopIsFinal
  <2> QED
    BY <1>1, <2>1, <2>2, <2>3, <2>4, <2>5 DEF StopIsFinal
<1> QED
  BY <1>5, <1>6, <1>8, <1>9, <1>10, <1>11, <1>12 DEF IInv

-----------------------------------------------------------------------------
\* A new status is that of the socket that speaks for its kind, and a new
\* subscription that of a connected kind.
StatusesBelong ==
    /\ statuses' \in [Kinds -> Sockets \cup {None}]
    /\ \A k \in Kinds : statuses'[k] # statuses[k] =>
                          k \in Connected /\ statuses'[k] = clients[k]
SubscriptionsBelong ==
    /\ subscriptions' \in [Topics -> SUBSET Kinds]
    /\ \A t \in Topics : subscriptions'[t] \subseteq subscriptions[t] \cup Connected

\* Unchanged tables are tables that belong.
LEMMA UnchangedBelong ==
  ASSUME Maps
  PROVE  /\ UNCHANGED statuses => StatusesBelong
         /\ UNCHANGED subscriptions => SubscriptionsBelong
<1>1. ASSUME UNCHANGED statuses PROVE StatusesBelong
  BY <1>1 DEF Maps, StatusesBelong
<1>2. ASSUME UNCHANGED subscriptions PROVE SubscriptionsBelong
  BY <1>2 DEF Maps, SubscriptionsBelong
<1> QED
  BY <1>1, <1>2

\* The status or the subscription of a peer that is connected is recorded, or
\* subscriptions are dropped (status.update, topic.subscribe and its verdict,
\* topic.unsubscribe).
LEMMA EntriesKeepIInv ==
  ASSUME IInv, StatusesBelong, SubscriptionsBelong,
         UNCHANGED <<state, kind, clients, pending, halt>>
  PROVE  IInv'
<1> USE DEF StatusesBelong, SubscriptionsBelong
<1>1. Connected' = Connected /\ \A ws \in Sockets : Registered(ws)' <=> Registered(ws)
  BY DEF Connected, Registered
<1>2. Maps' /\ NewAreUnknown' /\ Finite' /\ PendingTracked'
  BY DEF IInv, Maps, NewAreUnknown, Finite, PendingTracked
<1>3. OneSocketPerKind'
  BY <1>1 DEF IInv, OneSocketPerKind
<1>4. NoOrphans'
  BY <1>1 DEF IInv, NoOrphans
<1>5. StopIsFinal'
  <2> SUFFICES ASSUME stopped PROVE StopIsFinal'
    BY DEF StopIsFinal, halt
  <2>1. \A k \in Connected : clients[k] \in late /\ kind[clients[k]] = k
    BY DEF IInv, StopIsFinal, OneSocketPerKind
  <2>2. Connected \subseteq {kind[ws] : ws \in late}
    BY <2>1
  <2>3. \A t \in Topics : subscriptions'[t] \subseteq {kind[ws] : ws \in late}
    BY <2>2 DEF IInv, StopIsFinal
  <2>4. \A k \in Kinds : statuses'[k] # None => statuses'[k] \in late
    BY <2>1 DEF IInv, StopIsFinal
  <2>5. late' = late
    BY DEF halt
  <2> QED
    BY <1>1, <2>1, <2>3, <2>4, <2>5 DEF IInv, StopIsFinal
<1> QED
  BY <1>2, <1>3, <1>4, <1>5 DEF IInv

\* A message of the socket that speaks for its kind, or a verdict that comes
\* for one that may no longer do so.
LEMMA MessageKeepsIInv ==
  ASSUME IInv, NEW ws \in Sockets, Message(ws)
  PROVE  IInv'
<1>1. Registered(ws) => kind[ws] \in Kinds /\ kind[ws] \in Connected
  BY HubAssumption DEF Registered, Connected, IInv, Maps, HubAssumption
<1>2. ASSUME NEW t, Record(t, kind[ws]), Registered(ws)
      PROVE  SubscriptionsBelong
  BY <1>1, <1>2 DEF Record, IInv, Maps, SubscriptionsBelong
<1>3. CASE StatusUpdate(ws)
  <2>1. Registered(ws) /\ statuses' = [statuses EXCEPT ![kind[ws]] = ws]
    BY <1>3 DEF StatusUpdate, Heard
  <2>2. StatusesBelong
    BY <1>1, <2>1 DEF IInv, Maps, Registered, StatusesBelong
  <2>3. UNCHANGED <<state, kind, clients, subscriptions, pending, halt>>
    BY <1>3 DEF StatusUpdate, tracking
  <2> QED
    BY <2>2, <2>3, UnchangedBelong, EntriesKeepIInv DEF IInv
<1>4. ASSUME NEW t \in Topics, Subscribe(ws, t) PROVE IInv'
  <2>1. /\ Registered(ws)
        /\ UNCHANGED <<state, kind, clients, statuses, pending, halt>>
        /\ UNCHANGED subscriptions \/ Record(t, kind[ws])
    BY <1>4 DEF Subscribe, Heard, tracking
  <2>2. CASE UNCHANGED subscriptions
    BY <2>1, <2>2, ElsewhereKeepsIInv DEF registry
  <2>3. CASE Record(t, kind[ws])
    BY <1>2, <2>1, <2>3, UnchangedBelong, EntriesKeepIInv DEF IInv
  <2> QED
    BY <2>1, <2>2, <2>3
<1>5. ASSUME NEW T \in SUBSET Topics, Unsubscribe(ws, T) PROVE IInv'
  <2>1. /\ UNCHANGED <<state, kind, clients, statuses, pending, halt>>
        /\ subscriptions' = [t \in Topics |->
               IF t \in T THEN subscriptions[t] \ {kind[ws]} ELSE subscriptions[t]]
    BY <1>5 DEF Unsubscribe, tracking
  <2>2. SubscriptionsBelong
    BY <2>1 DEF IInv, Maps, SubscriptionsBelong
  <2> QED
    BY <2>1, <2>2, UnchangedBelong, EntriesKeepIInv DEF IInv
<1>6. CASE LaneStart(ws)
  BY <1>6, ElsewhereKeepsIInv DEF LaneStart, tracking
<1>7. CASE LaneVerdict(ws)
  <2>1. /\ UNCHANGED <<state, kind, clients, statuses, pending, halt>>
        /\ \/ Registered(ws) /\ Record(Head(lane[ws]), kind[ws])
           \/ UNCHANGED subscriptions
    BY <1>7 DEF LaneVerdict, StillCurrent, tracking
  <2>2. CASE UNCHANGED subscriptions
    BY <2>1, <2>2, ElsewhereKeepsIInv DEF registry
  <2>3. CASE Registered(ws) /\ Record(Head(lane[ws]), kind[ws])
    BY <1>2, <2>1, <2>3, UnchangedBelong, EntriesKeepIInv DEF IInv
  <2> QED
    BY <2>1, <2>2, <2>3
<1> QED
  BY <1>3, <1>4, <1>5, <1>6, <1>7 DEF Message

-----------------------------------------------------------------------------
\* Some kinds are forgotten with all they had, their sockets are at least
\* closing from now on, and some sockets are no longer tracked.
Departs(gone, T) ==
    /\ gone \in SUBSET Kinds /\ Forget(gone)
    /\ state' \in [Sockets -> {"new", "open", "closing", "closed"}]
    /\ \A ws \in Sockets :
          /\ state'[ws] = "new" <=> state[ws] = "new"
          /\ state'[ws] = "open" => state[ws] = "open" /\ \A k \in gone : clients[k] # ws
          /\ state[ws] \in {"open", "closing"} =>
                \/ state'[ws] \in {"open", "closing"}
                \/ \A k \in Connected \ gone : clients[k] # ws
    /\ T \in SUBSET Sockets /\ pending' = pending \ T
    /\ \A ws \in T : state'[ws] # "open"
    /\ UNCHANGED <<kind, halt>>

\* Departures keep the invariant (the close event, the keepalive).
LEMMA DepartureKeepsIInv ==
  ASSUME IInv, NEW gone, NEW T, Departs(gone, T)
  PROVE  IInv'
<1> USE DEF Departs
<1>1. /\ clients' = [k \in Kinds |-> IF k \in gone THEN None ELSE clients[k]]
      /\ statuses' = [k \in Kinds |-> IF k \in gone THEN None ELSE statuses[k]]
      /\ subscriptions' = [t \in Topics |-> subscriptions[t] \ gone]
  BY DEF Forget
<1>2. Maps' /\ NewAreUnknown'
  BY <1>1 DEF IInv, Maps, NewAreUnknown
<1>3. IsFiniteSet(pending') /\ Cardinality(pending') <= MaxPendingSockets
  BY FewerPending, Zenon DEF IInv, Finite, PendingTracked
<1>4. {ws \in Sockets : state'[ws] # "new"} = {ws \in Sockets : state[ws] # "new"}
  OBVIOUS
<1>5. Finite'
  BY <1>3, <1>4 DEF IInv, Finite
<1>6. Connected' = Connected \ gone
  BY <1>1 DEF Connected
<1>7. OneSocketPerKind'
  <2>1. ASSUME NEW k \in Connected'
        PROVE  kind'[clients'[k]] = k /\ state'[clients'[k]] \in {"open", "closing"}
    <3>1. k \in Kinds /\ k \in Connected /\ k \notin gone /\ clients'[k] = clients[k]
      BY <1>1, <1>6 DEF Connected
    <3>2. clients[k] \in Sockets
      BY <3>1 DEF Connected, IInv, Maps
    <3> QED
      BY <3>1, <3>2 DEF IInv, OneSocketPerKind
  <2>2. ASSUME NEW ws \in Sockets, state'[ws] = "open", kind'[ws] # None
        PROVE  Registered(ws)'
    <3>1. state[ws] = "open" /\ kind[ws] # None /\ kind[ws] \in Kinds /\ kind[ws] \notin gone
      BY <2>2 DEF IInv, OneSocketPerKind, Registered, Maps
    <3> QED
      BY <1>1, <2>2, <3>1 DEF IInv, OneSocketPerKind, Registered
  <2> QED
    BY <2>1, <2>2 DEF OneSocketPerKind
<1>8. NoOrphans'
  BY <1>1, <1>6 DEF IInv, NoOrphans
<1>9. PendingTracked'
  BY <1>3 DEF IInv, PendingTracked
<1>10. StopIsFinal'
  <2> SUFFICES ASSUME stopped PROVE StopIsFinal'
    BY DEF StopIsFinal, halt
  <2>1. late' = late
    BY DEF halt
  <2>2. \A t \in Topics : subscriptions'[t] \subseteq {kind[ws] : ws \in late}
    BY <1>1 DEF IInv, StopIsFinal
  <2>3. \A k \in Connected' : clients'[k] \in late
    BY <1>1, <1>6 DEF IInv, StopIsFinal, Connected
  <2>4. \A k \in Kinds : statuses'[k] # None => statuses'[k] \in late
    BY <1>1 DEF IInv, StopIsFinal
  <2>5. pending' \subseteq late /\ \A ws \in Sockets : state'[ws] = "open" => ws \in late
    BY DEF IInv, StopIsFinal
  <2> QED
    BY <2>1, <2>2, <2>3, <2>4, <2>5 DEF StopIsFinal
<1> QED
  BY <1>2, <1>5, <1>7, <1>8, <1>9, <1>10 DEF IInv

\* The close event takes a kind along only if its socket still speaks for it.
LEMMA CloseEventKeepsIInv ==
  ASSUME IInv, NEW ws \in Sockets, CloseEvent(ws)
  PROVE  IInv'
<1>1. /\ state[ws] = "closing" /\ state' = [state EXCEPT ![ws] = "closed"]
      /\ pending' = pending \ {ws}
      /\ UNCHANGED <<kind, halt>>
  BY DEF CloseEvent, Untrack
<1>2. /\ state' \in [Sockets -> {"new", "open", "closing", "closed"}]
      /\ state'[ws] = "closed" /\ \A v \in Sockets : v # ws => state'[v] = state[v]
  BY <1>1 DEF IInv, Maps
<1>3. CASE Registered(ws)
  <2>1. kind[ws] \in Kinds /\ clients[kind[ws]] = ws /\ Forget({kind[ws]})
    BY <1>3 DEF CloseEvent, SpeaksForKind, Registered, IInv, Maps
  <2>2. \A k \in Connected \ {kind[ws]} : clients[k] # ws
    BY DEF IInv, OneSocketPerKind
  <2>3. Departs({kind[ws]}, {ws})
    BY <1>1, <1>2, <2>1, <2>2 DEF Departs
  <2> QED
    BY <2>3, DepartureKeepsIInv
<1>4. CASE ~Registered(ws)
  <2>1. UNCHANGED registry
    BY <1>4 DEF CloseEvent, SpeaksForKind
  <2>2. Forget({})
    BY <2>1 DEF Forget, registry, IInv, Maps
  <2>3. \A k \in Connected : clients[k] # ws
    BY <1>4, HubAssumption DEF IInv, OneSocketPerKind, Registered, Connected, HubAssumption
  <2>4. Departs({}, {ws})
    BY <1>1, <1>2, <2>2, <2>3 DEF Departs
  <2> QED
    BY <2>4, DepartureKeepsIInv
<1> QED
  BY <1>3, <1>4

\* The keepalive terminates and forgets the peers that did not answer.
LEMMA KeepaliveKeepsIInv == IInv /\ KeepaliveTick => IInv'
<1> SUFFICES ASSUME IInv, KeepaliveTick PROVE IInv'
  OBVIOUS
<1> DEFINE dead == {k \in Connected : ~alive[clients[k]]}
<1>1. /\ state' = Closing(Terminated(dead)) /\ Forget(dead)
      /\ UNCHANGED <<kind, pending, halt>>
  BY DEF KeepaliveTick, tracking
<1>2. dead \in SUBSET Kinds
  BY DEF Connected
<1> HIDE DEF dead
<1>3. /\ state' \in [Sockets -> {"new", "open", "closing", "closed"}]
      /\ \A ws \in Sockets :
            /\ state'[ws] = "new" <=> state[ws] = "new"
            /\ state'[ws] = "open" <=> state[ws] = "open" /\ ws \notin Terminated(dead)
            /\ state'[ws] \in {"open", "closing"} <=> state[ws] \in {"open", "closing"}
  BY <1>1, ClosingStates DEF IInv
<1>4. \A ws \in Sockets : ws \notin Terminated(dead) => \A k \in dead : clients[k] # ws
  BY DEF Terminated
<1>5. Departs(dead, {})
  BY <1>1, <1>2, <1>3, <1>4 DEF Departs
<1> QED
  BY <1>5, DepartureKeepsIInv

\* stop() closes every socket that is open: each is waiting or registered.
LEMMA StopKeepsIInv == IInv /\ HubStop => IInv'
<1> SUFFICES ASSUME IInv, HubStop PROVE IInv'
  OBVIOUS
<1>1. /\ state' = Closing(ClosedByStop) /\ pending' = {} /\ stopped'
      /\ clients' = [k \in Kinds |-> None]
      /\ statuses' = [k \in Kinds |-> None]
      /\ subscriptions' = [t \in Topics |-> {}]
      /\ UNCHANGED kind
  BY DEF HubStop, Untrack
<1>2. /\ state' \in [Sockets -> {"new", "open", "closing", "closed"}]
      /\ \A ws \in Sockets :
            /\ state'[ws] = "new" <=> state[ws] = "new"
            /\ state'[ws] = "open" <=> state[ws] = "open" /\ ws \notin ClosedByStop
      /\ {ws \in Sockets : state'[ws] # "new"} = {ws \in Sockets : state[ws] # "new"}
  BY <1>1, ClosingStates DEF IInv
<1>3. \A ws \in Sockets : state[ws] = "open" => ws \in ClosedByStop
  <2> SUFFICES ASSUME NEW ws \in Sockets, state[ws] = "open", ws \notin pending
               PROVE  \E k \in Connected : clients[k] = ws
    BY DEF ClosedByStop
  <2>1. kind[ws] # None /\ kind[ws] \in Kinds /\ clients[kind[ws]] = ws
    BY DEF IInv, PendingTracked, OneSocketPerKind, Registered, Maps
  <2> QED
    BY <2>1, HubAssumption DEF Connected, HubAssumption
<1>4. \A ws \in Sockets : state'[ws] # "open"
  BY <1>2, <1>3
<1>5. Maps' /\ NewAreUnknown'
  BY <1>1, <1>2 DEF IInv, Maps, NewAreUnknown
<1>6. Finite' /\ Cardinality(pending') = 0
  BY <1>1, <1>2, FS_EmptySet DEF IInv, Finite
<1>7. Connected' = {}
  BY <1>1 DEF Connected
<1>8. OneSocketPerKind' /\ NoOrphans' /\ StopIsFinal'
  BY <1>1, <1>4, <1>7 DEF OneSocketPerKind, NoOrphans, StopIsFinal
<1>9. PendingTracked'
  BY <1>1, <1>4, <1>6, HubAssumption DEF PendingTracked, HubAssumption
<1> QED
  BY <1>5, <1>6, <1>8, <1>9 DEF IInv

-----------------------------------------------------------------------------
\* The steps of one socket other than the messages of an accepted one.
LEMMA HandshakeKeepsIInv ==
  ASSUME IInv, NEW ws \in Sockets, Handshake(ws) \/ Connection(ws)
  PROVE  IInv'
<1> USE DEF tracking
<1>1. CASE Attach(ws)
  BY <1>1, AttachKeepsIInv
<1>2. CASE HelloTimeout(ws)
  BY <1>2, ClosesKeepIInv DEF HelloTimeout, Untrack
<1>3. CASE BadHello(ws) \/ PeerCloses(ws)
  <2>1. state' = Closing({ws}) /\ pending' = pending \ {}
    BY <1>3 DEF BadHello, PeerCloses
  <2>2. UNCHANGED <<kind, registry, halt>>
    BY <1>3 DEF BadHello, PeerCloses
  <2> QED
    BY <2>1, <2>2, ClosesKeepIInv
<1>4. ASSUME NEW k \in Kinds, HelloAccepted(ws, k) PROVE IInv'
  BY <1>4, HelloAcceptedKeepsIInv
<1>5. ASSUME NEW k \in Kinds, HelloArrives(ws, k) \/ HelloDropped(ws, k) PROVE IInv'
  BY <1>5, ElsewhereKeepsIInv DEF HelloArrives, HelloDropped
<1>6. CASE CloseEvent(ws)
  BY <1>6, CloseEventKeepsIInv
<1>7. CASE Silence(ws) \/ Pong(ws)
  BY <1>7, ElsewhereKeepsIInv DEF Silence, Pong
<1> QED
  BY <1>1, <1>2, <1>3, <1>4, <1>5, <1>6, <1>7 DEF Handshake, Connection

\* Every reachable state of the hub satisfies the invariant.
THEOREM Invariance == Spec => []IInv
<1>1. IInv /\ [Next]_vars => IInv'
  <2> SUFFICES ASSUME IInv, [Next]_vars PROVE IInv'
    OBVIOUS
  <2>1. CASE UNCHANGED vars
    BY <2>1, ElsewhereKeepsIInv DEF vars, tracking
  <2>2. ASSUME NEW ws \in Sockets, Handshake(ws) \/ Connection(ws) PROVE IInv'
    BY <2>2, HandshakeKeepsIInv
  <2>3. ASSUME NEW ws \in Sockets, Message(ws) PROVE IInv'
    BY <2>3, MessageKeepsIInv
  <2> QED
    BY <2>1, <2>2, <2>3, KeepaliveKeepsIInv, StopKeepsIInv DEF Next
<1> QED
  BY InitIInv, <1>1, PTL DEF Spec

\* One socket speaks for a kind, whichever hellos race and whenever the close
\* event of a replaced or terminated socket comes.
THEOREM OneSpeaker == Spec => []OneSocketPerKind
BY Invariance, PTL DEF IInv

\* No verdict that comes late leaves a status or a subscription with a kind
\* that is gone.
THEOREM NothingOrphaned == Spec => []NoOrphans
BY Invariance, PTL DEF IInv

\* The sockets that have not said hello stay under the cap, and none escapes
\* its tracking.
THEOREM Tracked == Spec => []PendingTracked
BY Invariance, PTL DEF IInv

\* Nothing that was under way at stop() registers a socket after it, or keeps
\* one open: what the hub then holds belongs to sockets attached later.
THEOREM Final == Spec => []StopIsFinal
BY Invariance, PTL DEF IInv

-----------------------------------------------------------------------------
\* The other fields: flags, lookups and lanes.  A verdict is awaited for the
\* head of a lane that has one.
Booleans ==
    /\ alive \in [Sockets -> BOOLEAN]
    /\ checking \in [Sockets -> BOOLEAN]
    /\ stopped \in BOOLEAN

Lanes ==
    /\ silent \in SUBSET Sockets
    /\ arrival \in [Sockets -> Nat]
    /\ resolving \in [Sockets -> SUBSET Kinds]
    /\ late \in SUBSET Sockets
    /\ lane \in [Sockets -> Seq(Topics)]
    /\ \A ws \in Sockets : checking[ws] => lane[ws] # <<>>

\* The flags stay flags.
LEMMA NextBooleans == Booleans /\ [Next]_vars => Booleans'
<1> SUFFICES ASSUME Booleans, [Next]_vars PROVE Booleans'
  OBVIOUS
<1> USE DEF Booleans
<1>1. ASSUME NEW ws \in Sockets, Handshake(ws) PROVE Booleans'
  BY <1>1, Zenon
  DEF Handshake, Attach, HelloTimeout, BadHello, HelloArrives, HelloDropped, HelloAccepted, gate, halt
<1>2. ASSUME NEW ws \in Sockets, Message(ws) PROVE Booleans'
  <2>1. CASE UNCHANGED <<alive, checking, stopped>>
    BY <2>1
  <2>2. UNCHANGED alive /\ UNCHANGED stopped
    BY <1>2, Zenon DEF Message, StatusUpdate, Subscribe, Unsubscribe, LaneStart, LaneVerdict, gate, halt
  <2>3. \/ UNCHANGED checking
        \/ \E b \in BOOLEAN : checking' = [checking EXCEPT ![ws] = b]
    BY <1>2, Zenon DEF Message, StatusUpdate, Subscribe, Unsubscribe, LaneStart, LaneVerdict, gate, halt
  <2>4. ASSUME NEW b \in BOOLEAN, checking' = [checking EXCEPT ![ws] = b]
        PROVE  checking' \in [Sockets -> BOOLEAN]
    BY <2>4
  <2> QED
    BY <2>1, <2>2, <2>3, <2>4
<1>3. ASSUME NEW ws \in Sockets, Connection(ws) PROVE Booleans'
  BY <1>3, Zenon DEF Connection, PeerCloses, CloseEvent, Silence, Pong, gate, halt
<1>4. CASE KeepaliveTick
  BY <1>4, Zenon DEF KeepaliveTick, gate, halt
<1>5. CASE HubStop
  BY <1>5, Zenon DEF HubStop, gate, halt
<1>6. CASE UNCHANGED vars
  BY <1>6, Zenon DEF vars, gate, halt
<1> QED
  BY <1>1, <1>2, <1>3, <1>4, <1>5, <1>6 DEF Next

\* The order of arrival is counted, the lookups are of kinds, and the lanes
\* are of topics.
LEMMA NextLanes == IInv /\ Booleans /\ Lanes /\ [Next]_vars => Lanes'
<1> SUFFICES ASSUME IInv, Booleans, Lanes, [Next]_vars PROVE Lanes'
  OBVIOUS
<1> USE DEF Lanes, tracking, gate, halt
<1>0. ASSUME NEW S, Untrack(S) PROVE arrival' \in [Sockets -> Nat]
  BY <1>0 DEF Untrack
<1>1. ASSUME NEW ws \in Sockets, Attach(ws) PROVE Lanes'
  <2>1. Cardinality({x \in Sockets : state[x] # "new"}) \in Nat
    BY FS_CardinalityType DEF IInv, Finite
  <2> DEFINE count == Cardinality({x \in Sockets : state[x] # "new"})
  <2> HIDE DEF count
  <2>2. \E kept \in SUBSET pending :
          arrival' = [v \in Sockets |->
              IF v = ws THEN 1 + count ELSE IF v \in kept THEN arrival[v] ELSE 0]
    BY <1>1 DEF Attach, count
  <2>3. count \in Nat
    BY <2>1 DEF count
  <2>4. arrival' \in [Sockets -> Nat]
    BY <2>2, <2>3
  <2> QED
    BY <1>1, <2>4 DEF Attach
<1>2. ASSUME NEW ws \in Sockets, HelloTimeout(ws) \/ BadHello(ws) PROVE Lanes'
  BY <1>0, <1>2 DEF HelloTimeout, BadHello
<1>3. ASSUME NEW ws \in Sockets, NEW k \in Kinds,
             HelloArrives(ws, k) \/ HelloDropped(ws, k) \/ HelloAccepted(ws, k)
      PROVE  Lanes'
  BY <1>0, <1>3 DEF HelloArrives, HelloDropped, HelloAccepted
<1>4. ASSUME NEW ws \in Sockets, NEW t \in Topics, Subscribe(ws, t) PROVE Lanes'
  <2>1. /\ UNCHANGED <<silent, arrival, resolving, checking, late>>
        /\ UNCHANGED lane \/ lane' = [lane EXCEPT ![ws] = Append(@, t)]
    BY <1>4 DEF Subscribe
  <2>2. Append(lane[ws], t) \in Seq(Topics) /\ Append(lane[ws], t) # <<>>
    BY <1>4
  <2> QED
    BY <2>1, <2>2
<1>5. ASSUME NEW ws \in Sockets, LaneStart(ws) \/ LaneVerdict(ws) PROVE Lanes'
  <2>1. lane[ws] # <<>> /\ Tail(lane[ws]) \in Seq(Topics)
    BY <1>5 DEF LaneStart, LaneVerdict
  <2>2. UNCHANGED <<silent, arrival, resolving, late>>
    BY <1>5 DEF LaneStart, LaneVerdict
  <2>3. \/ checking' = [checking EXCEPT ![ws] = TRUE] /\ UNCHANGED lane
        \/ /\ lane' = [lane EXCEPT ![ws] = Tail(@)]
           /\ ~checking'[ws] /\ \A v \in Sockets : v # ws => checking'[v] = checking[v]
    BY <1>5 DEF LaneStart, LaneVerdict, Booleans
  <2> QED
    BY <2>1, <2>2, <2>3 DEF Booleans
<1>6. ASSUME NEW ws \in Sockets, StatusUpdate(ws) PROVE Lanes'
  BY <1>6 DEF StatusUpdate
<1>7. ASSUME NEW ws \in Sockets, NEW T \in SUBSET Topics, Unsubscribe(ws, T) PROVE Lanes'
  BY <1>7 DEF Unsubscribe
<1>8. ASSUME NEW ws \in Sockets, Connection(ws) PROVE Lanes'
  BY <1>0, <1>8 DEF Connection, PeerCloses, CloseEvent, Silence, Pong
<1>9. CASE KeepaliveTick
  BY <1>9 DEF KeepaliveTick
<1>10. CASE HubStop
  BY <1>0, <1>10 DEF HubStop
<1>11. CASE UNCHANGED vars
  BY <1>11 DEF vars
<1> QED
  BY <1>1, <1>2, <1>3, <1>4, <1>5, <1>6, <1>7, <1>8, <1>9, <1>10, <1>11
  DEF Next, Handshake, Message

\* The hub's fields keep their types, the lanes of pending verdicts among them.
THEOREM TypeCorrect == Spec => []TypeOK
<1>1. Init => Booleans /\ Lanes
  <2>1. Init => Booleans
    BY Zenon DEF Init, Booleans
  <2>2. Init => Lanes
    BY DEF Init, Lanes
  <2> QED
    BY <2>1, <2>2
<1>2. /\ Maps /\ Booleans /\ Lanes
      => TypeOK
  BY DEF Maps, Booleans, Lanes, TypeOK
<1>3. IInv => Maps
  BY DEF IInv
<1> QED
  BY Invariance, NextBooleans, NextLanes, <1>1, <1>2, <1>3, PTL DEF Spec
=============================================================================
