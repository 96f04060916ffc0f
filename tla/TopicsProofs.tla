----------------------------- MODULE TopicsProofs -----------------------------
(***************************************************************************)
(* Theorems about Topics, for any finite sets of topics and handlers, any  *)
(* number of posts, uses and broken links.                                 *)
(*                                                                         *)
(* A queue q "ends" a topic when its unsubscribe stands behind every       *)
(* subscribe for it.  That a topic nobody handles is ended somewhere on    *)
(* its way to the hub, or is not listed there, is what keeps the hub's     *)
(* table clean; that posts are in order along their whole way, from the    *)
(* lane of the publisher's socket to the handlers, is why they arrive so.  *)
(***************************************************************************)
EXTENDS Topics, FiniteSetTheorems, SequenceTheorems, TLAPS

Sub(t)   == Item("topic.subscribe", t)
Unsub(t) == Item("topic.unsubscribe", t)

\* Nothing in q subscribes to t.
Free(q, t) == \A i \in DOMAIN q : q[i] # Sub(t)

\* An unsubscribe for t, and nothing after it subscribes.
Ends(q, t) ==
    \E i \in DOMAIN q : q[i] = Unsub(t) /\ \A j \in DOMAIN q : j > i => q[j] # Sub(t)

\* A connection of the subscriber that the hub has accepted.
Accepted == link \in {"accepted", "ready"}

\* The topics nobody handles, and that nothing excuses but the replacement.
Given == Topics \ (Subscribed \cup offline \cup overtaken \cup missed)

Lingers ==
    /\ Accepted => registered # "earlier"
    /\ \A t \in Given :
          /\ Ends(outbox, t) \/ Free(outbox, t)
          /\ Accepted => \/ Ends(outbox, t) \/ Ends(up, t)
                         \/ /\ Free(up, t) /\ t \notin ToSet(lane)
                            /\ t \in subs => t \in inherited

\* The posts that wait for a verdict, if their kind is checked.
Gated == {p \in Posts : Type(p) \in gatedPosts}

Same(p, r, G) == p \in G <=> r \in G

\* In order, as far as the same checks are passed.
Sorted(q, G) == \A i, j \in DOMAIN q : i < j /\ Same(q[i], q[j], G) => q[i] < q[j]
Before(q, r, G) == \A i \in DOMAIN q, j \in DOMAIN r : Same(q[i], r[j], G) => q[i] < r[j]
Below(q, n) == \A i \in DOMAIN q : q[i] < n

Ordered ==
    /\ Sorted(delivered, Gated) /\ Sorted(down, Gated)
    /\ \A s \in Sockets : Sorted(queue[s], Gated)
    /\ Before(delivered, down, Gated)
    /\ Before(delivered, queue[current], Gated) /\ Before(down, queue[current], Gated)
    /\ Below(delivered, next) /\ Below(down, next) /\ \A s \in Sockets : Below(queue[s], next)
    /\ \A s \in Sockets : ToSet(queue[s]) \subseteq Gated
    /\ current = 1 => queue[2] = <<>>

-----------------------------------------------------------------------------
(* Queues.                                                                 *)

\* A queue without its first item.
LEMMA TailOf ==
  ASSUME NEW T, NEW q \in Seq(T), q # <<>>
  PROVE  /\ Tail(q) \in Seq(T) /\ Head(q) \in T
         /\ DOMAIN q = 1 .. Len(q) /\ Len(q) \in Nat /\ Len(q) >= 1 /\ Head(q) = q[1]
         /\ DOMAIN Tail(q) = 1 .. (Len(q) - 1)
         /\ \A i \in 1 .. (Len(q) - 1) : Tail(q)[i] = q[i + 1]
         /\ \A i \in DOMAIN Tail(q) : i + 1 \in DOMAIN q /\ Tail(q)[i] = q[i + 1]
         /\ \A i \in DOMAIN q : i # 1 => i - 1 \in DOMAIN Tail(q) /\ Tail(q)[i - 1] = q[i]
<1>1. Len(q) \in Nat /\ Len(q) >= 1 /\ DOMAIN q = 1 .. Len(q)
  BY EmptySeq, LenProperties
<1>2. /\ Tail(q) \in Seq(T) /\ Head(q) \in T /\ Head(q) = q[1]
      /\ DOMAIN Tail(q) = 1 .. (Len(q) - 1)
      /\ \A i \in 1 .. (Len(q) - 1) : Tail(q)[i] = q[i + 1]
  BY <1>1, HeadTailProperties
<1> QED
  BY <1>1, <1>2

\* A queue with an item added at its end.
LEMMA AppendOf ==
  ASSUME NEW T, NEW q \in Seq(T), NEW m \in T
  PROVE  /\ Append(q, m) \in Seq(T)
         /\ DOMAIN q = 1 .. Len(q) /\ Len(q) \in Nat
         /\ DOMAIN Append(q, m) = DOMAIN q \cup {Len(q) + 1}
         /\ \A i \in DOMAIN q : Append(q, m)[i] = q[i] /\ i < Len(q) + 1
         /\ Append(q, m)[Len(q) + 1] = m
<1>1. /\ DOMAIN q = 1 .. Len(q) /\ Len(q) \in Nat
      /\ Append(q, m) \in Seq(T)
      /\ DOMAIN Append(q, m) = 1 .. (Len(q) + 1)
      /\ \A i \in 1 .. Len(q) : Append(q, m)[i] = q[i]
      /\ Append(q, m)[Len(q) + 1] = m
  BY AppendProperties, LenProperties
<1>2. 1 .. (Len(q) + 1) = 1 .. Len(q) \cup {Len(q) + 1}
  BY <1>1
<1> QED
  BY <1>1, <1>2

\* What hello.ack subscribes to again.
LEMMA Repeated ==
  ASSUME NEW S \in SUBSET Topics, NEW kept \in SetToSeqs(S)
  PROVE  /\ kept \in Seq(S)
         /\ [i \in DOMAIN kept |-> Item("topic.subscribe", kept[i])] \in Seq(ItemType)
<1>1. Cardinality(S) \in Nat
  BY TopicsAssumption, FS_Subset, FS_CardinalityType DEF TopicsAssumption
<1>2. kept \in Seq(S) /\ kept \in [1 .. Cardinality(S) -> S]
  BY <1>1 DEF SetToSeqs
<1>3. \A i \in DOMAIN kept : Item("topic.subscribe", kept[i]) \in ItemType
  <2>1. \A i \in DOMAIN kept : kept[i] \in Topics
    BY <1>2
  <2> QED
    BY <2>1 DEF Item, ItemType
<1> QED
  BY <1>1, <1>2, <1>3

-----------------------------------------------------------------------------
(***************************************************************************)
(* The tables.                                                             *)
(***************************************************************************)
LEMMA ItemIs ==
  ASSUME NEW t \in Topics
  PROVE  Sub(t) \in ItemType /\ Unsub(t) \in ItemType
BY DEF Sub, Unsub, Item, ItemType

LEMMA TellTyped ==
  ASSUME TypeOK, NEW t \in Topics, Tell("topic.subscribe", t) \/ Tell("topic.unsubscribe", t)
  PROVE  outbox' \in Seq(ItemType) /\ missed' \in SUBSET Topics
<1>1. /\ Append(outbox, Sub(t)) \in Seq(ItemType)
      /\ Append(outbox, Unsub(t)) \in Seq(ItemType)
  BY ItemIs, AppendOf DEF TypeOK
<1> QED
  BY <1>1 DEF Tell, Sub, Unsub, TypeOK

\* What a post adds to the socket of the subscriber.
LEMMA SendTyped ==
  ASSUME TypeOK, NEW p \in Posts, Send(p) PROVE down' \in Seq(Posts)
<1>1. Append(down, p) \in Seq(Posts)
  BY AppendOf DEF TypeOK
<1> QED
  BY <1>1 DEF Send, TypeOK

LEMMA ApplicationTyped == ASSUME TypeOK, Application PROVE TypeOK'
<1>0. MaxUses \in Nat
  BY TopicsAssumption DEF TopicsAssumption
<1>1. ASSUME NEW t \in Topics, NEW h \in Handlers, Subscribe(t, h) PROVE TypeOK'
  <2>1. outbox' \in Seq(ItemType) /\ missed' \in SUBSET Topics
    <3>1. CASE Tell("topic.subscribe", t)
      BY <3>1, TellTyped
    <3> QED
      BY <1>1, <3>1 DEF Subscribe, TypeOK
  <2>2. handlers' \in [Topics -> SUBSET Handlers] /\ uses' \in 0 .. MaxUses
    BY <1>0, <1>1 DEF Subscribe, Use, TypeOK
  <2> QED
    BY <1>1, <2>1, <2>2 DEF Subscribe, TypeOK, hubVars, publisherVars, fixed
<1>2. ASSUME NEW t \in Topics, NEW those, Unsubscribe(t, those) PROVE TypeOK'
  <2>1. outbox' \in Seq(ItemType) /\ missed' \in SUBSET Topics
    <3>1. CASE Tell("topic.unsubscribe", t)
      BY <3>1, TellTyped
    <3>2. CASE UNCHANGED <<outbox, missed>>
      BY <3>2 DEF TypeOK
    <3> QED
      BY <1>2, <3>1, <3>2 DEF Unsubscribe
  <2>2. handlers' \in [Topics -> SUBSET Handlers] /\ uses' \in 0 .. MaxUses
    BY <1>0, <1>2 DEF Unsubscribe, Use, TypeOK
  <2>3. offline' \subseteq Topics
    BY <1>2 DEF Unsubscribe, TypeOK
  <2> QED
    BY <1>2, <2>1, <2>2, <2>3 DEF Unsubscribe, TypeOK, hubVars, publisherVars, fixed
<1> QED
  BY <1>1, <1>2 DEF Application

LEMMA HelloAckTyped == ASSUME TypeOK, HelloAck PROVE TypeOK'
<1>1. PICK refused \in SUBSET Repeat :
        /\ missed' = missed \cup refused
        /\ \E kept \in SetToSeqs(Repeat \ refused) :
              outbox' = outbox \o [i \in DOMAIN kept |-> Item("topic.subscribe", kept[i])]
  BY DEF HelloAck
<1>2. PICK kept \in SetToSeqs(Repeat \ refused) :
        outbox' = outbox \o [i \in DOMAIN kept |-> Item("topic.subscribe", kept[i])]
  BY <1>1
<1>3. Repeat \ refused \in SUBSET Topics /\ missed' \subseteq Topics
  BY <1>1 DEF Repeat, Subscribed, TypeOK
<1>4. outbox' \in Seq(ItemType)
  <2>1. [i \in DOMAIN kept |-> Item("topic.subscribe", kept[i])] \in Seq(ItemType)
    BY <1>3, Repeated
  <2> QED
    BY <1>2, <2>1, ConcatProperties DEF TypeOK
<1> QED
  BY <1>3, <1>4 DEF HelloAck, TypeOK, hubVars, publisherVars, fixed

LEMMA MessagesTyped == ASSUME TypeOK, Messages PROVE TypeOK'
<1> USE DEF subscriberVars, hubVars, publisherVars, fixed, history
<1>1. CASE HelloAck
  BY <1>1, HelloAckTyped
<1>2. CASE ClientWrites
  <2>1. /\ Tail(outbox) \in Seq(ItemType) /\ Head(outbox) \in ItemType
    BY <1>2, TailOf DEF ClientWrites, TypeOK
  <2>2. Append(up, Head(outbox)) \in Seq(ItemType)
    BY <2>1, AppendOf DEF TypeOK
  <2> QED
    BY <1>2, <2>1, <2>2 DEF ClientWrites, TypeOK
<1>3. CASE ClientReceives
  <2>1. Tail(down) \in Seq(Posts) /\ Head(down) \in Posts
    BY <1>3, TailOf DEF ClientReceives, TypeOK
  <2>2. Append(delivered, Head(down)) \in Seq(Posts)
    BY <2>1, AppendOf DEF TypeOK
  <2>3. delivered' \in Seq(Posts) /\ down' = Tail(down)
    BY <1>3, <2>2 DEF ClientReceives, TypeOK
  <2> QED
    BY <1>3, <2>1, <2>3 DEF ClientReceives, TypeOK
<1>4. CASE HubReceives
  <2> DEFINE m == Head(up)
  <2>1. Tail(up) \in Seq(ItemType) /\ m \in ItemType
    BY <1>4, TailOf DEF HubReceives, TypeOK
  <2>2. m.topic \in Topics
    BY <2>1 DEF ItemType
  <2>3. Append(lane, m.topic) \in Seq(Topics)
    BY <2>2, AppendOf DEF TypeOK
  <2>4. /\ lane' \in Seq(Topics) /\ subs' \subseteq Topics /\ inherited' \subseteq Topics
        /\ overtaken' \subseteq Topics
    BY <1>4, <2>2, <2>3 DEF HubReceives, TypeOK
  <2> QED
    BY <1>4, <2>1, <2>4 DEF HubReceives, TypeOK
<1>5. CASE SubscribeVerdict
  <2>1. Tail(lane) \in Seq(Topics) /\ Head(lane) \in Topics
    BY <1>5, TailOf DEF SubscribeVerdict, TypeOK
  <2>2. subs' \subseteq Topics /\ missed' \subseteq Topics
    BY <1>5, <2>1 DEF SubscribeVerdict, TypeOK
  <2> QED
    BY <1>5, <2>1, <2>2 DEF SubscribeVerdict, TypeOK
<1>6. ASSUME NEW s \in Sockets, PostVerdict(s) PROVE TypeOK'
  <2>1. Tail(queue[s]) \in Seq(Posts) /\ Head(queue[s]) \in Posts
    BY <1>6, TailOf DEF PostVerdict, TypeOK
  <2>2. down' \in Seq(Posts)
    BY <1>6, <2>1, SendTyped DEF PostVerdict, TypeOK
  <2>3. queue' \in [Sockets -> Seq(Posts)]
    BY <1>6, <2>1 DEF PostVerdict, TypeOK
  <2> QED
    BY <1>6, <2>2, <2>3 DEF PostVerdict, TypeOK
<1> QED
  BY <1>1, <1>2, <1>3, <1>4, <1>5, <1>6 DEF Messages

LEMMA OthersTyped ==
  ASSUME TypeOK,
         \/ Opens \/ LinkDown \/ HelloAccepted \/ HubForgets \/ PostArrives \/ PublisherReplaced
         \/ UNCHANGED vars
  PROVE  TypeOK'
<1>0. MaxPosts \in Nat /\ MaxDrops \in Nat
  BY TopicsAssumption DEF TopicsAssumption
<1>e. <<>> \in Seq(ItemType) /\ <<>> \in Seq(Topics) /\ <<>> \in Seq(Posts)
  OBVIOUS
<1> USE DEF subscriberVars, hubVars, publisherVars, fixed, history
<1>1. CASE Opens
  BY <1>1 DEF Opens, TypeOK
<1>2. CASE LinkDown
  <2>1. drops' \in 0 .. MaxDrops
    BY <1>0, <1>2 DEF LinkDown, ClosedByHub, TypeOK
  <2>2. outbox' \in Seq(ItemType) /\ down' \in Seq(Posts)
    BY <1>e, <1>2 DEF LinkDown, TypeOK
  <2> QED
    BY <1>2, <2>1, <2>2 DEF LinkDown, TypeOK
<1>3. CASE HelloAccepted
  BY <1>e, <1>3 DEF HelloAccepted, TypeOK
<1>4. CASE HubForgets
  <2>1. drops' \in 0 .. MaxDrops /\ subs' = {}
    BY <1>0, <1>4 DEF HubForgets, DropSubscriptions, TypeOK
  <2> QED
    BY <1>e, <1>4, <2>1 DEF HubForgets, TypeOK
<1>5. CASE PostArrives
  <2>1. next \in Posts /\ next' \in 1 .. MaxPosts + 1
    BY <1>0, <1>5 DEF PostArrives, Posts
  <2>2. queue' \in [Sockets -> Seq(Posts)]
    <3>1. Append(queue[current], next) \in Seq(Posts)
      BY <2>1, AppendOf DEF TypeOK
    <3> QED
      BY <1>5, <3>1 DEF PostArrives, TypeOK
  <2>3. down' \in Seq(Posts)
    BY <1>5, <2>1, SendTyped DEF PostArrives, TypeOK
  <2> QED
    BY <1>5, <2>1, <2>2, <2>3 DEF PostArrives, TypeOK
<1>6. CASE PublisherReplaced
  BY <1>6 DEF PublisherReplaced, TypeOK, Sockets
<1>7. CASE UNCHANGED vars
  BY <1>7 DEF vars, TypeOK
<1> QED
  BY <1>1, <1>2, <1>3, <1>4, <1>5, <1>6, <1>7

\* The tables keep their types, and a subscriber the hub has forgotten has left
\* nothing there: dropSubscriptionsFor() and the close handler.
THEOREM TypeCorrect == Spec => []TypeOK
<1>1. Init => TypeOK
  <2>1. /\ <<>> \in Seq(ItemType) /\ <<>> \in Seq(Topics) /\ <<>> \in Seq(Posts)
        /\ MaxPosts \in Nat /\ MaxUses \in Nat /\ MaxDrops \in Nat
    BY TopicsAssumption DEF TopicsAssumption
  <2> QED
    BY <2>1 DEF Init, TypeOK, Sockets
<1>2. TypeOK /\ [Next]_vars => TypeOK'
  BY ApplicationTyped, MessagesTyped, OthersTyped DEF Next
<1> QED
  BY <1>1, <1>2, PTL DEF Spec

-----------------------------------------------------------------------------
(***************************************************************************)
(* The order of the posts, from the lane of the publisher's socket to the  *)
(* handlers.  A lane holds posts whose kind is checked only, so a post     *)
(* that is not checked overtakes none that passes the same checks.         *)
(***************************************************************************)
\* p fits behind q, and before r.
Fits(q, p, G)  == \A i \in DOMAIN q : Same(q[i], p, G) => q[i] < p
Leads(p, r, G) == \A j \in DOMAIN r : Same(p, r[j], G) => p < r[j]

LEMMA TailInOrder ==
  ASSUME NEW G, NEW q \in Seq(Posts), q # <<>>, Sorted(q, G)
  PROVE  /\ Sorted(Tail(q), G) /\ Leads(Head(q), Tail(q), G)
         /\ \A n \in Nat : Below(q, n) => Below(Tail(q), n) /\ Head(q) < n
         /\ \A r \in Seq(Posts) : Before(r, q, G) => Before(r, Tail(q), G) /\ Fits(r, Head(q), G)
         /\ \A r \in Seq(Posts) : Before(q, r, G) => Before(Tail(q), r, G) /\ Leads(Head(q), r, G)
<1>1. /\ 1 \in DOMAIN q /\ Head(q) = q[1]
      /\ \A i \in DOMAIN Tail(q) : i \in Nat /\ i >= 1 /\ i + 1 \in DOMAIN q /\ Tail(q)[i] = q[i + 1]
  <2>1. /\ DOMAIN q = 1 .. Len(q) /\ Len(q) \in Nat /\ Len(q) >= 1 /\ Head(q) = q[1]
        /\ DOMAIN Tail(q) = 1 .. (Len(q) - 1)
        /\ \A i \in DOMAIN Tail(q) : i + 1 \in DOMAIN q /\ Tail(q)[i] = q[i + 1]
    BY TailOf
  <2> QED
    BY <2>1
<1>2. Sorted(Tail(q), G)
  <2> SUFFICES ASSUME NEW i \in DOMAIN Tail(q), NEW j \in DOMAIN Tail(q), i < j,
                      Same(Tail(q)[i], Tail(q)[j], G)
               PROVE  Tail(q)[i] < Tail(q)[j]
    BY DEF Sorted
  <2>1. i + 1 < j + 1
    BY <1>1
  <2> QED
    BY <1>1, <2>1 DEF Sorted
<1>3. Leads(Head(q), Tail(q), G)
  <2> SUFFICES ASSUME NEW j \in DOMAIN Tail(q), Same(Head(q), Tail(q)[j], G)
               PROVE  Head(q) < Tail(q)[j]
    BY DEF Leads
  <2>1. 1 < j + 1
    BY <1>1
  <2> QED
    BY <1>1, <2>1 DEF Sorted
<1>4. \A n \in Nat : Below(q, n) => Below(Tail(q), n) /\ Head(q) < n
  BY <1>1 DEF Below
<1>5. \A r \in Seq(Posts) : Before(r, q, G) => Before(r, Tail(q), G) /\ Fits(r, Head(q), G)
  BY <1>1 DEF Before, Fits
<1>6. \A r \in Seq(Posts) : Before(q, r, G) => Before(Tail(q), r, G) /\ Leads(Head(q), r, G)
  BY <1>1 DEF Before, Leads
<1> QED
  BY <1>2, <1>3, <1>4, <1>5, <1>6

LEMMA AppendInOrder ==
  ASSUME NEW G, NEW q \in Seq(Posts), NEW p \in Posts, Sorted(q, G), Fits(q, p, G)
  PROVE  /\ Sorted(Append(q, p), G)
         /\ \A n \in Nat : Below(q, n) /\ p < n => Below(Append(q, p), n)
         /\ \A r \in Seq(Posts) : Before(r, q, G) /\ Fits(r, p, G) => Before(r, Append(q, p), G)
         /\ \A r \in Seq(Posts) : Before(q, r, G) /\ Leads(p, r, G) => Before(Append(q, p), r, G)
<1> DEFINE a == Append(q, p)
           n == Len(q) + 1
<1>1. /\ DOMAIN a = DOMAIN q \cup {n} /\ n \in Nat /\ DOMAIN q \subseteq Nat
      /\ \A i \in DOMAIN q : a[i] = q[i] /\ i < n
      /\ a[n] = p
  <2>1. /\ DOMAIN q = 1 .. Len(q) /\ Len(q) \in Nat
        /\ DOMAIN Append(q, p) = DOMAIN q \cup {Len(q) + 1}
        /\ \A i \in DOMAIN q : Append(q, p)[i] = q[i] /\ i < Len(q) + 1
        /\ Append(q, p)[Len(q) + 1] = p
    BY AppendOf
  <2> QED
    BY <2>1
<1> HIDE DEF a, n
<1>2. Sorted(a, G)
  <2> SUFFICES ASSUME NEW i \in DOMAIN a, NEW j \in DOMAIN a, i < j, Same(a[i], a[j], G)
               PROVE  a[i] < a[j]
    BY DEF Sorted
  <2>1. i \in DOMAIN q
    BY <1>1
  <2>2. CASE j \in DOMAIN q
    BY <1>1, <2>1, <2>2 DEF Sorted
  <2>3. CASE j = n
    BY <1>1, <2>1, <2>3 DEF Fits
  <2> QED
    BY <1>1, <2>2, <2>3
<1>3. \A k \in Nat : Below(q, k) /\ p < k => Below(a, k)
  BY <1>1 DEF Below
<1>4. \A r \in Seq(Posts) : Before(r, q, G) /\ Fits(r, p, G) => Before(r, a, G)
  BY <1>1 DEF Before, Fits
<1>5. \A r \in Seq(Posts) : Before(q, r, G) /\ Leads(p, r, G) => Before(a, r, G)
  BY <1>1 DEF Before, Leads
<1> QED
  BY <1>2, <1>3, <1>4, <1>5 DEF a

\* Nothing is before or behind nothing.
LEMMA NothingInOrder ==
  ASSUME NEW G, NEW q
  PROVE  /\ Sorted(<<>>, G) /\ Before(<<>>, q, G) /\ Before(q, <<>>, G)
         /\ \A n : Below(<<>>, n)
<1>1. DOMAIN <<>> = {}
  OBVIOUS
<1> QED
  BY <1>1 DEF Sorted, Before, Below

\* Steps that move no post, but may lose those on their way to the subscriber.
LEMMA LosesInOrder ==
  ASSUME Ordered, down' \in {down, <<>>}, UNCHANGED <<delivered, queue, current, next, fixed>>
  PROVE  Ordered'
<1>1. Gated' = Gated
  BY DEF Gated, Type, fixed
<1>2. /\ Sorted(down', Gated) /\ Before(delivered, down', Gated)
      /\ Before(down', queue[current], Gated) /\ Below(down', next)
  <2>1. CASE down' = down
    BY <2>1 DEF Ordered
  <2>2. CASE down' = <<>>
    BY <2>2, NothingInOrder
  <2> QED
    BY <2>1, <2>2
<1> QED
  BY <1>1, <1>2 DEF Ordered

LEMMA ClientReceivesInOrder == ASSUME TypeOK, Ordered, ClientReceives PROVE Ordered'
<1> DEFINE p == Head(down)
           q == queue[current]
           G == Gated
<1>1. /\ down \in Seq(Posts) /\ down # <<>> /\ down' = Tail(down) /\ delivered \in Seq(Posts)
      /\ delivered' = delivered \/ delivered' = Append(delivered, p)
      /\ UNCHANGED <<queue, current, next, fixed>>
      /\ p \in Posts /\ Tail(down) \in Seq(Posts) /\ q \in Seq(Posts) /\ next \in Nat
  BY TailOf, TopicsAssumption DEF ClientReceives, TypeOK, publisherVars, Posts, TopicsAssumption
<1>2. Gated' = G
  BY <1>1 DEF Gated, Type, fixed
<1>3. /\ Sorted(delivered, G) /\ Sorted(down, G) /\ Before(delivered, down, G)
      /\ Before(delivered, q, G) /\ Before(down, q, G) /\ Below(delivered, next) /\ Below(down, next)
  BY DEF Ordered
<1> HIDE DEF p, q, G
<1>4. /\ Sorted(Tail(down), G) /\ Leads(p, Tail(down), G)
      /\ Below(Tail(down), next) /\ p < next
      /\ Before(delivered, Tail(down), G) /\ Fits(delivered, p, G)
      /\ Before(Tail(down), q, G) /\ Leads(p, q, G)
  BY <1>1, <1>3, TailInOrder DEF p
<1>5. /\ Sorted(delivered', G) /\ Below(delivered', next)
      /\ Before(delivered', Tail(down), G) /\ Before(delivered', q, G)
  <2>1. CASE delivered' = delivered
    BY <1>3, <1>4, <2>1
  <2>2. CASE delivered' = Append(delivered, p)
    <3>1. /\ Sorted(Append(delivered, p), G)
          /\ \A n \in Nat : Below(delivered, n) /\ p < n => Below(Append(delivered, p), n)
          /\ \A r \in Seq(Posts) :
                Before(delivered, r, G) /\ Leads(p, r, G) => Before(Append(delivered, p), r, G)
      BY <1>1, <1>3, <1>4, AppendInOrder
    <3> QED
      BY <1>1, <1>3, <1>4, <2>2, <3>1
  <2> QED
    BY <1>1, <2>1, <2>2
<1> QED
  BY <1>1, <1>2, <1>4, <1>5 DEF Ordered, q, G

\* A post that goes straight to the subscriber's socket.
LEMMA SendInOrder ==
  ASSUME TypeOK, Ordered, NEW p \in Posts, Send(p), NEW q \in Seq(Posts), NEW n \in Nat,
         Below(down, n), p < n,
         Fits(delivered, p, Gated), Fits(down, p, Gated), Leads(p, q, Gated),
         Before(down, q, Gated)
  PROVE  /\ Sorted(down', Gated) /\ Before(delivered, down', Gated)
         /\ Before(down', q, Gated) /\ Below(down', n)
<1>1. CASE down' = down
  BY <1>1 DEF Ordered
<1>2. CASE down' = Append(down, p)
  <2> DEFINE a == Append(down, p)
             G == Gated
  <2>1. down \in Seq(Posts) /\ delivered \in Seq(Posts) /\ Sorted(down, G) /\ Fits(down, p, G)
    BY DEF TypeOK, Ordered
  <2>2. Before(delivered, down, G) /\ Fits(delivered, p, G)
    BY DEF Ordered
  <2>3. Before(down, q, G) /\ Leads(p, q, G)
    OBVIOUS
  <2> HIDE DEF G
  <2>4. /\ Sorted(a, G)
        /\ \A k \in Nat : Below(down, k) /\ p < k => Below(a, k)
        /\ \A r \in Seq(Posts) : Before(r, down, G) /\ Fits(r, p, G) => Before(r, a, G)
        /\ \A r \in Seq(Posts) : Before(down, r, G) /\ Leads(p, r, G) => Before(a, r, G)
    BY <2>1, AppendInOrder
  <2> QED
    BY <1>2, <2>1, <2>2, <2>3, <2>4 DEF G
<1> QED
  BY <1>1, <1>2 DEF Send

LEMMA PostArrivesInOrder == ASSUME TypeOK, Ordered, PostArrives PROVE Ordered'
<1> DEFINE q == queue[current]
           G == Gated
<1>1. /\ next \in Posts /\ next' = next + 1 /\ Posts \subseteq Nat /\ current \in Sockets
      /\ UNCHANGED <<delivered, current, fixed>>
  BY TopicsAssumption DEF PostArrives, Posts, TypeOK, TopicsAssumption
<1>2. next \in Nat /\ next' \in Nat /\ next < next'
  BY <1>1
<1>3. Gated' = G
  BY <1>1 DEF Gated, Type, fixed
<1>4. /\ \A s \in Sockets : queue[s] \in Seq(Posts) /\ Below(queue[s], next) /\ Sorted(queue[s], G)
      /\ delivered \in Seq(Posts) /\ down \in Seq(Posts) /\ q \in Seq(Posts)
      /\ Below(delivered, next) /\ Below(down, next)
  BY <1>1 DEF TypeOK, Ordered
<1>5. ASSUME NEW r \in Seq(Posts), Below(r, next) PROVE Below(r, next') /\ Fits(r, next, G)
  <2>1. \A i \in DOMAIN r : r[i] \in Nat /\ r[i] < next
    BY <1>1, <1>5, LenProperties DEF Below
  <2> QED
    BY <1>2, <2>1 DEF Below, Fits
<1>6. CASE Type(next) \in gatedPosts
  <2>1. queue' = [queue EXCEPT ![current] = Append(@, next)] /\ down' = down /\ next \in G
    BY <1>1, <1>6 DEF PostArrives, Gated
  <2> DEFINE a == Append(q, next)
  <2>2. /\ queue'[current] = a
        /\ \A s \in Sockets : s # current => queue'[s] = queue[s]
    BY <1>1, <2>1 DEF TypeOK
  <2>3. Sorted(q, G) /\ Fits(q, next, G) /\ Before(delivered, q, G) /\ Before(down, q, G)
    BY <1>1, <1>4, <1>5 DEF Ordered
  <2>4. ToSet(a) \subseteq G
    <3>1. /\ DOMAIN a = DOMAIN q \cup {Len(q) + 1}
          /\ \A i \in DOMAIN q : a[i] = q[i]
          /\ a[Len(q) + 1] = next
      BY <1>1, <1>4, AppendOf
    <3>2. ToSet(q) \subseteq G
      BY <1>1 DEF Ordered
    <3> QED
      BY <2>1, <3>1, <3>2 DEF ToSet
  <2>5. next < next' /\ Below(q, next') /\ next' \in Nat
    BY <1>1, <1>2, <1>4, <1>5
  <2> HIDE DEF q, G
  <2>6. /\ Sorted(a, G)
        /\ \A n \in Nat : Below(q, n) /\ next < n => Below(a, n)
        /\ \A r \in Seq(Posts) : Before(r, q, G) /\ Fits(r, next, G) => Before(r, a, G)
    BY <1>1, <1>4, <2>3, AppendInOrder
  <2>7. Below(a, next') /\ Before(delivered, a, G) /\ Before(down, a, G)
    BY <1>4, <1>5, <2>3, <2>5, <2>6
  <2> HIDE DEF a
  <2>8. \A s \in Sockets : Sorted(queue'[s], G) /\ Below(queue'[s], next') /\ ToSet(queue'[s]) \subseteq G
    BY <1>4, <1>5, <2>2, <2>4, <2>6, <2>7 DEF Ordered, G
  <2>9. current = 1 => queue'[2] = <<>>
    BY <2>2 DEF Ordered, Sockets
  <2>10. Below(delivered, next') /\ Below(down, next')
    BY <1>4, <1>5
  <2> QED
    BY <1>1, <1>3, <2>1, <2>2, <2>7, <2>8, <2>9, <2>10 DEF Ordered, G
<1>7. CASE Type(next) \notin gatedPosts
  <2>1. Send(next) /\ queue' = queue /\ next \notin G
    BY <1>7 DEF PostArrives, Gated
  <2>2. Leads(next, q, G)
    BY <1>1, <2>1 DEF Leads, Same, Ordered, ToSet
  <2>3. Below(down, next') /\ Fits(delivered, next, G) /\ Fits(down, next, G) /\ Before(down, q, G)
    BY <1>4, <1>5 DEF Ordered
  <2>4. /\ Sorted(down', G) /\ Before(delivered, down', G)
        /\ Before(down', q, G) /\ Below(down', next')
    BY <1>1, <1>2, <1>4, <2>1, <2>2, <2>3, SendInOrder
  <2>5. Below(delivered, next') /\ \A s \in Sockets : Below(queue[s], next')
    BY <1>4, <1>5
  <2> QED
    BY <1>1, <1>3, <2>1, <2>4, <2>5 DEF Ordered
<1> QED
  BY <1>6, <1>7

LEMMA PostVerdictInOrder ==
  ASSUME TypeOK, Ordered, NEW s \in Sockets, PostVerdict(s) PROVE Ordered'
<1> DEFINE p == Head(queue[s])
           t == Tail(queue[s])
           G == Gated
<1>1. /\ queue[s] \in Seq(Posts) /\ queue[s] # <<>> /\ p \in Posts /\ t \in Seq(Posts)
      /\ delivered \in Seq(Posts) /\ down \in Seq(Posts) /\ current \in Sockets
      /\ next \in Nat
  BY TailOf, TopicsAssumption DEF PostVerdict, TypeOK, TopicsAssumption
<1>2. /\ queue'[s] = t
      /\ \A o \in Sockets : o # s => queue'[o] = queue[o]
      /\ UNCHANGED <<delivered, current, next, fixed>>
      /\ down' = down \/ (s = current /\ Send(p))
  BY DEF PostVerdict, StillCurrent, TypeOK
<1>3. Gated' = G
  BY <1>2 DEF Gated, Type, fixed
<1>4. /\ Sorted(queue[s], G) /\ Below(queue[s], next)
      /\ s = current => Before(delivered, queue[s], G) /\ Before(down, queue[s], G)
  BY DEF Ordered
<1>5. ToSet(t) \subseteq G
  <2>1. /\ ToSet(queue[s]) \subseteq G
        /\ \A i \in DOMAIN t : i + 1 \in DOMAIN queue[s] /\ t[i] = queue[s][i + 1]
    BY <1>1, TailOf DEF Ordered
  <2> QED
    BY <2>1 DEF ToSet
<1>6. /\ Sorted(t, G) /\ Leads(p, t, G)
      /\ \A n \in Nat : Below(queue[s], n) => Below(t, n) /\ p < n
      /\ \A r \in Seq(Posts) : Before(r, queue[s], G) => Before(r, t, G) /\ Fits(r, p, G)
  <2> HIDE DEF G
  <2> QED
    BY <1>1, <1>4, TailInOrder
<1>7. /\ Below(t, next) /\ p < next
      /\ s = current => /\ Before(delivered, t, G) /\ Fits(delivered, p, G)
                        /\ Before(down, t, G) /\ Fits(down, p, G)
  BY <1>1, <1>4, <1>6
<1> HIDE DEF p, t
<1>8. /\ Sorted(down', G) /\ Before(delivered, down', G) /\ Below(down', next)
      /\ Before(down', queue'[current], G)
  <2>1. CASE down' = down
    <3>1. Before(down, queue'[current], G)
      BY <1>1, <1>2, <1>7 DEF Ordered
    <3> QED
      BY <2>1, <3>1 DEF Ordered
  <2>2. CASE s = current /\ Send(p)
    <3>1. Below(down, next) /\ p < next /\ next \in Nat
      BY <1>1, <1>7 DEF Ordered
    <3>2. /\ Fits(delivered, p, Gated) /\ Fits(down, p, Gated) /\ Leads(p, t, Gated)
          /\ Before(down, t, Gated)
      BY <1>6, <1>7, <2>2
    <3>3. /\ Sorted(down', Gated) /\ Before(delivered, down', Gated)
          /\ Before(down', t, Gated) /\ Below(down', next)
      BY <1>1, <2>2, <3>1, <3>2, SendInOrder
    <3> QED
      BY <1>2, <2>2, <3>3
  <2> QED
    BY <1>2, <2>1, <2>2
<1>9. Before(delivered, queue'[current], G)
  BY <1>1, <1>2, <1>7 DEF Ordered
<1>10. /\ \A o \in Sockets : Sorted(queue'[o], G) /\ Below(queue'[o], next) /\ ToSet(queue'[o]) \subseteq G
       /\ Sorted(delivered, G) /\ Below(delivered, next)
  BY <1>2, <1>5, <1>6, <1>7 DEF Ordered
<1>11. current = 1 => queue'[2] = <<>>
  BY <1>1, <1>2 DEF Ordered, Sockets
<1> HIDE DEF G
<1> QED
  BY <1>2, <1>3, <1>8, <1>9, <1>10, <1>11 DEF Ordered

LEMMA PublisherReplacedInOrder == ASSUME TypeOK, Ordered, PublisherReplaced PROVE Ordered'
<1>1. /\ current = 1 /\ current' = 2 /\ queue[2] = <<>>
      /\ UNCHANGED <<delivered, down, queue, next, fixed>>
  BY DEF PublisherReplaced, Ordered, hubVars
<1>2. Gated' = Gated
  BY <1>1 DEF Gated, Type, fixed
<1>3. Before(delivered, queue[2], Gated) /\ Before(down, queue[2], Gated)
  BY <1>1, NothingInOrder
<1> QED
  BY <1>1, <1>2, <1>3 DEF Ordered

\* Posts that pass the same checks are delivered in the order they arrived, each
\* at most once: runInOrder(), which looks again after the verdict, and fanout().
THEOREM InOrder == Spec => []DeliveredInOrder
<1>1. Init => Ordered
  <2> SUFFICES ASSUME Init PROVE Ordered
    OBVIOUS
  <2>1. delivered = <<>> /\ down = <<>> /\ current = 1 /\ \A s \in Sockets : queue[s] = <<>>
    BY DEF Init
  <2>2. \A s \in Sockets : ToSet(queue[s]) = {}
    BY <2>1 DEF ToSet
  <2> QED
    BY <2>1, <2>2, NothingInOrder DEF Ordered, Sockets
<1>2. TypeOK /\ Ordered /\ [Next]_vars => Ordered'
  <2> SUFFICES ASSUME TypeOK, Ordered, [Next]_vars PROVE Ordered'
    OBVIOUS
  <2>1. CASE Application
    BY <2>1, LosesInOrder DEF Application, Subscribe, Unsubscribe, hubVars, publisherVars
  <2>2. CASE HelloAck \/ ClientWrites \/ HubReceives \/ SubscribeVerdict
    BY <2>2, LosesInOrder DEF HelloAck, ClientWrites, HubReceives, SubscribeVerdict, hubVars,
       publisherVars
  <2>3. CASE Opens \/ LinkDown \/ HelloAccepted \/ HubForgets \/ UNCHANGED vars
    BY <2>3, LosesInOrder DEF Opens, LinkDown, HelloAccepted, HubForgets, vars, hubVars,
       publisherVars
  <2>4. CASE Messages
    BY <2>2, <2>4, ClientReceivesInOrder, PostVerdictInOrder DEF Messages
  <2> QED
    BY <2>1, <2>3, <2>4, PostArrivesInOrder, PublisherReplacedInOrder DEF Next
<1>3. TypeOK /\ Ordered => DeliveredInOrder
  <2> SUFFICES ASSUME TypeOK, Ordered, NEW i \in DOMAIN delivered, NEW j \in DOMAIN delivered,
                      i < j, SameCheck(delivered[i], delivered[j])
               PROVE  delivered[i] < delivered[j]
    BY DEF DeliveredInOrder
  <2>1. delivered[i] \in Posts /\ delivered[j] \in Posts
    BY LenProperties DEF TypeOK
  <2>2. Same(delivered[i], delivered[j], Gated)
    BY <2>1 DEF Same, SameCheck, Gated
  <2> QED
    BY <2>2 DEF Ordered, Sorted
<1> QED
  BY <1>1, <1>2, <1>3, TypeCorrect, PTL DEF Spec

-----------------------------------------------------------------------------
(***************************************************************************)
(* Topics given up.  An unsubscribe waits in the outbox and on the socket  *)
(* behind every subscribe for its topic; a subscribe that waits for its    *)
(* verdict is not overtaken, or the topic is excused.                      *)
(***************************************************************************)
LEMMA ItemsDiffer ==
  /\ \A t, u : Sub(t) # Unsub(u)
  /\ \A t, u : Sub(t) = Sub(u) => t = u
  /\ \A t, u : Unsub(t) = Unsub(u) => t = u
  /\ \A m \in ItemType :
        /\ m.topic \in Topics
        /\ m.type = "topic.subscribe" => m = Sub(m.topic)
        /\ m.type = "topic.unsubscribe" => m = Unsub(m.topic)
        /\ m.type = "topic.subscribe" \/ m.type = "topic.unsubscribe"
BY DEF Sub, Unsub, Item, ItemType

\* What an item at the end does to the topics a queue ends.
LEMMA AddItem ==
  ASSUME NEW q \in Seq(ItemType), NEW m \in ItemType, NEW t
  PROVE  /\ m # Sub(t) /\ Ends(q, t) => Ends(Append(q, m), t)
         /\ m # Sub(t) /\ Free(q, t) => Free(Append(q, m), t)
         /\ m = Unsub(t) => Ends(Append(q, m), t)
<1> DEFINE a == Append(q, m)
           n == Len(q) + 1
<1>1. /\ DOMAIN a = DOMAIN q \cup {n} /\ n \in Nat /\ DOMAIN q \subseteq Nat
      /\ \A i \in DOMAIN q : a[i] = q[i] /\ i < n
      /\ a[n] = m
  <2>1. /\ DOMAIN q = 1 .. Len(q) /\ Len(q) \in Nat
        /\ DOMAIN Append(q, m) = DOMAIN q \cup {Len(q) + 1}
        /\ \A i \in DOMAIN q : Append(q, m)[i] = q[i] /\ i < Len(q) + 1
        /\ Append(q, m)[Len(q) + 1] = m
    BY AppendOf
  <2> QED
    BY <2>1
<1> HIDE DEF a, n
<1>2. ASSUME m # Sub(t), Ends(q, t) PROVE Ends(a, t)
  <2>1. PICK i \in DOMAIN q : q[i] = Unsub(t) /\ \A j \in DOMAIN q : j > i => q[j] # Sub(t)
    BY <1>2 DEF Ends
  <2>2. i \in DOMAIN a /\ a[i] = Unsub(t) /\ \A j \in DOMAIN a : j > i => a[j] # Sub(t)
    BY <1>1, <1>2, <2>1
  <2> QED
    BY <2>2 DEF Ends
<1>3. ASSUME m # Sub(t), Free(q, t) PROVE Free(a, t)
  BY <1>1, <1>3 DEF Free
<1>4. ASSUME m = Unsub(t) PROVE Ends(a, t)
  <2>1. n \in DOMAIN a /\ a[n] = Unsub(t) /\ \A j \in DOMAIN a : j > n => a[j] # Sub(t)
    BY <1>1, <1>4
  <2> QED
    BY <2>1 DEF Ends
<1> QED
  BY <1>2, <1>3, <1>4 DEF a

\* The same for the items of hello.ack, none of which is about t.
LEMMA AddItems ==
  ASSUME NEW q \in Seq(ItemType), NEW r \in Seq(ItemType), NEW t,
         \A i \in DOMAIN r : r[i] # Sub(t)
  PROVE  /\ Ends(q, t) => Ends(q \o r, t)
         /\ Free(q, t) => Free(q \o r, t)
<1> DEFINE a == q \o r
           n == Len(q)
<1>1. /\ n \in Nat /\ DOMAIN q = 1 .. n /\ DOMAIN q \subseteq DOMAIN a /\ DOMAIN a \subseteq Nat
      /\ \A i \in DOMAIN q : a[i] = q[i]
      /\ \A i \in DOMAIN a : i \in DOMAIN q \/ (i - n \in DOMAIN r /\ a[i] = r[i - n])
  <2>1. /\ Len(q) \in Nat /\ Len(r) \in Nat /\ DOMAIN q = 1 .. Len(q) /\ DOMAIN r = 1 .. Len(r)
    BY LenProperties
  <2>2. /\ DOMAIN (q \o r) = 1 .. Len(q) + Len(r)
        /\ \A i \in 1 .. Len(q) + Len(r) :
              (q \o r)[i] = IF i <= Len(q) THEN q[i] ELSE r[i - Len(q)]
    <3>1. /\ q \o r \in Seq(ItemType) /\ Len(q \o r) = Len(q) + Len(r)
          /\ \A i \in 1 .. Len(q) + Len(r) :
                (q \o r)[i] = IF i <= Len(q) THEN q[i] ELSE r[i - Len(q)]
      BY ConcatProperties
    <3> QED
      BY <3>1, LenProperties
  <2> HIDE DEF a
  <2>3. a = q \o r
    BY DEF a
  <2> QED
    BY <2>1, <2>2, <2>3
<1> HIDE DEF a, n
<1>2. ASSUME Ends(q, t) PROVE Ends(a, t)
  <2>1. PICK i \in DOMAIN q : q[i] = Unsub(t) /\ \A j \in DOMAIN q : j > i => q[j] # Sub(t)
    BY <1>2 DEF Ends
  <2>2. i \in DOMAIN a /\ a[i] = Unsub(t) /\ \A j \in DOMAIN a : j > i => a[j] # Sub(t)
    BY <1>1, <2>1
  <2> QED
    BY <2>2 DEF Ends
<1>3. ASSUME Free(q, t) PROVE Free(a, t)
  BY <1>1, <1>3 DEF Free
<1> QED
  BY <1>2, <1>3 DEF a

\* Taking the first item off a queue.
LEMMA TakeItem ==
  ASSUME NEW q \in Seq(ItemType), q # <<>>, NEW t
  PROVE  /\ Ends(q, t) => Ends(Tail(q), t) \/ (Head(q) = Unsub(t) /\ Free(Tail(q), t))
         /\ Free(q, t) => Free(Tail(q), t) /\ Head(q) # Sub(t)
<1>1. /\ 1 \in DOMAIN q /\ Head(q) = q[1] /\ DOMAIN q \subseteq Nat
      /\ \A i \in DOMAIN Tail(q) :
            i \in Nat /\ i + 1 > 1 /\ i + 1 \in DOMAIN q /\ Tail(q)[i] = q[i + 1]
      /\ \A i \in DOMAIN q : i # 1 => i - 1 \in DOMAIN Tail(q) /\ Tail(q)[i - 1] = q[i]
  <2>1. /\ DOMAIN q = 1 .. Len(q) /\ Len(q) \in Nat /\ Len(q) >= 1 /\ Head(q) = q[1]
        /\ DOMAIN Tail(q) = 1 .. (Len(q) - 1)
        /\ \A i \in DOMAIN Tail(q) : i + 1 \in DOMAIN q /\ Tail(q)[i] = q[i + 1]
        /\ \A i \in DOMAIN q : i # 1 => i - 1 \in DOMAIN Tail(q) /\ Tail(q)[i - 1] = q[i]
    BY TailOf
  <2> QED
    BY <2>1
<1>2. ASSUME Ends(q, t) PROVE Ends(Tail(q), t) \/ (Head(q) = Unsub(t) /\ Free(Tail(q), t))
  <2>1. PICK i \in DOMAIN q : q[i] = Unsub(t) /\ \A j \in DOMAIN q : j > i => q[j] # Sub(t)
    BY <1>2 DEF Ends
  <2>2. CASE i = 1
    BY <1>1, <2>1, <2>2 DEF Free
  <2>3. CASE i # 1
    <3>1. i - 1 \in DOMAIN Tail(q) /\ Tail(q)[i - 1] = Unsub(t)
      BY <1>1, <2>1, <2>3
    <3>2. \A j \in DOMAIN Tail(q) : j > i - 1 => Tail(q)[j] # Sub(t)
      <4> SUFFICES ASSUME NEW j \in DOMAIN Tail(q), j > i - 1 PROVE Tail(q)[j] # Sub(t)
        OBVIOUS
      <4>1. j + 1 > i /\ j + 1 \in DOMAIN q
        BY <1>1, <2>1
      <4> QED
        BY <1>1, <2>1, <4>1
    <3> QED
      BY <3>1, <3>2 DEF Ends
  <2> QED
    BY <2>2, <2>3
<1>3. ASSUME Free(q, t) PROVE Free(Tail(q), t) /\ Head(q) # Sub(t)
  BY <1>1, <1>3 DEF Free
<1> QED
  BY <1>2, <1>3

LEMMA NothingLingers == ASSUME NEW t PROVE Free(<<>>, t) /\ t \notin ToSet(<<>>)
<1>1. DOMAIN <<>> = {}
  OBVIOUS
<1> QED
  BY <1>1 DEF Free, ToSet

LEMMA SubscribeLeaves ==
  ASSUME TypeOK, Lingers, NEW u \in Topics, NEW h \in Handlers, Subscribe(u, h) PROVE Lingers'
<1>1. /\ UNCHANGED <<link, registered, up, lane, subs, inherited>>
      /\ outbox' \in {outbox, Append(outbox, Sub(u))} /\ outbox \in Seq(ItemType)
  BY DEF Subscribe, Tell, Sub, hubVars, TypeOK
<1>2. Given' \subseteq Given \ {u}
  BY DEF Subscribe, Tell, Given, Subscribed, TypeOK
<1>3. ASSUME NEW t \in Given'
      PROVE  /\ Ends(outbox, t) => Ends(outbox', t)
             /\ Free(outbox, t) => Free(outbox', t)
  <2>1. Sub(u) # Sub(t) /\ Sub(u) \in ItemType
    BY <1>2, ItemsDiffer, ItemIs
  <2> QED
    BY <1>1, <2>1, AddItem
<1> QED
  BY <1>1, <1>2, <1>3 DEF Lingers, Accepted

LEMMA UnsubscribeLeaves ==
  ASSUME TypeOK, Lingers, NEW u \in Topics, NEW those, Unsubscribe(u, those) PROVE Lingers'
<1>1. /\ UNCHANGED <<link, registered, up, lane, subs, inherited>>
      /\ outbox' = outbox \/ outbox' = Append(outbox, Unsub(u))
      /\ outbox \in Seq(ItemType) /\ Unsub(u) \in ItemType
  BY ItemIs DEF Unsubscribe, Tell, Unsub, hubVars, TypeOK
<1>2. /\ Given' \subseteq Given \cup {u}
      /\ u \in Given' \ Given => outbox' = Append(outbox, Unsub(u))
  BY DEF Unsubscribe, LastOne, Tell, Unsub, Given, Subscribed, TypeOK
<1>3. ASSUME NEW t \in Given'
      PROVE  /\ Ends(outbox, t) => Ends(outbox', t)
             /\ Free(outbox, t) => Free(outbox', t)
  <2> DEFINE a == Append(outbox, Unsub(u))
  <2>1. Unsub(u) # Sub(t)
    BY ItemsDiffer
  <2>2. (Ends(outbox, t) => Ends(a, t)) /\ (Free(outbox, t) => Free(a, t))
    BY <1>1, <2>1, AddItem
  <2> HIDE DEF a
  <2>3. outbox' = outbox \/ outbox' = a
    BY <1>1 DEF a
  <2> QED
    BY <2>2, <2>3
<1>4. u \in Given' \ Given => Ends(outbox', u)
  BY <1>1, <1>2, AddItem
<1> QED
  BY <1>1, <1>2, <1>3, <1>4 DEF Lingers, Accepted

LEMMA HelloAckLeaves == ASSUME TypeOK, Lingers, HelloAck PROVE Lingers'
<1>1. /\ UNCHANGED <<handlers, registered, up, lane, subs, inherited, offline, overtaken>>
      /\ missed \subseteq missed' /\ link = "accepted" /\ link' = "ready"
  BY DEF HelloAck, hubVars
<1>2. Given' \subseteq Given
  BY <1>1 DEF Given, Subscribed
<1>3. PICK refused \in SUBSET Repeat : \E kept \in SetToSeqs(Repeat \ refused) :
        outbox' = outbox \o [i \in DOMAIN kept |-> Item("topic.subscribe", kept[i])]
  BY DEF HelloAck
<1>4. PICK kept \in SetToSeqs(Repeat \ refused) :
        outbox' = outbox \o [i \in DOMAIN kept |-> Item("topic.subscribe", kept[i])]
  BY <1>3
<1> DEFINE r == [i \in DOMAIN kept |-> Item("topic.subscribe", kept[i])]
<1>5. Repeat \ refused \in SUBSET Topics
  BY DEF Repeat, Subscribed
<1>6. kept \in Seq(Repeat \ refused) /\ r \in Seq(ItemType) /\ outbox \in Seq(ItemType)
  BY <1>5, Repeated DEF TypeOK
<1>7. ASSUME NEW t \in Given'
      PROVE  /\ Ends(outbox, t) => Ends(outbox', t)
             /\ Free(outbox, t) => Free(outbox', t)
  <2>1. \A i \in DOMAIN r : r[i] # Sub(t)
    <3> SUFFICES ASSUME NEW i \in DOMAIN kept, Item("topic.subscribe", kept[i]) = Sub(t)
                 PROVE  FALSE
      OBVIOUS
    <3>1. kept[i] \in Repeat
      BY <1>6, LenProperties
    <3>2. t \notin Repeat
      BY <1>2 DEF Given, Repeat
    <3> QED
      BY <3>1, <3>2 DEF Item, Sub
  <2> HIDE DEF r
  <2>2. (Ends(outbox, t) => Ends(outbox \o r, t)) /\ (Free(outbox, t) => Free(outbox \o r, t))
    BY <1>6, <2>1, AddItems
  <2> QED
    BY <1>4, <2>2 DEF r
<1> QED
  BY <1>1, <1>2, <1>7 DEF Lingers, Accepted

LEMMA ClientWritesLeaves == ASSUME TypeOK, Lingers, ClientWrites PROVE Lingers'
<1> DEFINE m == Head(outbox)
<1>1. /\ UNCHANGED <<handlers, link, registered, lane, subs, inherited, offline, overtaken, missed>>
      /\ outbox \in Seq(ItemType) /\ outbox # <<>> /\ outbox' = Tail(outbox) /\ link = "ready"
      /\ up' = IF registered = "this" THEN Append(up, m) ELSE up
      /\ up \in Seq(ItemType)
  BY DEF ClientWrites, hubVars, history, TypeOK
<1>2. Given' = Given /\ m \in ItemType
  BY <1>1, TailOf DEF Given, Subscribed
<1> HIDE DEF m
<1>3. ASSUME NEW t \in Given
      PROVE  /\ Ends(outbox', t) \/ Free(outbox', t)
             /\ \/ Ends(outbox', t) \/ Ends(up', t)
                \/ Free(up', t) /\ t \notin ToSet(lane) /\ (t \in subs => t \in inherited)
  <2>1. /\ Ends(outbox, t) => Ends(outbox', t) \/ (m = Unsub(t) /\ Free(outbox', t))
        /\ Free(outbox, t) => Free(outbox', t) /\ m # Sub(t)
    BY <1>1, TakeItem DEF m
  <2>2. /\ Ends(outbox, t) \/ Free(outbox, t)
        /\ \/ Ends(outbox, t) \/ Ends(up, t)
           \/ Free(up, t) /\ t \notin ToSet(lane) /\ (t \in subs => t \in inherited)
    BY <1>1 DEF Lingers, Accepted
  <2>3. CASE registered = "this"
    <3>1. /\ m # Sub(t) /\ Ends(up, t) => Ends(up', t)
          /\ m # Sub(t) /\ Free(up, t) => Free(up', t)
          /\ m = Unsub(t) => Ends(up', t)
      BY <1>1, <1>2, <2>3, AddItem
    <3> QED
      BY <2>1, <2>2, <3>1
  <2>4. CASE registered # "this"
    <3>1. subs = {} /\ lane = <<>> /\ up' = <<>>
      BY <1>1, <2>4 DEF Lingers, Accepted, TypeOK
    <3> QED
      BY <2>1, <2>2, <3>1, NothingLingers
  <2> QED
    BY <2>3, <2>4
<1> QED
  BY <1>1, <1>2, <1>3 DEF Lingers, Accepted

LEMMA HubReceivesLeaves == ASSUME TypeOK, Lingers, HubReceives PROVE Lingers'
<1> DEFINE m == Head(up)
           u == m.topic
<1>1. /\ UNCHANGED <<handlers, link, outbox, registered, offline, missed>>
      /\ up \in Seq(ItemType) /\ up # <<>> /\ up' = Tail(up)
      /\ \/ /\ m.type = "topic.subscribe"
            /\ \/ lane' = Append(lane, u) /\ UNCHANGED subs
               \/ subs' = subs \cup {u} /\ UNCHANGED lane
            /\ UNCHANGED <<inherited, overtaken>>
         \/ /\ m.type = "topic.unsubscribe"
            /\ subs' = subs \ {u} /\ inherited' = inherited \ {u}
            /\ overtaken' = overtaken \cup (ToSet(lane) \cap {u})
            /\ UNCHANGED lane
  BY DEF HubReceives, TypeOK
<1>2. /\ m \in ItemType /\ u \in Topics
      /\ m.type = "topic.subscribe" => m = Sub(u)
      /\ m.type = "topic.unsubscribe" => m = Unsub(u)
  BY <1>1, TailOf, ItemsDiffer
<1>3. Given' \subseteq Given
  BY <1>1 DEF Given, Subscribed
<1>4. ToSet(Append(lane, u)) = ToSet(lane) \cup {u}
  <2>1. /\ DOMAIN Append(lane, u) = DOMAIN lane \cup {Len(lane) + 1}
        /\ \A i \in DOMAIN lane : Append(lane, u)[i] = lane[i]
        /\ Append(lane, u)[Len(lane) + 1] = u
    BY <1>2, AppendOf DEF TypeOK
  <2> QED
    BY <2>1 DEF ToSet
<1>5. ASSUME NEW t \in Given', Accepted
      PROVE  \/ Ends(outbox, t) \/ Ends(up', t)
             \/ Free(up', t) /\ t \notin ToSet(lane') /\ (t \in subs' => t \in inherited')
  <2>1. /\ Ends(up, t) => Ends(up', t) \/ (m = Unsub(t) /\ Free(up', t))
        /\ Free(up, t) => Free(up', t) /\ m # Sub(t)
    BY <1>1, TakeItem
  <2>2. \/ Ends(outbox, t) \/ Ends(up, t)
        \/ Free(up, t) /\ t \notin ToSet(lane) /\ (t \in subs => t \in inherited)
    BY <1>3, <1>5 DEF Lingers
  <2> HIDE DEF m, u
  <2>3. CASE Free(up, t) /\ t \notin ToSet(lane) /\ (t \in subs => t \in inherited)
    <3>1. m.type = "topic.subscribe" => u # t
      BY <1>2, <2>1, <2>3
    <3> QED
      BY <1>1, <1>4, <2>1, <2>3, <3>1
  <2>4. CASE m = Unsub(t) /\ Free(up', t)
    <3>1. m.type = "topic.unsubscribe" /\ u = t
      BY <1>2, <2>4, ItemsDiffer
    <3>2. t \notin ToSet(lane)
      BY <1>1, <3>1 DEF Given
    <3> QED
      BY <1>1, <2>4, <3>1, <3>2
  <2> QED
    BY <2>1, <2>2, <2>3, <2>4
<1> QED
  BY <1>1, <1>3, <1>5 DEF Lingers, Accepted

LEMMA SubscribeVerdictLeaves == ASSUME TypeOK, Lingers, SubscribeVerdict PROVE Lingers'
<1>1. /\ UNCHANGED <<handlers, link, outbox, up, registered, offline, overtaken, inherited>>
      /\ lane \in Seq(Topics) /\ lane # <<>> /\ lane' = Tail(lane)
      /\ missed \subseteq missed' /\ subs' \subseteq subs \cup {Head(lane)}
  BY DEF SubscribeVerdict, subscriberVars, TypeOK
<1>2. ToSet(Tail(lane)) \subseteq ToSet(lane) /\ Head(lane) \in ToSet(lane)
  <2>1. /\ 1 \in DOMAIN lane /\ Head(lane) = lane[1]
        /\ \A i \in DOMAIN Tail(lane) : i + 1 \in DOMAIN lane /\ Tail(lane)[i] = lane[i + 1]
    BY <1>1, TailOf
  <2> QED
    BY <2>1 DEF ToSet
<1>3. Given' \subseteq Given
  BY <1>1 DEF Given, Subscribed
<1> QED
  BY <1>1, <1>2, <1>3 DEF Lingers, Accepted

LEMMA LinksLeave ==
  ASSUME TypeOK, Lingers, LinkDown \/ HelloAccepted \/ HubForgets \/ Opens PROVE Lingers'
<1>1. Given' = Given
  BY DEF LinkDown, HelloAccepted, HubForgets, Opens, Given, Subscribed, subscriberVars, history
<1>2. CASE LinkDown
  <2>1. /\ \A t \in Given : Ends(outbox', t) \/ Free(outbox', t)
        /\ ~Accepted'
    BY <1>2, NothingLingers DEF LinkDown, Lingers, Accepted
  <2> QED
    BY <1>1, <2>1 DEF Lingers
<1>3. CASE HelloAccepted
  <2>1. /\ registered' = "this" /\ up' = <<>> /\ lane' = <<>> /\ inherited' = subs
        /\ UNCHANGED <<outbox, subs>>
    BY <1>3 DEF HelloAccepted
  <2> QED
    BY <1>1, <2>1, NothingLingers DEF Lingers
<1>4. CASE HubForgets
  <2>1. /\ registered' = "none" /\ up' = <<>> /\ lane' = <<>> /\ subs' = {}
        /\ UNCHANGED <<outbox, link>>
    BY <1>4 DEF HubForgets, DropSubscriptions
  <2> QED
    BY <1>1, <2>1, NothingLingers DEF Lingers
<1>5. CASE Opens
  <2>1. ~Accepted' /\ UNCHANGED outbox
    BY <1>5 DEF Opens, Accepted
  <2> QED
    BY <1>1, <2>1 DEF Lingers
<1> QED
  BY <1>2, <1>3, <1>4, <1>5

\* The steps that concern posts only.
LEMMA OthersLeave ==
  ASSUME Lingers,
         \/ ClientReceives \/ PostArrives \/ PublisherReplaced \/ UNCHANGED vars
         \/ \E s \in Sockets : PostVerdict(s)
  PROVE  Lingers'
<1>1. UNCHANGED <<handlers, link, outbox, up, registered, lane, subs, offline, inherited, overtaken,
                  missed>>
  BY DEF ClientReceives, PostArrives, PublisherReplaced, PostVerdict, vars, subscriberVars, hubVars,
         history
<1>2. Given' = Given /\ Accepted' = Accepted
  BY <1>1 DEF Given, Subscribed, Accepted
<1> QED
  BY <1>1, <1>2 DEF Lingers

\* A topic given up while the link is ready is given up at the hub, whatever is
\* still queued or pending: unsubscribe(), and the order of the outbox.
THEOREM GivenUp == Spec => []LingersOnlyIfOffline
<1>1. Init => Lingers
  <2> SUFFICES ASSUME Init PROVE Lingers
    OBVIOUS
  <2>1. outbox = <<>> /\ ~Accepted
    BY DEF Init, Accepted
  <2> QED
    BY <2>1, NothingLingers DEF Lingers
<1>2. TypeOK /\ Lingers /\ [Next]_vars => Lingers'
  <2> SUFFICES ASSUME TypeOK, Lingers, [Next]_vars PROVE Lingers'
    OBVIOUS
  <2>1. CASE Application
    BY <2>1, SubscribeLeaves, UnsubscribeLeaves DEF Application
  <2>2. CASE Messages
    BY <2>2, HelloAckLeaves, ClientWritesLeaves, HubReceivesLeaves, SubscribeVerdictLeaves,
       OthersLeave DEF Messages
  <2> QED
    BY <2>1, <2>2, LinksLeave, OthersLeave DEF Next
<1>3. TypeOK /\ Lingers => LingersOnlyIfOffline
  <2> SUFFICES ASSUME TypeOK, Lingers, Quiet, NEW t \in subs, t \in Given, t \notin inherited
               PROVE  FALSE
    BY DEF LingersOnlyIfOffline, Given, TypeOK
  <2>1. Accepted /\ outbox = <<>> /\ up = <<>>
    BY DEF Quiet, Accepted
  <2>2. ~Ends(<<>>, t)
    <3>1. DOMAIN <<>> = {}
      OBVIOUS
    <3> QED
      BY <3>1 DEF Ends
  <2> QED
    BY <2>1, <2>2 DEF Lingers
<1> QED
  BY <1>1, <1>2, <1>3, TypeCorrect, PTL DEF Spec
=============================================================================
