-------------------------------- MODULE Topics --------------------------------
(***************************************************************************)
(* Publish/subscribe and direct messages from end to end: one subscriber   *)
(* (subscribe, unsubscribe, what hello.ack and the close event do with     *)
(* subscriptions, src/src/client/), the hub's subscription table and       *)
(* fan-out (src/src/hub/dispatch.js), and one publisher, whose posts wait  *)
(* in the lane of its socket while canPublish or canSend is asked.         *)
(*                                                                         *)
(* The subscriber's outbox survives a broken link; its socket is a FIFO.   *)
(* The hub may still know an earlier socket of the subscriber, and the     *)
(* next one then replaces it.  The hub has topics (HUB_FEATURES); module   *)
(* Outbox has the purge for one that has not.  Who is admitted, and what   *)
(* else a departure removes, is in module Hub.                             *)
(***************************************************************************)
EXTENDS Naturals, Sequences, FiniteSets, SequencesExt

CONSTANTS
    Topics,
    Handlers,
    MaxPosts,       \* bound of the model on posts
    MaxUses,        \* bound of the model on subscribe() and unsubscribe()
    MaxDrops        \* bound of the model on broken links and stops

ASSUME TopicsAssumption ==
    /\ IsFiniteSet(Topics) /\ IsFiniteSet(Handlers)
    /\ MaxPosts \in Nat /\ MaxUses \in Nat /\ MaxDrops \in Nat

Posts   == 1 .. MaxPosts
Sockets == {1, 2}               \* of the publisher
Direct  == "direct"             \* a post that is a directed message

VARIABLES
    \* The subscriber.
    handlers,       \* _subscriptions
    link,           \* its socket: "down", "opening", "accepted", "ready"
    outbox,         \* its subscribes and unsubscribes not yet written
    up,             \* written to the hub
    \* The hub, of the subscriber.
    registered,     \* whose socket clients.get() returns
    lane,           \* subscribes that wait for canSubscribe
    subs,           \* the topics that list the subscriber
    down,           \* posts on their way to it
    \* The hub, of the publisher.
    current,        \* its socket
    next,           \* the post that arrives next
    queue,          \* per socket the posts that wait for their verdicts
    \* Fixed for a behaviour.
    about,          \* per post its topic, or Direct
    gatedPosts,     \* canPublish, canSend are configured
    gatedSubscribe, \* canSubscribe is configured
    \* History, and what is left to do.
    delivered,      \* the posts handlers got
    offline,        \* topics given up while the link was not ready
    inherited,      \* topics a socket took over from the one it replaced
    overtaken,      \* topics whose unsubscribe overtook the subscribe
    missed,         \* topics of which a message was refused, or denied
    uses, drops

subscriberVars == <<handlers, link, outbox, up>>
hubVars        == <<registered, lane, subs, down>>
publisherVars  == <<current, next, queue>>
fixed          == <<about, gatedPosts, gatedSubscribe>>
history        == <<offline, inherited, overtaken, missed, uses, drops>>
vars == <<subscriberVars, hubVars, publisherVars, fixed, delivered, history>>

Subscribed == {t \in Topics : handlers[t] # {}}
Item(type, t) == [type |-> type, topic |-> t]

Init ==
    /\ handlers = [t \in Topics |-> {}] /\ link = "down" /\ outbox = <<>> /\ up = <<>>
    /\ registered = "none" /\ lane = <<>> /\ subs = {} /\ down = <<>>
    /\ current = 1 /\ next = 1 /\ queue = [s \in Sockets |-> <<>>]
    /\ about \in [Posts -> Topics \cup {Direct}]
    /\ gatedPosts \in SUBSET {"topic.message", "direct"} /\ gatedSubscribe \in BOOLEAN
    /\ delivered = <<>> /\ offline = {} /\ inherited = {} /\ overtaken = {} /\ missed = {}
    /\ uses = 0 /\ drops = 0

-----------------------------------------------------------------------------
(***************************************************************************)
(* The subscriber.                                                         *)
(***************************************************************************)
Use == uses < MaxUses /\ uses' = uses + 1

\* _send() while the link is ready; a full outbox refuses it.
Tell(type, t) ==
    \/ outbox' = Append(outbox, Item(type, t)) /\ UNCHANGED missed
    \/ missed' = missed \cup {t} /\ UNCHANGED outbox

Subscribe(t, h) ==
    /\ Use
    /\ handlers' = [handlers EXCEPT ![t] = @ \cup {h}]
    /\ IF handlers[t] = {} /\ link = "ready"
       THEN Tell("topic.subscribe", t)
       ELSE UNCHANGED <<outbox, missed>>
    /\ offline' = offline \ {t}
    /\ UNCHANGED <<link, up, hubVars, publisherVars, fixed, delivered, inherited, overtaken,
                   drops>>

\* Mutant: the hub is not told.
LastOne_Never(left) == FALSE
LastOne(left) == left = {}

\* unsubscribe(topic) and unsubscribe(topic, handler).
Unsubscribe(t, those) ==
    /\ Use
    /\ handlers[t] # {}
    /\ LET left == handlers[t] \ those
       IN  /\ handlers' = [handlers EXCEPT ![t] = left]
           /\ IF LastOne(left) /\ link = "ready"
              THEN Tell("topic.unsubscribe", t) /\ UNCHANGED offline
              ELSE /\ offline' = IF left = {} /\ link # "ready" THEN offline \cup {t} ELSE offline
                   /\ UNCHANGED <<outbox, missed>>
    /\ UNCHANGED <<link, up, hubVars, publisherVars, fixed, delivered, inherited, overtaken,
                   drops>>

Opens ==
    /\ link = "down"
    /\ link' = "opening"
    /\ UNCHANGED <<handlers, outbox, up, hubVars, publisherVars, fixed, delivered, history>>

\* Mutant: what the link was subscribed to is not repeated.
Repeat_Nothing == {}
\* What hello.ack subscribes to again.
Repeat == Subscribed

\* The transition to ready, with the drain that ClientWrites continues.
HelloAck ==
    /\ link = "accepted"
    /\ link' = "ready"
    /\ \E refused \in SUBSET Repeat :
          /\ missed' = missed \cup refused
          /\ \E kept \in SetToSeqs(Repeat \ refused) :
                outbox' = outbox \o [i \in DOMAIN kept |-> Item("topic.subscribe", kept[i])]
    /\ UNCHANGED <<handlers, up, hubVars, publisherVars, fixed, delivered, offline, inherited,
                   overtaken, uses, drops>>

ClientWrites ==
    /\ outbox # <<>> /\ link = "ready"
    /\ outbox' = Tail(outbox)
    /\ up' = IF registered = "this" THEN Append(up, Head(outbox)) ELSE up
    /\ UNCHANGED <<handlers, link, hubVars, publisherVars, fixed, delivered, history>>

\* topic.message and direct, at the client.
ClientReceives ==
    /\ down # <<>> /\ link \in {"accepted", "ready"}
    /\ down' = Tail(down)
    /\ LET p == Head(down)
       IN  delivered' = IF about[p] = Direct \/ about[p] \in Subscribed
                        THEN Append(delivered, p) ELSE delivered
    /\ UNCHANGED <<subscriberVars, registered, lane, subs, publisherVars, fixed, history>>

\* The hub has closed the socket.
ClosedByHub == link \in {"accepted", "ready"} /\ registered = "none"

\* The close event keeps what is queued for the hub; stop() does not.
LinkDown ==
    /\ link # "down"
    /\ link' = "down"
    /\ ~ClosedByHub => drops < MaxDrops
    /\ drops' = IF ClosedByHub THEN drops ELSE drops + 1
    /\ registered' = IF registered = "this" THEN "earlier" ELSE registered
    /\ outbox' \in {outbox, <<>>}
    /\ down' = <<>>
    /\ UNCHANGED <<handlers, up, lane, subs, publisherVars, fixed, delivered, offline, inherited,
                   overtaken, missed, uses>>

-----------------------------------------------------------------------------
(***************************************************************************)
(* The hub, of the subscriber.                                             *)
(***************************************************************************)
\* The hello of the next socket, which may replace an earlier one: what that
\* one had sent or waits for is stale; the subscriptions of the kind stay.
HelloAccepted ==
    /\ link = "opening"
    /\ link' = "accepted"
    /\ registered' = "this"
    /\ up' = <<>> /\ lane' = <<>> /\ down' = <<>>
    /\ inherited' = subs
    /\ UNCHANGED <<handlers, outbox, subs, publisherVars, fixed, delivered, offline, overtaken,
                   missed, uses, drops>>

\* Mutant: the subscriptions of a kind survive its disconnect.
DropSubscriptions_Not == UNCHANGED subs
\* dropSubscriptionsFor()
DropSubscriptions == subs' = {}

\* The close event, or the keepalive.
HubForgets ==
    /\ registered # "none"
    /\ registered = "this" => drops < MaxDrops
    /\ drops' = IF registered = "this" THEN drops + 1 ELSE drops
    /\ registered' = "none"
    /\ DropSubscriptions
    /\ up' = <<>> /\ lane' = <<>>
    /\ UNCHANGED <<handlers, link, outbox, down, publisherVars, fixed, delivered, offline, inherited,
                   overtaken, missed, uses>>

HubReceives ==
    /\ up # <<>> /\ registered # "none"
    /\ up' = Tail(up)
    /\ LET m == Head(up)
       IN  \/ /\ m.type = "topic.subscribe" /\ gatedSubscribe
              /\ lane' = Append(lane, m.topic)
              /\ UNCHANGED <<subs, inherited, overtaken>>
           \/ /\ m.type = "topic.subscribe" /\ ~gatedSubscribe
              /\ subs' = subs \cup {m.topic}
              /\ UNCHANGED <<lane, inherited, overtaken>>
           \/ /\ m.type = "topic.unsubscribe"
              /\ subs' = subs \ {m.topic}
              /\ inherited' = inherited \ {m.topic}
              /\ overtaken' = overtaken \cup (ToSet(lane) \cap {m.topic})
              /\ UNCHANGED lane
    /\ UNCHANGED <<handlers, link, outbox, registered, down, publisherVars, fixed, delivered,
                   offline, missed, uses, drops>>

\* canSubscribe answers for the first in the lane.
SubscribeVerdict ==
    /\ lane # <<>>
    /\ lane' = Tail(lane)
    /\ \/ subs' = subs \cup {Head(lane)} /\ UNCHANGED missed
       \/ missed' = missed \cup {Head(lane)} /\ UNCHANGED subs
    /\ UNCHANGED <<subscriberVars, registered, down, publisherVars, fixed, delivered, offline,
                   inherited, overtaken, uses, drops>>

-----------------------------------------------------------------------------
(***************************************************************************)
(* The hub, of the publisher.                                              *)
(***************************************************************************)
Type(p) == IF about[p] = Direct THEN "direct" ELSE "topic.message"

\* Who is sent a post: fanout() and forward().
Addressed(p) == registered # "none" /\ (about[p] = Direct \/ about[p] \in subs)

\* The subscriber's outbox may refuse the post; an earlier socket loses it.
Send(p) ==
    \/ /\ Addressed(p) /\ registered = "this"
       /\ down' = Append(down, p)
    \/ UNCHANGED down

PostArrives ==
    /\ next \in Posts
    /\ next' = next + 1
    /\ IF Type(next) \in gatedPosts
       THEN queue' = [queue EXCEPT ![current] = Append(@, next)] /\ UNCHANGED down
       ELSE Send(next) /\ UNCHANGED queue
    /\ UNCHANGED <<subscriberVars, registered, lane, subs, current, fixed, delivered, history>>

\* Mutant: the lane does not look again after the verdict.
StillCurrent_Any(s) == TRUE
StillCurrent(s) == current = s

\* canPublish or canSend answers for the first in the lane of socket s, and
\* the next is asked about (runInOrder).
PostVerdict(s) ==
    /\ queue[s] # <<>>
    /\ queue' = [queue EXCEPT ![s] = Tail(@)]
    /\ \/ StillCurrent(s) /\ Send(Head(queue[s]))
       \/ UNCHANGED down
    /\ UNCHANGED <<subscriberVars, registered, lane, subs, current, next, fixed, delivered, history>>

\* The publisher's next socket replaces the first, or comes after its close.
PublisherReplaced ==
    /\ current = 1
    /\ current' = 2
    /\ UNCHANGED <<subscriberVars, hubVars, next, queue, fixed, delivered, history>>

Application ==
    \E t \in Topics :
        \/ \E h \in Handlers : Subscribe(t, h)
        \/ \E those \in {Handlers} \cup {{h} : h \in Handlers} : Unsubscribe(t, those)

Messages ==
    \/ HelloAck \/ ClientWrites \/ ClientReceives
    \/ HubReceives \/ SubscribeVerdict
    \/ \E s \in Sockets : PostVerdict(s)

Next ==
    \/ Application \/ Messages
    \/ Opens \/ LinkDown \/ HelloAccepted \/ HubForgets
    \/ PostArrives \/ PublisherReplaced

Spec == Init /\ [][Next]_vars

\* Sockets deliver, canSubscribe answers, a broken link is noticed at both
\* ends and the client reconnects.
FairSpec ==
    /\ Spec
    /\ WF_vars(Opens) /\ WF_vars(HelloAccepted) /\ WF_vars(HelloAck)
    /\ WF_vars(ClientWrites) /\ WF_vars(HubReceives) /\ WF_vars(SubscribeVerdict)
    /\ WF_vars(LinkDown /\ ClosedByHub)
    /\ WF_vars(HubForgets /\ registered = "earlier")

-----------------------------------------------------------------------------
(***************************************************************************)
(* Properties.                                                             *)
(***************************************************************************)
ItemType == [type : {"topic.subscribe", "topic.unsubscribe"}, topic : Topics]

\* The subscriber's and the hub's tables keep their types, and a subscriber the
\* hub has forgotten has left nothing there, whatever came late
\* (dropSubscriptionsFor, the close handler, canSubscribe's verdict).
TypeOK ==
    /\ handlers \in [Topics -> SUBSET Handlers]
    /\ link \in {"down", "opening", "accepted", "ready"}
    /\ outbox \in Seq(ItemType) /\ up \in Seq(ItemType)
    /\ registered \in {"none", "this", "earlier"}
    /\ registered = "none" => subs = {} /\ lane = <<>> /\ up = <<>>
    /\ lane \in Seq(Topics) /\ subs \subseteq Topics /\ down \in Seq(Posts)
    /\ current \in Sockets /\ next \in 1 .. MaxPosts + 1 /\ queue \in [Sockets -> Seq(Posts)]
    /\ delivered \in Seq(Posts)
    /\ offline \subseteq Topics /\ inherited \subseteq Topics
    /\ overtaken \subseteq Topics /\ missed \subseteq Topics
    /\ uses \in 0 .. MaxUses /\ drops \in 0 .. MaxDrops

\* Everything the subscriber has said on this connection is done.
Quiet ==
    /\ link = "ready" /\ registered = "this"
    /\ outbox = <<>> /\ up = <<>> /\ lane = <<>>

\* After any sequence of broken links, stops and restarts the hub lists the
\* subscriber under each topic it has handlers for, unless it refused or
\* denied a subscribe (subscribe, hello.ack, the order of the outbox).
Resubscribes == <>[](Subscribed \ missed \subseteq subs)

\* A topic given up while the link is ready is given up at the hub, whatever
\* is still queued or pending (unsubscribe).  Only what was given up offline,
\* inherited from a socket that was replaced and not given up since, refused,
\* or overtaken at canSubscribe may linger.
LingersOnlyIfOffline ==
    Quiet => subs \subseteq Subscribed \cup offline \cup inherited \cup overtaken \cup missed

SameCheck(p, r) == Type(p) \in gatedPosts <=> Type(r) \in gatedPosts

\* Posts that pass the same checks are delivered in the order they arrived,
\* each at most once, also when the publisher's socket is replaced while
\* verdicts are pending and the subscriber reconnects (runInOrder, fanout).
DeliveredInOrder ==
    \A i, j \in DOMAIN delivered :
        i < j /\ SameCheck(delivered[i], delivered[j]) => delivered[i] < delivered[j]
=============================================================================
