------------------------------ MODULE RelayProofs ------------------------------
(***************************************************************************)
(* Theorems about Relay, for any finite set of calls, any limits of the    *)
(* two sides, and any number of broken links.                              *)
(*                                                                         *)
(* A request moves through six places: the caller's outbox, its socket,    *)
(* the gate, the hub's outbox, the target's socket, the handler.  That it  *)
(* is in one of them at most (OnePlace) is what the counters, the promise  *)
(* and the end of a cancelled call all rest on; that its cancel follows it *)
(* from place to place (Follows) is why the cancel finds it.               *)
(***************************************************************************)
EXTENDS Relay, FiniteSetTheorems, SequenceTheorems, TLAPS

Asked(q)  == {c \in Calls : Waits(q, Request(c))}
Told(q)   == {c \in Calls : Waits(q, Cancel(c))}
Granted(q) == {c \in Calls : Waits(q, Answer(c, TRUE))}

\* A queue has a request once.
Once(q) ==
    \A c \in Calls : \A i, j \in DOMAIN q : q[i] = Request(c) /\ q[j] = Request(c) => i = j

\* The cancel of c is behind its request.
Behind(q, c) ==
    \E i, j \in DOMAIN q : i < j /\ q[i] = Request(c) /\ q[j] = Cancel(c)

New     == {c \in Calls : outcome[c] = "new"}
Started == running \cup serving \cup returned

Types ==
    /\ outcome \in [Calls -> {"new", "pending", "fulfilled", "rejected"}]
    /\ outbox \in Seq(MessageType) /\ up \in Seq(MessageType)
    /\ toTarget \in Seq(MessageType) /\ down \in Seq(MessageType)
    /\ toCaller \in Seq(AnswerType) /\ replies \in Seq(AnswerType)
    /\ fromTarget \in Seq(AnswerType)
    /\ waiting \subseteq Calls /\ serving \subseteq Calls
    /\ aborted \subseteq running /\ running \subseteq Calls
    /\ link \in [Ends -> {"up", "down"}]
    /\ known \in [Ends -> {"this", "earlier", "none"}]
    /\ drops \in 0 .. MaxDrops
    /\ gated \in BOOLEAN /\ to \in [Calls -> {"target", "server"}]
    /\ returned \subseteq Calls /\ cancelled \subseteq Calls /\ missed \subseteq Calls

\* Both counters count.
Counts ==
    /\ serverRpcInFlight = Cardinality(serving) /\ serverRpcInFlight <= ServerSlots
    /\ inFlightRpc = Cardinality(running) /\ inFlightRpc <= TargetSlots

\* Sets without a call in common.
Apart(n, o, u, w, t, d, s) ==
    /\ n \cap (o \cup u \cup w \cup t \cup d \cup s) = {}
    /\ o \cap (u \cup w \cup t \cup d \cup s) = {}
    /\ u \cap (w \cup t \cup d \cup s) = {}
    /\ w \cap (t \cup d \cup s) = {}
    /\ t \cap (d \cup s) = {}
    /\ d \cap s = {}

\* A request is in one place, and a handler runs or has returned.
OnePlace ==
    /\ Once(outbox) /\ Once(up) /\ Once(toTarget) /\ Once(down)
    /\ Apart(New, Asked(outbox), Asked(up), waiting, Asked(toTarget), Asked(down), Started)
    /\ running \cap serving = {} /\ (running \cup serving) \cap returned = {}

\* Only a handler that has returned is answered for with a result.
Earned == Granted(toCaller) \cup Granted(replies) \cup Granted(fromTarget) \subseteq returned

IInv == Types /\ Counts /\ OnePlace /\ Earned

\* The hub has closed a socket whose close event the target still has to see.
Severed == link["target"] = "up" /\ known["target"] # "this"

\* What the two sides believe of the target's link.
LinkView ==
    /\ known["target"] = "this" => link["target"] = "up"
    /\ known["target"] = "none" => toTarget = <<>>
    /\ link["target"] = "down" => down = <<>> /\ running \subseteq missed

\* The cancel of a call is behind its request, wherever that is.
Follows(c) ==
    /\ c \notin Asked(outbox) \cup New
    /\ c \in Asked(up) => c \in Told(outbox) \/ Behind(up, c)
    /\ c \in waiting \cup Asked(toTarget) => c \in Told(outbox) \cup Told(up)
    /\ c \in Asked(down) =>
          c \in Told(outbox) \cup Told(up) \cup Told(toTarget) \/ Behind(down, c) \/ Severed
    /\ c \in running \ aborted =>
          c \in Told(outbox) \cup Told(up) \cup Told(toTarget) \cup Told(down) \/ Severed

CInv == LinkView /\ \A c \in cancelled \ missed : to[c] = "target" => Follows(c)

-----------------------------------------------------------------------------
(* Queues: what taking the first message, adding one at the end and        *)
(* withdrawing a request do to the sets above.                             *)

\* Requests and cancels are different messages, one per call.
LEMMA MessageKinds ==
  /\ \A c \in Calls : Request(c) \in MessageType /\ Cancel(c) \in MessageType
  /\ \A c, d \in Calls : Request(c) # Cancel(d)
  /\ \A c, d \in Calls : Request(c) = Request(d) => c = d
  /\ \A c, d \in Calls : Cancel(c) = Cancel(d) => c = d
  /\ \A m \in MessageType :
        /\ m.call \in Calls
        /\ m.type = "rpc.request" => m = Request(m.call)
        /\ m.type = "rpc.cancel" => m = Cancel(m.call)
        /\ m.type = "rpc.request" \/ m.type = "rpc.cancel"
BY DEF Request, Cancel, MessageType

\* A queue without its first message.
LEMMA TailOf ==
  ASSUME NEW T, NEW q \in Seq(T), q # <<>>
  PROVE  /\ Tail(q) \in Seq(T) /\ Head(q) \in T
         /\ DOMAIN q = 1 .. Len(q) /\ Len(q) \in Nat /\ Len(q) >= 1 /\ Head(q) = q[1]
         /\ DOMAIN Tail(q) = 1 .. (Len(q) - 1)
         /\ \A i \in 1 .. (Len(q) - 1) : Tail(q)[i] = q[i + 1]
<1>1. Len(q) \in Nat /\ Len(q) >= 1 /\ DOMAIN q = 1 .. Len(q)
  BY EmptySeq, LenProperties
<1> QED
  BY <1>1, HeadTailProperties

\* What waits behind the first message is in the tail, and nothing else is.
LEMMA TailWaits ==
  ASSUME NEW T, NEW q \in Seq(T), q # <<>>, NEW m
  PROVE  /\ Waits(Tail(q), m) => Waits(q, m)
         /\ Waits(q, m) => m = Head(q) \/ Waits(Tail(q), m)
         /\ Waits(q, Head(q))
<1>1. /\ DOMAIN q = 1 .. Len(q) /\ Len(q) \in Nat /\ Len(q) >= 1 /\ Head(q) = q[1]
      /\ DOMAIN Tail(q) = 1 .. (Len(q) - 1)
      /\ \A i \in 1 .. (Len(q) - 1) : Tail(q)[i] = q[i + 1]
  BY TailOf
<1>2. ASSUME Waits(Tail(q), m) PROVE Waits(q, m)
  <2>1. PICK i \in 1 .. (Len(q) - 1) : Tail(q)[i] = m
    BY <1>1, <1>2 DEF Waits
  <2>2. i + 1 \in DOMAIN q /\ q[i + 1] = m
    BY <1>1, <2>1
  <2> QED
    BY <2>2 DEF Waits
<1>3. ASSUME Waits(q, m), m # Head(q) PROVE Waits(Tail(q), m)
  <2>1. PICK i \in DOMAIN q : q[i] = m
    BY <1>3 DEF Waits
  <2>2. i # 1
    BY <1>1, <1>3, <2>1
  <2>3. i - 1 \in DOMAIN Tail(q) /\ Tail(q)[i - 1] = m
    BY <1>1, <2>1, <2>2
  <2> QED
    BY <2>3 DEF Waits
<1>4. Waits(q, Head(q))
  BY <1>1 DEF Waits
<1> QED
  BY <1>2, <1>3, <1>4

\* Taking the first message off a queue of requests and cancels.
LEMMA TakeFirst ==
  ASSUME NEW q \in Seq(MessageType), q # <<>>, Once(q)
  PROVE  /\ Tail(q) \in Seq(MessageType) /\ Head(q) \in MessageType /\ Head(q).call \in CallsIn(q)
         /\ Once(Tail(q))
         /\ Asked(Tail(q)) \subseteq Asked(q)
         /\ \A c \in Calls : Head(q) = Request(c) => c \in Asked(q) /\ c \notin Asked(Tail(q))
         /\ \A c \in Calls : Head(q) = Cancel(c) => c \in Told(q)
         /\ Told(Tail(q)) \subseteq Told(q)
         /\ \A c \in Told(q) : Head(q) = Cancel(c) \/ c \in Told(Tail(q))
         /\ \A c \in Calls :
               Behind(q, c) => Behind(Tail(q), c) \/ (Head(q) = Request(c) /\ c \in Told(Tail(q)))
<1>1. /\ Tail(q) \in Seq(MessageType) /\ Head(q) \in MessageType
      /\ DOMAIN q = 1 .. Len(q) /\ Len(q) \in Nat /\ Len(q) >= 1 /\ Head(q) = q[1]
      /\ DOMAIN Tail(q) = 1 .. (Len(q) - 1)
      /\ \A i \in 1 .. (Len(q) - 1) : Tail(q)[i] = q[i + 1]
  BY TailOf
<1>2. Head(q).call \in CallsIn(q)
  BY <1>1 DEF CallsIn
<1>3. Once(Tail(q))
  <2> SUFFICES ASSUME NEW c \in Calls, NEW i \in DOMAIN Tail(q), NEW j \in DOMAIN Tail(q),
                      Tail(q)[i] = Request(c), Tail(q)[j] = Request(c)
               PROVE  i = j
    BY DEF Once
  <2>1. /\ i + 1 \in DOMAIN q /\ j + 1 \in DOMAIN q
        /\ q[i + 1] = Request(c) /\ q[j + 1] = Request(c)
    BY <1>1
  <2>2. i + 1 = j + 1
    BY <2>1 DEF Once
  <2> QED
    BY <1>1, <2>2
<1>4. Asked(Tail(q)) \subseteq Asked(q) /\ Told(Tail(q)) \subseteq Told(q)
  BY TailWaits DEF Asked, Told
<1>5. ASSUME NEW c \in Calls, Head(q) = Request(c)
      PROVE  c \in Asked(q) /\ c \notin Asked(Tail(q))
  <2>1. c \in Asked(q)
    BY <1>5, TailWaits DEF Asked
  <2>2. ASSUME NEW i \in DOMAIN Tail(q), Tail(q)[i] = Request(c) PROVE FALSE
    <3>1. i + 1 \in DOMAIN q /\ 1 \in DOMAIN q /\ q[i + 1] = Request(c) /\ q[1] = Request(c)
      BY <1>1, <1>5, <2>2
    <3>2. i + 1 = 1
      BY <3>1 DEF Once
    <3> QED
      BY <1>1, <3>2
  <2> QED
    BY <2>1, <2>2 DEF Asked, Waits
<1>6. \A c \in Calls : Head(q) = Cancel(c) => c \in Told(q)
  BY TailWaits DEF Told
<1>7. \A c \in Told(q) : Head(q) = Cancel(c) \/ c \in Told(Tail(q))
  BY TailWaits DEF Told
<1>8. ASSUME NEW c \in Calls, Behind(q, c)
      PROVE  Behind(Tail(q), c) \/ (Head(q) = Request(c) /\ c \in Told(Tail(q)))
  <2>1. PICK i \in DOMAIN q, j \in DOMAIN q : i < j /\ q[i] = Request(c) /\ q[j] = Cancel(c)
    BY <1>8 DEF Behind
  <2>2. j - 1 \in DOMAIN Tail(q) /\ Tail(q)[j - 1] = Cancel(c)
    BY <1>1, <2>1
  <2>3. CASE i = 1
    BY <1>1, <2>1, <2>2, <2>3 DEF Told, Waits
  <2>4. CASE i # 1
    <3>1. i - 1 \in DOMAIN Tail(q) /\ i - 1 < j - 1 /\ Tail(q)[i - 1] = Request(c)
      BY <1>1, <2>1, <2>4
    <3> QED
      BY <2>2, <3>1 DEF Behind
  <2> QED
    BY <2>3, <2>4
<1> QED
  BY <1>1, <1>2, <1>3, <1>4, <1>5, <1>6, <1>7, <1>8

\* What an item at the end adds.
LEMMA AppendWaits ==
  ASSUME NEW T, NEW q \in Seq(T), NEW m \in T, NEW x
  PROVE  Waits(Append(q, m), x) <=> Waits(q, x) \/ x = m
<1>1. /\ DOMAIN q = 1 .. Len(q) /\ Len(q) \in Nat
      /\ DOMAIN Append(q, m) = 1 .. (Len(q) + 1)
      /\ \A i \in 1 .. Len(q) : Append(q, m)[i] = q[i]
      /\ Append(q, m)[Len(q) + 1] = m
  BY AppendProperties, LenProperties
<1>2. 1 .. (Len(q) + 1) = 1 .. Len(q) \cup {Len(q) + 1}
  BY <1>1
<1> QED
  BY <1>1, <1>2 DEF Waits

\* Adding a request or a cancel to a queue.
LEMMA AddLast ==
  ASSUME NEW q \in Seq(MessageType), Once(q), NEW m \in MessageType,
         \A c \in Asked(q) : m # Request(c)
  PROVE  /\ Append(q, m) \in Seq(MessageType)
         /\ Once(Append(q, m))
         /\ Asked(Append(q, m)) = Asked(q) \cup {c \in Calls : m = Request(c)}
         /\ Told(Append(q, m)) = Told(q) \cup {c \in Calls : m = Cancel(c)}
         /\ \A c \in Calls : Behind(q, c) => Behind(Append(q, m), c)
         /\ \A c \in Asked(q) : m = Cancel(c) => Behind(Append(q, m), c)
<1> DEFINE r == Append(q, m)
<1>1. /\ r \in Seq(MessageType) /\ DOMAIN q = 1 .. Len(q) /\ Len(q) \in Nat
      /\ DOMAIN r = 1 .. (Len(q) + 1)
      /\ \A i \in 1 .. Len(q) : r[i] = q[i]
      /\ r[Len(q) + 1] = m
  BY AppendProperties, LenProperties
<1>2. DOMAIN r = DOMAIN q \cup {Len(q) + 1}
  BY <1>1
<1>3. Asked(r) = Asked(q) \cup {c \in Calls : m = Request(c)}
  BY AppendWaits DEF Asked
<1>4. Told(r) = Told(q) \cup {c \in Calls : m = Cancel(c)}
  BY AppendWaits DEF Told
<1> HIDE DEF r
<1>5. Once(r)
  <2> SUFFICES ASSUME NEW c \in Calls, NEW i \in DOMAIN r, NEW j \in DOMAIN r,
                      r[i] = Request(c), r[j] = Request(c)
               PROVE  i = j
    BY DEF Once
  <2>1. CASE m = Request(c)
    <3>1. \A k \in DOMAIN q : q[k] # Request(c)
      BY <2>1 DEF Asked, Waits
    <3> QED
      BY <1>1, <1>2, <3>1
  <2>2. CASE m # Request(c)
    <3>1. i \in DOMAIN q /\ j \in DOMAIN q
      BY <1>1, <1>2, <2>2
    <3> QED
      BY <1>1, <3>1 DEF Once
  <2> QED
    BY <2>1, <2>2
<1>6. ASSUME NEW c \in Calls, Behind(q, c) PROVE Behind(r, c)
  BY <1>1, <1>2, <1>6 DEF Behind
<1>7. ASSUME NEW c \in Asked(q), m = Cancel(c) PROVE Behind(r, c)
  <2>1. PICK i \in DOMAIN q : q[i] = Request(c)
    BY DEF Asked, Waits
  <2>2. i \in DOMAIN r /\ Len(q) + 1 \in DOMAIN r /\ i < Len(q) + 1 /\ r[i] = Request(c)
    BY <1>1, <1>2, <2>1
  <2> QED
    BY <1>1, <1>7, <2>2 DEF Behind
<1> QED
  BY <1>1, <1>3, <1>4, <1>5, <1>6, <1>7 DEF r

\* Withdrawing a request takes it, and nothing else, out of the queue.
LEMMA Withdraws ==
  ASSUME NEW q \in Seq(MessageType), Once(q), NEW c \in Calls
  PROVE  /\ Withdrawn(q, c) \in Seq(MessageType)
         /\ Once(Withdrawn(q, c))
         /\ Asked(Withdrawn(q, c)) \subseteq Asked(q) \ {c}
         /\ Told(Withdrawn(q, c)) = Told(q)
<1>1. CASE ~Waits(q, Request(c))
  BY <1>1 DEF Withdrawn, Asked
<1>2. CASE Waits(q, Request(c))
  <2> DEFINE k == CHOOSE n \in DOMAIN q : q[n] = Request(c)
             a == SubSeq(q, 1, k - 1)
             b == SubSeq(q, k + 1, Len(q))
             w == Withdrawn(q, c)
             at(i) == IF i < k THEN i ELSE i + 1
  <2>0. DOMAIN q = 1 .. Len(q) /\ Len(q) \in Nat
    BY LenProperties
  <2>1. k \in 1 .. Len(q) /\ q[k] = Request(c)
    BY <1>2, <2>0 DEF Waits
  <2>2. w = a \o b
    BY <1>2 DEF Withdrawn
  <2> HIDE DEF k, w
  <2>3. /\ a \in Seq(MessageType) /\ Len(a) = k - 1
        /\ b \in Seq(MessageType) /\ Len(b) = Len(q) - k
        /\ \A i \in 1 .. (k - 1) : a[i] = q[i]
        /\ \A i \in 1 .. (Len(q) - k) : b[i] = q[i + k]
    <3>1. k \in 1 .. Len(q)
      BY <2>1
    <3>2. a \in Seq(MessageType) /\ Len(a) = k - 1
      <4>1. k - 1 \in 0 .. Len(q) /\ 1 \in 1 .. Len(q) + 1
        BY <2>0, <3>1
      <4> QED
        BY <2>0, <4>1
    <3>3. b \in Seq(MessageType) /\ Len(b) = Len(q) - k
      <4> DEFINE n == Len(q)
      <4>1. n \in Nat /\ k \in 1 .. n /\ DOMAIN q = 1 .. n
        BY <2>0, <3>1
      <4> HIDE DEF n
      <4>2. k + 1 \in Int /\ n \in Int /\ (k + 1 <= n => n - (k + 1) + 1 = n - k)
        BY <4>1
      <4>3. ~(k + 1 <= n) => n - k = 0
        BY <4>1
      <4>4. \A i \in (k + 1) .. n : q[i] \in MessageType
        BY <2>0, <3>1, <4>1
      <4>5. /\ SubSeq(q, k + 1, n) \in Seq(MessageType)
            /\ Len(SubSeq(q, k + 1, n)) = IF k + 1 <= n THEN n - (k + 1) + 1 ELSE 0
        BY <4>2, <4>4, SubSeqProperties
      <4> QED
        BY <4>2, <4>3, <4>5, Zenon DEF n
    <3>4. \A i \in 1 .. (k - 1) : a[i] = q[i]
      BY <2>0, <3>1
    <3>5. \A i \in 1 .. (Len(q) - k) : b[i] = q[i + k]
      BY <2>0, <3>1
    <3> QED
      BY <3>2, <3>3, <3>4, <3>5
  <2> HIDE DEF a, b
  <2>4. w \in Seq(MessageType) /\ Len(w) = Len(q) - 1 /\ DOMAIN w = 1 .. (Len(q) - 1)
    <3>1. w \in Seq(MessageType) /\ Len(w) = Len(a) + Len(b)
      BY <2>2, <2>3, ConcatProperties
    <3> QED
      BY <2>0, <2>1, <2>3, <3>1
  <2>5. \A i \in 1 .. (Len(q) - 1) : w[i] = IF i <= k - 1 THEN a[i] ELSE b[i - (k - 1)]
    <3>1. \A i \in 1 .. Len(a) + Len(b) : w[i] = IF i <= Len(a) THEN a[i] ELSE b[i - Len(a)]
      BY <2>2, <2>3, ConcatProperties
    <3>2. Len(a) + Len(b) = Len(q) - 1
      BY <2>0, <2>1, <2>3
    <3> QED
      BY <2>3, <3>1, <3>2
  <2>6. ASSUME NEW i \in DOMAIN w
        PROVE  i \in Int /\ at(i) \in DOMAIN q /\ at(i) # k /\ w[i] = q[at(i)]
    <3>0. i \in 1 .. (Len(q) - 1)
      BY <2>4
    <3>1. CASE i < k
      <4>1. i \in 1 .. (k - 1) /\ i <= k - 1
        BY <2>0, <2>1, <3>0, <3>1
      <4>2. w[i] = a[i] /\ a[i] = q[i]
        BY <2>3, <2>5, <3>0, <4>1
      <4> QED
        BY <2>0, <2>1, <3>0, <3>1, <4>2
    <3>2. CASE ~(i < k)
      <4>1. i - (k - 1) \in 1 .. (Len(q) - k) /\ ~(i <= k - 1)
        BY <2>0, <2>1, <3>0, <3>2
      <4>2. w[i] = b[i - (k - 1)] /\ b[i - (k - 1)] = q[i - (k - 1) + k]
        BY <2>3, <2>5, <3>0, <4>1
      <4>3. i - (k - 1) + k = i + 1
        BY <2>1, <3>0
      <4> QED
        BY <2>0, <2>1, <3>0, <3>2, <4>2, <4>3
    <3> QED
      BY <3>1, <3>2
  <2>7. ASSUME NEW j \in DOMAIN q, j # k PROVE \E i \in DOMAIN w : w[i] = q[j]
    <3>1. CASE j < k
      <4>1. j \in DOMAIN w /\ at(j) = j
        BY <2>0, <2>1, <2>4, <3>1
      <4> QED
        BY <2>6, <4>1
    <3>2. CASE ~(j < k)
      <4>1. j - 1 \in DOMAIN w /\ at(j - 1) = j
        BY <2>0, <2>1, <2>4, <2>7, <3>2
      <4> QED
        BY <2>6, <4>1
    <3> QED
      BY <3>1, <3>2
  <2>8. Once(w)
    <3> SUFFICES ASSUME NEW d \in Calls, NEW i \in DOMAIN w, NEW j \in DOMAIN w,
                        w[i] = Request(d), w[j] = Request(d)
                 PROVE  i = j
      BY DEF Once
    <3>1. at(i) = at(j)
      BY <2>6 DEF Once
    <3> QED
      BY <2>1, <2>6, <3>1
  <2>9. ASSUME NEW x PROVE Waits(w, x) => Waits(q, x)
    BY <2>6 DEF Waits
  <2>10. c \notin Asked(w)
    <3> SUFFICES ASSUME NEW i \in DOMAIN w, w[i] = Request(c) PROVE FALSE
      BY DEF Asked, Waits
    <3>1. at(i) = k
      BY <2>0, <2>1, <2>6 DEF Once
    <3> QED
      BY <2>6, <3>1
  <2>11. ASSUME NEW d \in Told(q) PROVE d \in Told(w)
    <3>1. PICK j \in DOMAIN q : q[j] = Cancel(d)
      BY DEF Told, Waits
    <3>2. j # k
      BY <2>1, <3>1, MessageKinds DEF Told
    <3> QED
      BY <2>7, <3>1, <3>2 DEF Told, Waits
  <2> QED
    BY <2>4, <2>8, <2>9, <2>10, <2>11 DEF Asked, Told, w
<1> QED
  BY <1>1, <1>2

\* Taking an answer off its queue.
LEMMA TakeAnswer ==
  ASSUME NEW q \in Seq(AnswerType), q # <<>>
  PROVE  /\ Tail(q) \in Seq(AnswerType)
         /\ Head(q) \in AnswerType /\ Head(q).call \in Calls /\ Head(q).ok \in BOOLEAN
         /\ Granted(Tail(q)) \subseteq Granted(q)
         /\ Head(q).ok => Head(q).call \in Granted(q)
<1>1. Tail(q) \in Seq(AnswerType) /\ Head(q) \in AnswerType
  BY TailOf
<1>2. Head(q) = Answer(Head(q).call, Head(q).ok) /\ Head(q).call \in Calls /\ Head(q).ok \in BOOLEAN
  BY <1>1 DEF AnswerType, Answer
<1>3. Granted(Tail(q)) \subseteq Granted(q)
  BY TailWaits DEF Granted
<1>4. ASSUME Head(q).ok PROVE Head(q).call \in Granted(q)
  <2>1. Head(q).ok = TRUE
    BY <1>2, <1>4
  <2>2. Waits(q, Answer(Head(q).call, TRUE))
    BY <1>2, <2>1, TailWaits
  <2> QED
    BY <1>2, <2>2 DEF Granted
<1> QED
  BY <1>1, <1>2, <1>3, <1>4

\* Adding one that is as good as what it reports.
LEMMA AddAnswer ==
  ASSUME NEW q \in Seq(AnswerType), NEW c \in Calls, NEW ok \in BOOLEAN,
         NEW R, Granted(q) \subseteq R, ok => c \in R
  PROVE  Append(q, Answer(c, ok)) \in Seq(AnswerType) /\ Granted(Append(q, Answer(c, ok))) \subseteq R
<1>1. Answer(c, ok) \in AnswerType
  BY DEF Answer, AnswerType
<1>2. ASSUME NEW d \in Calls, Waits(Append(q, Answer(c, ok)), Answer(d, TRUE)) PROVE d \in R
  <2>1. Waits(q, Answer(d, TRUE)) \/ Answer(d, TRUE) = Answer(c, ok)
    <3> DEFINE m == Answer(c, ok)
               x == Answer(d, TRUE)
    <3>1. m \in AnswerType /\ Waits(Append(q, m), x)
      BY <1>1, <1>2
    <3> HIDE DEF m, x
    <3>2. Waits(q, x) \/ x = m
      BY <3>1, AppendWaits
    <3> QED
      BY <3>2 DEF m, x
  <2>2. Answer(d, TRUE) = Answer(c, ok) => d = c /\ ok
    BY DEF Answer
  <2> QED
    BY <2>1, <2>2 DEF Granted
<1>3. Append(q, Answer(c, ok)) \in Seq(AnswerType)
  BY <1>1, AppendProperties
<1> QED
  BY <1>2, <1>3 DEF Granted

\* The two cases of adding a message.
LEMMA AddRequest ==
  ASSUME NEW q \in Seq(MessageType), Once(q), NEW c \in Calls, c \notin Asked(q)
  PROVE  /\ Append(q, Request(c)) \in Seq(MessageType) /\ Once(Append(q, Request(c)))
         /\ Asked(Append(q, Request(c))) = Asked(q) \cup {c}
         /\ Told(Append(q, Request(c))) = Told(q)
         /\ \A d \in Calls : Behind(q, d) => Behind(Append(q, Request(c)), d)
<1>1. Request(c) \in MessageType /\ \A d \in Asked(q) : Request(c) # Request(d)
  BY MessageKinds DEF Asked
<1>2. {d \in Calls : Request(c) = Request(d)} = {c} /\ {d \in Calls : Request(c) = Cancel(d)} = {}
  BY MessageKinds
<1> DEFINE m == Request(c)
<1>3. m \in MessageType /\ \A d \in Asked(q) : m # Request(d)
  BY <1>1
<1> HIDE DEF m
<1>4. /\ Append(q, m) \in Seq(MessageType)
      /\ Once(Append(q, m))
      /\ Asked(Append(q, m)) = Asked(q) \cup {d \in Calls : m = Request(d)}
      /\ Told(Append(q, m)) = Told(q) \cup {d \in Calls : m = Cancel(d)}
      /\ \A d \in Calls : Behind(q, d) => Behind(Append(q, m), d)
      /\ \A d \in Asked(q) : m = Cancel(d) => Behind(Append(q, m), d)
  BY <1>3, AddLast
<1> QED
  BY <1>2, <1>4 DEF m

LEMMA AddCancel ==
  ASSUME NEW q \in Seq(MessageType), Once(q), NEW c \in Calls
  PROVE  /\ Append(q, Cancel(c)) \in Seq(MessageType) /\ Once(Append(q, Cancel(c)))
         /\ Asked(Append(q, Cancel(c))) = Asked(q)
         /\ Told(Append(q, Cancel(c))) = Told(q) \cup {c}
         /\ \A d \in Calls : Behind(q, d) => Behind(Append(q, Cancel(c)), d)
         /\ c \in Asked(q) => Behind(Append(q, Cancel(c)), c)
<1>1. Cancel(c) \in MessageType /\ \A d \in Asked(q) : Cancel(c) # Request(d)
  BY MessageKinds DEF Asked
<1>2. {d \in Calls : Cancel(c) = Request(d)} = {} /\ {d \in Calls : Cancel(c) = Cancel(d)} = {c}
  BY MessageKinds
<1> DEFINE m == Cancel(c)
<1>3. m \in MessageType /\ \A d \in Asked(q) : m # Request(d)
  BY <1>1
<1> HIDE DEF m
<1>4. /\ Append(q, m) \in Seq(MessageType)
      /\ Once(Append(q, m))
      /\ Asked(Append(q, m)) = Asked(q) \cup {d \in Calls : m = Request(d)}
      /\ Told(Append(q, m)) = Told(q) \cup {d \in Calls : m = Cancel(d)}
      /\ \A d \in Calls : Behind(q, d) => Behind(Append(q, m), d)
      /\ \A d \in Asked(q) : m = Cancel(d) => Behind(Append(q, m), d)
  BY <1>3, AddLast
<1> QED
  BY <1>2, <1>4 DEF m

\* The calls a queue is about.
LEMMA CallsOfQueue ==
  /\ \A q \in Seq(MessageType) : CallsIn(q) \subseteq Calls
  /\ \A q \in Seq(MessageType) : Asked(q) \cup Told(q) \subseteq CallsIn(q)
  /\ \A q \in Seq(AnswerType) : CallsIn(q) \subseteq Calls
<1>1. ASSUME NEW q \in Seq(MessageType) PROVE CallsIn(q) \subseteq Calls
  <2>1. \A i \in DOMAIN q : q[i] \in MessageType
    BY LenProperties
  <2> QED
    BY <2>1, MessageKinds DEF CallsIn
<1>2. ASSUME NEW q \in Seq(MessageType) PROVE Asked(q) \cup Told(q) \subseteq CallsIn(q)
  <2>1. \A c \in Calls : Request(c).call = c /\ Cancel(c).call = c
    BY DEF Request, Cancel
  <2> QED
    BY <2>1 DEF CallsIn, Asked, Told, Waits
<1>3. ASSUME NEW q \in Seq(AnswerType) PROVE CallsIn(q) \subseteq Calls
  <2>1. \A i \in DOMAIN q : q[i] \in AnswerType
    BY LenProperties
  <2>2. \A a \in AnswerType : a.call \in Calls
    BY DEF AnswerType
  <2> QED
    BY <2>1, <2>2 DEF CallsIn
<1> QED
  BY <1>1, <1>2, <1>3

\* An empty queue.
LEMMA Emptied ==
  /\ <<>> \in Seq(MessageType) /\ Once(<<>>) /\ Asked(<<>>) = {} /\ Told(<<>>) = {}
  /\ <<>> \in Seq(AnswerType) /\ Granted(<<>>) = {}
  /\ \A c \in Calls : ~Behind(<<>>, c)
<1>1. DOMAIN <<>> = {}
  OBVIOUS
<1> QED
  BY <1>1 DEF Once, Asked, Told, Granted, Waits, Behind

-----------------------------------------------------------------------------
(* The steps.  Each keeps the places apart and the answers earned.         *)

\* A response to the caller, or to the hub, is as good as what it reports.
LEMMA RespondKeeps ==
  ASSUME Types, NEW c \in Calls, NEW ok \in BOOLEAN, Respond(c, ok),
         NEW R, Granted(toCaller) \subseteq R, ok => c \in R
  PROVE  /\ toCaller' \in Seq(AnswerType) /\ Granted(toCaller') \subseteq R
         /\ missed' \in SUBSET Calls /\ missed \subseteq missed'
<1>1. toCaller' = toCaller \/ toCaller' = Append(toCaller, Answer(c, ok))
  BY DEF Respond
<1>3. toCaller \in Seq(AnswerType) /\ missed \subseteq Calls
  BY DEF Types
<1>4. /\ Append(toCaller, Answer(c, ok)) \in Seq(AnswerType)
      /\ Granted(Append(toCaller, Answer(c, ok))) \subseteq R
  BY <1>3, AddAnswer
<1>2. missed' = missed \/ missed' = missed \cup {c}
  BY DEF Respond
<1> QED
  BY <1>1, <1>2, <1>3, <1>4

LEMMA ReplyKeeps ==
  ASSUME Types, NEW c \in Calls, NEW ok \in BOOLEAN, Reply(c, ok),
         NEW R, Granted(replies) \subseteq R, ok => c \in R
  PROVE  /\ replies' \in Seq(AnswerType) /\ Granted(replies') \subseteq R
         /\ missed' \in SUBSET Calls /\ missed \subseteq missed'
<1>1. replies' = replies \/ replies' = Append(replies, Answer(c, ok))
  BY DEF Reply
<1>3. replies \in Seq(AnswerType) /\ missed \subseteq Calls
  BY DEF Types
<1>4. /\ Append(replies, Answer(c, ok)) \in Seq(AnswerType)
      /\ Granted(Append(replies, Answer(c, ok))) \subseteq R
  BY <1>3, AddAnswer
<1>2. missed' = missed \/ missed' = missed \cup {c}
  BY DEF Reply
<1> QED
  BY <1>1, <1>2, <1>3, <1>4

\* One more handler, or one less.
LEMMA CountOne ==
  ASSUME NEW S, S \subseteq Calls, NEW c \in Calls
  PROVE  /\ c \notin S => Cardinality(S \cup {c}) = Cardinality(S) + 1
         /\ c \in S => Cardinality(S \ {c}) = Cardinality(S) - 1
         /\ Cardinality(S) \in Nat
BY RelayAssumption, FS_Subset, FS_AddElement, FS_RemoveElement, FS_CardinalityType DEF RelayAssumption

\* Routing a request puts it in the hub's outbox, in a handler's hands, or
\* nowhere.
LEMMA RouteKeeps ==
  ASSUME IInv, NEW c \in Calls, c \notin Asked(toTarget) \cup serving, Route(c)
  PROVE  /\ toTarget' \in Seq(MessageType) /\ Once(toTarget') /\ Told(toTarget') = Told(toTarget)
         /\ \/ toTarget' = toTarget
            \/ known["target"] # "none" /\ Asked(toTarget') = Asked(toTarget) \cup {c} /\ serving' = serving
         /\ \/ serving' = serving /\ serverRpcInFlight' = serverRpcInFlight
            \/ /\ serving' = serving \cup {c} /\ toTarget' = toTarget
               /\ serverRpcInFlight' = Cardinality(serving') /\ serverRpcInFlight' <= ServerSlots
         /\ toCaller' \in Seq(AnswerType) /\ Granted(toCaller') \subseteq returned
         /\ missed' \in SUBSET Calls /\ missed \subseteq missed'
<1>0. /\ toTarget \in Seq(MessageType) /\ Once(toTarget) /\ Granted(toCaller) \subseteq returned
      /\ toCaller \in Seq(AnswerType) /\ missed \subseteq Calls /\ serving \subseteq Calls /\ Types
  BY DEF IInv, Types, OnePlace, Earned
<1>1. ASSUME Respond(c, FALSE)
      PROVE  /\ toCaller' \in Seq(AnswerType) /\ Granted(toCaller') \subseteq returned
             /\ missed' \in SUBSET Calls /\ missed \subseteq missed'
  BY <1>0, <1>1, RespondKeeps
<1>2. CASE Serve(c) /\ UNCHANGED toTarget
  <2>1. CASE Respond(c, FALSE) /\ UNCHANGED <<serving, serverRpcInFlight>>
    BY <1>0, <1>1, <1>2, <2>1
  <2>2. CASE /\ ~Overloaded
             /\ serving' = serving \cup {c} /\ serverRpcInFlight' = serverRpcInFlight + 1
             /\ UNCHANGED <<toCaller, missed>>
    <3>1. serverRpcInFlight' = Cardinality(serving')
      BY <1>0, <2>2, CountOne DEF IInv, Counts
    <3>2. serverRpcInFlight \in Nat /\ ServerSlots \in Nat
      BY <1>0, CountOne, RelayAssumption DEF IInv, Counts, RelayAssumption
    <3>3. serverRpcInFlight' <= ServerSlots
      BY <2>2, <3>2 DEF Overloaded
    <3> QED
      BY <1>0, <1>2, <2>2, <3>1, <3>3
  <2> QED
    BY <1>2, <2>1, <2>2 DEF Serve
<1>3. CASE Forward(c) /\ UNCHANGED <<serving, serverRpcInFlight>>
  <2>1. CASE Unreachable(c)
    BY <1>0, <1>1, <1>3, <2>1 DEF Unreachable
  <2>2. CASE /\ known["target"] # "none" /\ toTarget' = Append(toTarget, Request(c))
             /\ UNCHANGED <<toCaller, missed>>
    BY <1>0, <1>3, <2>2, AddRequest
  <2> QED
    BY <1>3, <2>1, <2>2 DEF Forward
<1> QED
  BY <1>2, <1>3 DEF Route

\* The caller's own steps.
LEMMA CallKeeps == ASSUME NEW c \in Calls, IInv, Call(c) PROVE IInv'
<1>1. c \in New /\ c \notin Asked(outbox)
  BY DEF Call, New, IInv, OnePlace, Apart
<1>2. /\ outbox' \in Seq(MessageType) /\ Once(outbox')
      /\ Asked(outbox') = Asked(outbox) \cup {c}
  BY <1>1, AddRequest DEF Call, IInv, Types, OnePlace
<1>3. New' = New \ {c} /\ outcome' \in [Calls -> {"new", "pending", "fulfilled", "rejected"}]
  BY DEF Call, New, IInv, Types
<1> USE DEF Call, hubVars, targetVars, linkVars, fixed, IInv
<1>4. Types'
  BY <1>2, <1>3 DEF Types
<1>5. Counts' /\ Earned'
  BY DEF Counts, Earned
<1>6. OnePlace'
  BY <1>1, <1>2, <1>3 DEF OnePlace, Apart, Started
<1> QED
  BY <1>4, <1>5, <1>6

LEMMA CallFailsKeeps == ASSUME NEW c \in Calls, IInv, CallFails(c) PROVE IInv'
<1>1. New' \subseteq New /\ outcome' \in [Calls -> {"new", "pending", "fulfilled", "rejected"}]
  BY DEF CallFails, New, IInv, Types
<1> USE DEF CallFails, hubVars, targetVars, linkVars, fixed, IInv
<1>2. Types' /\ Counts' /\ Earned'
  BY <1>1 DEF Types, Counts, Earned
<1>3. OnePlace'
  BY <1>1 DEF OnePlace, Apart, Started
<1> QED
  BY <1>2, <1>3

LEMMA AbandonKeeps == ASSUME NEW c \in Calls, IInv, Abandon(c) PROVE IInv'
<1>1. New' \subseteq New /\ outcome' \in [Calls -> {"new", "pending", "fulfilled", "rejected"}]
  BY DEF Abandon, New, IInv, Types
<1>2. outbox' \in Seq(MessageType) /\ Once(outbox') /\ Asked(outbox') \subseteq Asked(outbox)
  <2> DEFINE w == Withdrawn(outbox, c)
  <2>1. w \in Seq(MessageType) /\ Once(w) /\ Asked(w) \subseteq Asked(outbox)
    BY Withdraws DEF IInv, Types, OnePlace
  <2>2. outbox' = w \/ outbox' = Append(w, Cancel(c))
    BY DEF Abandon
  <2> HIDE DEF w
  <2>3. /\ Append(w, Cancel(c)) \in Seq(MessageType) /\ Once(Append(w, Cancel(c)))
        /\ Asked(Append(w, Cancel(c))) = Asked(w)
    BY <2>1, AddCancel
  <2> QED
    BY <2>1, <2>2, <2>3
<1>3. cancelled' \subseteq Calls
  BY DEF Abandon, IInv, Types
<1> USE DEF Abandon, hubVars, targetVars, linkVars, fixed, IInv
<1>4. Types' /\ Counts' /\ Earned'
  BY <1>1, <1>2, <1>3 DEF Types, Counts, Earned
<1>5. OnePlace'
  BY <1>1, <1>2 DEF OnePlace, Apart, Started
<1> QED
  BY <1>4, <1>5

LEMMA CallerWritesKeeps == ASSUME IInv, CallerWrites PROVE IInv'
<1> DEFINE m == Head(outbox)
           c == m.call
<1>0. /\ outbox \in Seq(MessageType) /\ outbox # <<>> /\ Once(outbox)
      /\ up \in Seq(MessageType) /\ Once(up)
  BY DEF IInv, Types, OnePlace, CallerWrites
<1>1. /\ outbox' \in Seq(MessageType) /\ Once(outbox') /\ Asked(outbox') \subseteq Asked(outbox)
      /\ m \in MessageType
      /\ \A d \in Calls : m = Request(d) => d \in Asked(outbox) /\ d \notin Asked(outbox')
  BY <1>0, TakeFirst DEF CallerWrites
<1>2. c \in Calls /\ (m = Request(c) \/ m = Cancel(c))
  BY <1>1, MessageKinds
<1>3. missed' \subseteq Calls /\ (up' = up \/ up' = Append(up, m))
  BY <1>2 DEF IInv, Types, CallerWrites
<1> HIDE DEF m, c
<1>4. /\ up' \in Seq(MessageType) /\ Once(up')
      /\ \/ Asked(up') = Asked(up)
         \/ Asked(up') = Asked(up) \cup {c} /\ c \in Asked(outbox) /\ c \notin Asked(outbox')
  <2>1. CASE up' = up
    BY <1>0, <2>1
  <2>2. CASE up' = Append(up, m) /\ m = Cancel(c)
    BY <1>0, <1>2, <2>2, AddCancel
  <2>3. CASE up' = Append(up, m) /\ m = Request(c)
    <3>1. c \in Asked(outbox) /\ c \notin Asked(outbox')
      BY <1>1, <1>2, <2>3
    <3>2. c \notin Asked(up)
      BY <3>1 DEF IInv, OnePlace, Apart
    <3> QED
      BY <1>0, <1>2, <2>3, <3>1, <3>2, AddRequest
  <2> QED
    BY <1>2, <1>3, <2>1, <2>2, <2>3
<1> USE DEF CallerWrites, hubVars, targetVars, linkVars, fixed, IInv
<1>5. Types' /\ Counts' /\ Earned'
  BY <1>1, <1>3, <1>4 DEF Types, Counts, Earned
<1>6. OnePlace'
  <2>1. New' = New
    BY DEF New
  <2> QED
    BY <1>1, <1>4, <2>1 DEF OnePlace, Apart, Started
<1> QED
  BY <1>5, <1>6

LEMMA CallerReceivesKeeps == ASSUME IInv, CallerReceives PROVE IInv'
<1>1. /\ toCaller' \in Seq(AnswerType) /\ Granted(toCaller') \subseteq Granted(toCaller)
      /\ Head(toCaller).call \in Calls
  BY TakeAnswer DEF IInv, Types, CallerReceives
<1>2. outcome' \in [Calls -> {"new", "pending", "fulfilled", "rejected"}] /\ New' = New
  BY <1>1 DEF IInv, Types, CallerReceives, Awaited, New
<1> USE DEF CallerReceives, hubVars, targetVars, linkVars, fixed, IInv
<1>3. Types' /\ Counts' /\ Earned'
  BY <1>1, <1>2 DEF Types, Counts, Earned
<1>4. OnePlace'
  BY <1>2 DEF OnePlace, Apart, Started
<1> QED
  BY <1>3, <1>4

\* The hub's steps.  A cancel takes a request out of the hub's outbox, or is
\* queued in it.
LEMMA CancelKeeps ==
  ASSUME IInv, NEW c \in Calls, CancelCall(c)
  PROVE  /\ toTarget' \in Seq(MessageType) /\ Once(toTarget')
         /\ Asked(toTarget') \subseteq Asked(toTarget)
         /\ missed' \in SUBSET Calls /\ missed \subseteq missed'
<1>1. /\ toTarget \in Seq(MessageType) /\ Once(toTarget) /\ missed \subseteq Calls
  BY DEF IInv, Types, OnePlace
<1>2. toTarget' \in {toTarget, Withdrawn(toTarget, c), Append(toTarget, Cancel(c))}
  BY DEF CancelCall, PassOnCancel
<1>3. missed' = missed \/ missed' = missed \cup {c}
  BY DEF CancelCall, PassOnCancel
<1>4. /\ Withdrawn(toTarget, c) \in Seq(MessageType) /\ Once(Withdrawn(toTarget, c))
      /\ Asked(Withdrawn(toTarget, c)) \subseteq Asked(toTarget)
  BY <1>1, Withdraws
<1>5. /\ Append(toTarget, Cancel(c)) \in Seq(MessageType) /\ Once(Append(toTarget, Cancel(c)))
      /\ Asked(Append(toTarget, Cancel(c))) = Asked(toTarget)
  BY <1>1, AddCancel
<1> QED
  BY <1>1, <1>2, <1>3, <1>4, <1>5

LEMMA HubReceivesKeeps == ASSUME IInv, HubReceives PROVE IInv'
<1> DEFINE m == Head(up)
           c == m.call
<1>0. up \in Seq(MessageType) /\ up # <<>> /\ Once(up) /\ up' = Tail(up)
  BY DEF IInv, Types, OnePlace, HubReceives
<1>1. /\ up' \in Seq(MessageType) /\ Once(up') /\ Asked(up') \subseteq Asked(up)
      /\ m \in MessageType
      /\ \A d \in Calls : m = Request(d) => d \in Asked(up) /\ d \notin Asked(up')
  BY <1>0, TakeFirst
<1>2. /\ c \in Calls
      /\ m.type = "rpc.request" => c \in Asked(up) /\ c \notin Asked(up')
  BY <1>1, MessageKinds
<1>3. \/ waiting' = waiting \cup {c} /\ m.type = "rpc.request"
         /\ UNCHANGED <<serving, serverRpcInFlight, toTarget, toCaller, missed>>
      \/ Route(c) /\ m.type = "rpc.request" /\ UNCHANGED waiting
      \/ CancelCall(c) /\ UNCHANGED <<waiting, serving, serverRpcInFlight, toCaller>>
  BY DEF HubReceives
<1>4. UNCHANGED <<outcome, outbox, cancelled, down, targetVars, linkVars, fixed, returned>>
  BY DEF HubReceives
<1> HIDE DEF m, c
<1> USE DEF hubVars, targetVars, linkVars, fixed, IInv
<1>5. New' = New
  BY <1>4 DEF New
<1>6. CASE waiting' = waiting \cup {c} /\ m.type = "rpc.request"
           /\ UNCHANGED <<serving, serverRpcInFlight, toTarget, toCaller, missed>>
  <2>1. Types' /\ Counts' /\ Earned'
    BY <1>1, <1>2, <1>4, <1>6 DEF Types, Counts, Earned
  <2>2. OnePlace'
    BY <1>1, <1>2, <1>4, <1>5, <1>6 DEF OnePlace, Apart, Started
  <2> QED
    BY <2>1, <2>2
<1>7. CASE Route(c) /\ m.type = "rpc.request" /\ UNCHANGED waiting
  <2>1. c \notin Asked(toTarget) \cup serving
    BY <1>2, <1>7 DEF OnePlace, Apart, Started
  <2>2. /\ toTarget' \in Seq(MessageType) /\ Once(toTarget')
        /\ \/ toTarget' = toTarget
           \/ Asked(toTarget') = Asked(toTarget) \cup {c} /\ serving' = serving
        /\ \/ serving' = serving /\ serverRpcInFlight' = serverRpcInFlight
           \/ /\ serving' = serving \cup {c} /\ toTarget' = toTarget
              /\ serverRpcInFlight' = Cardinality(serving') /\ serverRpcInFlight' <= ServerSlots
        /\ toCaller' \in Seq(AnswerType) /\ Granted(toCaller') \subseteq returned
        /\ missed' \in SUBSET Calls
    BY <1>2, <1>7, <2>1, RouteKeeps
  <2>3. Types' /\ Counts' /\ Earned'
    BY <1>1, <1>2, <1>4, <1>7, <2>2 DEF Types, Counts, Earned
  <2>4. OnePlace'
    BY <1>1, <1>2, <1>4, <1>5, <1>7, <2>2 DEF OnePlace, Apart, Started
  <2> QED
    BY <2>3, <2>4
<1>8. CASE CancelCall(c) /\ UNCHANGED <<waiting, serving, serverRpcInFlight, toCaller>>
  <2>1. /\ toTarget' \in Seq(MessageType) /\ Once(toTarget')
        /\ Asked(toTarget') \subseteq Asked(toTarget) /\ missed' \in SUBSET Calls
    BY <1>2, <1>8, CancelKeeps
  <2>2. Types' /\ Counts' /\ Earned'
    BY <1>1, <1>4, <1>8, <2>1 DEF Types, Counts, Earned
  <2>3. OnePlace'
    BY <1>1, <1>4, <1>5, <1>8, <2>1 DEF OnePlace, Apart, Started
  <2> QED
    BY <2>2, <2>3
<1> QED
  BY <1>3, <1>6, <1>7, <1>8

LEMMA GateAnswersKeeps == ASSUME NEW c \in Calls, IInv, GateAnswers(c) PROVE IInv'
<1>1. /\ c \in waiting /\ waiting' = waiting \ {c}
      /\ UNCHANGED <<callerVars, down, targetVars, linkVars, fixed, returned>>
  BY DEF GateAnswers
<1> USE DEF callerVars, targetVars, linkVars, fixed, IInv
<1>2. New' = New
  BY <1>1 DEF New
<1>3. CASE Route(c)
  <2>1. c \notin Asked(toTarget) \cup serving
    BY <1>1 DEF OnePlace, Apart, Started
  <2>2. /\ toTarget' \in Seq(MessageType) /\ Once(toTarget')
        /\ \/ toTarget' = toTarget
           \/ Asked(toTarget') = Asked(toTarget) \cup {c} /\ serving' = serving
        /\ \/ serving' = serving /\ serverRpcInFlight' = serverRpcInFlight
           \/ /\ serving' = serving \cup {c} /\ toTarget' = toTarget
              /\ serverRpcInFlight' = Cardinality(serving') /\ serverRpcInFlight' <= ServerSlots
        /\ toCaller' \in Seq(AnswerType) /\ Granted(toCaller') \subseteq returned
        /\ missed' \in SUBSET Calls
    BY <1>3, <2>1, RouteKeeps
  <2>3. Types' /\ Counts' /\ Earned'
    BY <1>1, <2>2 DEF Types, Counts, Earned
  <2>4. OnePlace'
    BY <1>1, <1>2, <2>2 DEF OnePlace, Apart, Started
  <2> QED
    BY <2>3, <2>4
<1>4. CASE Respond(c, FALSE) /\ UNCHANGED <<serving, serverRpcInFlight, toTarget>>
  <2>1. /\ toCaller' \in Seq(AnswerType) /\ Granted(toCaller') \subseteq returned
        /\ missed' \in SUBSET Calls
    BY <1>4, RespondKeeps DEF Earned
  <2>2. Types' /\ Counts' /\ Earned'
    BY <1>1, <1>4, <2>1 DEF Types, Counts, Earned
  <2>3. OnePlace'
    BY <1>1, <1>2, <1>4 DEF OnePlace, Apart, Started
  <2> QED
    BY <2>2, <2>3
<1> QED
  BY <1>3, <1>4 DEF GateAnswers

LEMMA ServerReturnsKeeps == ASSUME NEW c \in Calls, IInv, ServerReturns(c) PROVE IInv'
<1>1. /\ c \in serving /\ serving' = serving \ {c}
      /\ serverRpcInFlight' = serverRpcInFlight - 1 /\ returned' = returned \cup {c}
      /\ UNCHANGED <<callerVars, waiting, toTarget, down, targetVars, linkVars, fixed>>
  BY DEF ServerReturns
<1> USE DEF callerVars, targetVars, linkVars, fixed, IInv
<1>2. /\ toCaller' \in Seq(AnswerType) /\ Granted(toCaller') \subseteq returned'
      /\ missed' \in SUBSET Calls
  <2>1. PICK ok \in BOOLEAN : Respond(c, ok)
    BY DEF ServerReturns
  <2>2. Granted(toCaller) \subseteq returned' /\ c \in returned' /\ Types
    BY <1>1 DEF Earned
  <2> QED
    BY <2>1, <2>2, RespondKeeps
<1>3. serverRpcInFlight' = Cardinality(serving') /\ serverRpcInFlight' <= ServerSlots
  <2>1. serving \subseteq Calls
    BY DEF Types
  <2>2. Cardinality(serving') = Cardinality(serving) - 1 /\ Cardinality(serving) \in Nat
    BY <1>1, <2>1, CountOne
  <2>3. ServerSlots \in Nat
    BY RelayAssumption DEF RelayAssumption
  <2> QED
    BY <1>1, <2>2, <2>3 DEF Counts
<1>4. Types' /\ Counts' /\ Earned'
  BY <1>1, <1>2, <1>3 DEF Types, Counts, Earned
<1>5. OnePlace'
  <2>1. New' = New /\ Started' = Started
    BY <1>1 DEF New, Started
  <2> QED
    BY <1>1, <2>1 DEF OnePlace
<1> QED
  BY <1>4, <1>5

LEMMA HubWritesKeeps == ASSUME IInv, HubWrites PROVE IInv'
<1> DEFINE m == Head(toTarget)
           c == m.call
<1>0. /\ toTarget \in Seq(MessageType) /\ toTarget # <<>> /\ Once(toTarget)
      /\ down \in Seq(MessageType) /\ Once(down) /\ toTarget' = Tail(toTarget)
  BY DEF IInv, Types, OnePlace, HubWrites
<1>1. /\ toTarget' \in Seq(MessageType) /\ Once(toTarget')
      /\ Asked(toTarget') \subseteq Asked(toTarget)
      /\ m \in MessageType
      /\ \A d \in Calls : m = Request(d) => d \in Asked(toTarget) /\ d \notin Asked(toTarget')
  BY <1>0, TakeFirst
<1>2. c \in Calls /\ (m = Request(c) \/ m = Cancel(c))
  BY <1>1, MessageKinds
<1>3. missed' \subseteq Calls /\ (down' = down \/ down' = Append(down, m))
  BY <1>2 DEF IInv, Types, HubWrites
<1> HIDE DEF m, c
<1>4. /\ down' \in Seq(MessageType) /\ Once(down')
      /\ \/ Asked(down') = Asked(down)
         \/ Asked(down') = Asked(down) \cup {c} /\ c \in Asked(toTarget) /\ c \notin Asked(toTarget')
  <2>1. CASE down' = down
    BY <1>0, <2>1
  <2>2. CASE down' = Append(down, m) /\ m = Cancel(c)
    BY <1>0, <1>2, <2>2, AddCancel
  <2>3. CASE down' = Append(down, m) /\ m = Request(c)
    <3>1. c \in Asked(toTarget) /\ c \notin Asked(toTarget')
      BY <1>1, <1>2, <2>3
    <3>2. c \notin Asked(down)
      BY <3>1 DEF IInv, OnePlace, Apart
    <3> QED
      BY <1>0, <1>2, <2>3, <3>1, <3>2, AddRequest
  <2> QED
    BY <1>2, <1>3, <2>1, <2>2, <2>3
<1>5. UNCHANGED <<callerVars, waiting, serving, serverRpcInFlight, toCaller, targetVars, linkVars,
                  fixed, returned>>
  BY DEF HubWrites
<1> USE DEF callerVars, targetVars, linkVars, fixed, IInv
<1>6. Types' /\ Counts' /\ Earned'
  BY <1>1, <1>3, <1>4, <1>5 DEF Types, Counts, Earned
<1>7. OnePlace'
  <2>1. New' = New
    BY <1>5 DEF New
  <2> QED
    BY <1>1, <1>4, <1>5, <2>1 DEF OnePlace, Apart, Started
<1> QED
  BY <1>6, <1>7

LEMMA HubForwardsKeeps == ASSUME IInv, HubForwards PROVE IInv'
<1> DEFINE c == Head(fromTarget).call
           ok == Head(fromTarget).ok
<1>1. /\ fromTarget' \in Seq(AnswerType) /\ Granted(fromTarget') \subseteq Granted(fromTarget)
      /\ c \in Calls /\ ok \in BOOLEAN /\ (ok => c \in Granted(fromTarget))
  BY TakeAnswer DEF IInv, Types, HubForwards
<1>2. Respond(c, ok)
  BY DEF HubForwards
<1>3. UNCHANGED <<callerVars, hubVars, running, aborted, inFlightRpc, replies, linkVars, fixed,
                  returned>>
  BY DEF HubForwards
<1> HIDE DEF c, ok
<1>4. /\ toCaller' \in Seq(AnswerType) /\ Granted(toCaller') \subseteq returned
      /\ missed' \in SUBSET Calls
  <2>1. Granted(toCaller) \subseteq returned /\ (ok => c \in returned) /\ Types
    BY <1>1 DEF IInv, Earned
  <2> QED
    BY <1>1, <1>2, <2>1, RespondKeeps
<1> USE DEF callerVars, hubVars, linkVars, fixed, IInv
<1>5. Types' /\ Counts' /\ Earned'
  BY <1>1, <1>3, <1>4 DEF Types, Counts, Earned
<1>6. OnePlace'
  <2>1. New' = New
    BY <1>3 DEF New
  <2> QED
    BY <1>3, <2>1 DEF OnePlace, Apart, Started
<1> QED
  BY <1>5, <1>6

\* The target's steps.
LEMMA TargetReceivesKeeps == ASSUME IInv, TargetReceives PROVE IInv'
<1> DEFINE m == Head(down)
           c == m.call
<1>0. down \in Seq(MessageType) /\ down # <<>> /\ Once(down) /\ down' = Tail(down)
  BY DEF IInv, Types, OnePlace, TargetReceives
<1>1. /\ down' \in Seq(MessageType) /\ Once(down') /\ Asked(down') \subseteq Asked(down)
      /\ m \in MessageType
      /\ \A d \in Calls : m = Request(d) => d \in Asked(down) /\ d \notin Asked(down')
  BY <1>0, TakeFirst
<1>2. /\ c \in Calls
      /\ m.type = "rpc.request" => c \in Asked(down) /\ c \notin Asked(down')
  BY <1>1, MessageKinds
<1>3. \/ HandleRpcRequest(c) /\ m.type = "rpc.request" /\ UNCHANGED aborted
      \/ aborted' = aborted \cup (running \cap {c}) /\ UNCHANGED <<running, inFlightRpc, replies, missed>>
  BY DEF TargetReceives
<1>4. UNCHANGED <<callerVars, waiting, serving, serverRpcInFlight, toTarget, toCaller, fromTarget,
                  linkVars, fixed, returned>>
  BY DEF TargetReceives
<1> HIDE DEF m, c
<1> USE DEF callerVars, linkVars, fixed, IInv
<1>5. New' = New
  BY <1>4 DEF New
<1>6. CASE HandleRpcRequest(c) /\ m.type = "rpc.request" /\ UNCHANGED aborted
  <2>1. CASE Reply(c, FALSE) /\ UNCHANGED <<running, inFlightRpc>>
    <3>1. /\ replies' \in Seq(AnswerType) /\ Granted(replies') \subseteq returned
          /\ missed' \in SUBSET Calls
      <4>1. Granted(replies) \subseteq returned /\ Types
        BY DEF Earned
      <4> QED
        BY <1>2, <2>1, <4>1, ReplyKeeps
    <3>2. Types' /\ Counts' /\ Earned'
      BY <1>1, <1>4, <1>6, <2>1, <3>1 DEF Types, Counts, Earned
    <3>3. OnePlace'
      BY <1>1, <1>4, <1>5, <2>1 DEF OnePlace, Apart, Started
    <3> QED
      BY <3>2, <3>3
  <2>2. CASE /\ ~Busy /\ running' = running \cup {c} /\ inFlightRpc' = inFlightRpc + 1
             /\ UNCHANGED <<replies, missed>>
    <3>1. c \notin Started
      BY <1>2, <1>6 DEF OnePlace, Apart
    <3>2. inFlightRpc' = Cardinality(running') /\ inFlightRpc' <= TargetSlots
      <4>1. running \subseteq Calls /\ c \notin running
        BY <3>1 DEF Types, Started
      <4>2. Cardinality(running') = Cardinality(running) + 1 /\ Cardinality(running) \in Nat
        BY <1>2, <2>2, <4>1, CountOne
      <4>3. TargetSlots \in Nat
        BY RelayAssumption DEF RelayAssumption
      <4> QED
        BY <2>2, <4>2, <4>3 DEF Counts, Busy
    <3>3. Types' /\ Counts' /\ Earned'
      BY <1>1, <1>2, <1>4, <1>6, <2>2, <3>2 DEF Types, Counts, Earned
    <3>4. OnePlace'
      BY <1>1, <1>2, <1>4, <1>5, <1>6, <2>2, <3>1 DEF OnePlace, Apart, Started
    <3> QED
      BY <3>3, <3>4
  <2> QED
    BY <1>6, <2>1, <2>2 DEF HandleRpcRequest
<1>7. CASE /\ aborted' = aborted \cup (running \cap {c})
           /\ UNCHANGED <<running, inFlightRpc, replies, missed>>
  <2>1. Types' /\ Counts' /\ Earned'
    BY <1>1, <1>4, <1>7 DEF Types, Counts, Earned
  <2>2. OnePlace'
    BY <1>1, <1>4, <1>5, <1>7 DEF OnePlace, Apart, Started
  <2> QED
    BY <2>1, <2>2
<1> QED
  BY <1>3, <1>6, <1>7

LEMMA TargetReturnsKeeps == ASSUME NEW c \in Calls, IInv, TargetReturns(c) PROVE IInv'
<1>1. /\ c \in running /\ running' = running \ {c} /\ aborted' = aborted \ {c}
      /\ inFlightRpc' = inFlightRpc - 1 /\ returned' = returned \cup {c}
      /\ UNCHANGED <<callerVars, hubVars, toCaller, fromTarget, linkVars, fixed>>
  BY DEF TargetReturns
<1> USE DEF callerVars, hubVars, linkVars, fixed, IInv
<1>2. /\ replies' \in Seq(AnswerType) /\ Granted(replies') \subseteq returned'
      /\ missed' \in SUBSET Calls
  <2>1. Granted(replies) \subseteq returned' /\ c \in returned' /\ Types
    BY <1>1 DEF Earned
  <2>2. CASE UNCHANGED <<replies, missed>>
    BY <2>1, <2>2 DEF Types
  <2>3. ASSUME NEW ok \in BOOLEAN, Reply(c, ok)
        PROVE  /\ replies' \in Seq(AnswerType) /\ Granted(replies') \subseteq returned'
               /\ missed' \in SUBSET Calls
    BY <2>1, <2>3, ReplyKeeps
  <2> QED
    BY <2>2, <2>3 DEF TargetReturns
<1>3. inFlightRpc' = Cardinality(running') /\ inFlightRpc' <= TargetSlots
  <2>1. running \subseteq Calls
    BY DEF Types
  <2>2. Cardinality(running') = Cardinality(running) - 1 /\ Cardinality(running) \in Nat
    BY <1>1, <2>1, CountOne
  <2>3. TargetSlots \in Nat
    BY RelayAssumption DEF RelayAssumption
  <2> QED
    BY <1>1, <2>2, <2>3 DEF Counts
<1>4. Types' /\ Counts' /\ Earned'
  BY <1>1, <1>2, <1>3 DEF Types, Counts, Earned
<1>5. OnePlace'
  <2>1. New' = New /\ Started' = Started
    BY <1>1 DEF New, Started
  <2> QED
    BY <1>1, <2>1 DEF OnePlace
<1> QED
  BY <1>4, <1>5

LEMMA TargetWritesKeeps == ASSUME IInv, TargetWrites PROVE IInv'
<1> DEFINE c == Head(replies).call
           ok == Head(replies).ok
<1>1. /\ replies' \in Seq(AnswerType) /\ Granted(replies') \subseteq Granted(replies)
      /\ c \in Calls /\ ok \in BOOLEAN /\ (ok => c \in Granted(replies))
      /\ Head(replies) = Answer(c, ok)
  <2>1. replies \in Seq(AnswerType) /\ replies # <<>> /\ replies' = Tail(replies)
    BY DEF IInv, Types, TargetWrites
  <2>2. Head(replies) \in AnswerType
    BY <2>1, TakeAnswer
  <2>3. Head(replies) = Answer(c, ok)
    BY <2>2 DEF AnswerType, Answer
  <2> QED
    BY <2>1, <2>3, TakeAnswer
<1>2. /\ fromTarget' = fromTarget \/ fromTarget' = Append(fromTarget, Answer(c, ok))
      /\ missed' = missed \/ missed' = missed \cup {c}
  BY <1>1 DEF TargetWrites
<1>3. UNCHANGED <<callerVars, hubVars, toCaller, running, aborted, inFlightRpc, linkVars, fixed,
                  returned>>
  BY DEF TargetWrites
<1> HIDE DEF c, ok
<1>4. fromTarget' \in Seq(AnswerType) /\ Granted(fromTarget') \subseteq returned
  <2>1. /\ fromTarget \in Seq(AnswerType) /\ Granted(fromTarget) \subseteq returned
        /\ ok => c \in returned
    BY <1>1 DEF IInv, Types, Earned
  <2>2. /\ Append(fromTarget, Answer(c, ok)) \in Seq(AnswerType)
        /\ Granted(Append(fromTarget, Answer(c, ok))) \subseteq returned
    BY <1>1, <2>1, AddAnswer
  <2> QED
    BY <1>2, <2>1, <2>2
<1> USE DEF callerVars, hubVars, linkVars, fixed, IInv
<1>5. Types' /\ Counts' /\ Earned'
  BY <1>1, <1>2, <1>3, <1>4 DEF Types, Counts, Earned
<1>6. OnePlace'
  <2>1. New' = New
    BY <1>3 DEF New
  <2> QED
    BY <1>3, <2>1 DEF OnePlace, Apart, Started
<1> QED
  BY <1>5, <1>6

\* The links' steps: a broken link empties queues, never fills one.
LEMMA LinkDownKeeps ==
  ASSUME NEW e \in Ends, Types, LinkDown(e)
  PROVE  /\ link' \in [Ends -> {"up", "down"}] /\ known' \in [Ends -> {"this", "earlier", "none"}]
         /\ drops' \in 0 .. MaxDrops
<1>1. MaxDrops \in Nat
  BY RelayAssumption DEF RelayAssumption
<1> QED
  BY <1>1 DEF Types, LinkDown

LEMMA CallerClosesKeeps == ASSUME IInv, CallerCloses PROVE IInv'
<1>1. /\ link' \in [Ends -> {"up", "down"}] /\ known' \in [Ends -> {"this", "earlier", "none"}]
      /\ drops' \in 0 .. MaxDrops
  BY LinkDownKeeps DEF IInv, Ends, CallerCloses
<1>2. /\ outcome' = [c \in Calls |-> IF Awaited(c) THEN "rejected" ELSE outcome[c]]
      /\ missed' = missed \cup CallsIn(outbox) /\ outbox' = <<>> /\ toCaller' = <<>>
      /\ UNCHANGED <<up, cancelled, hubVars, targetVars, fixed, returned>>
  BY DEF CallerCloses
<1>3. New' = New /\ outcome' \in [Calls -> {"new", "pending", "fulfilled", "rejected"}]
  BY <1>2 DEF IInv, Types, New, Awaited
<1>4. missed' \subseteq Calls
  BY <1>2, CallsOfQueue DEF IInv, Types
<1> USE DEF hubVars, targetVars, fixed, IInv
<1>5. /\ outbox' \in Seq(MessageType) /\ Once(outbox') /\ Asked(outbox') = {}
      /\ toCaller' \in Seq(AnswerType) /\ Granted(toCaller') = {}
  BY <1>2, Emptied
<1>6. Types' /\ Counts' /\ Earned'
  BY <1>1, <1>2, <1>3, <1>4, <1>5 DEF Types, Counts, Earned
<1>7. OnePlace'
  BY <1>2, <1>3, <1>5 DEF OnePlace, Apart, Started
<1> QED
  BY <1>6, <1>7

LEMMA TargetClosesKeeps == ASSUME IInv, TargetCloses PROVE IInv'
<1>1. /\ link' \in [Ends -> {"up", "down"}] /\ known' \in [Ends -> {"this", "earlier", "none"}]
      /\ drops' \in 0 .. MaxDrops
  BY LinkDownKeeps DEF IInv, Ends, TargetCloses
<1>2. /\ aborted' = running /\ missed' = missed \cup running \cup CallsIn(down) /\ down' = <<>>
      /\ UNCHANGED <<callerVars, waiting, serving, serverRpcInFlight, toTarget, toCaller, running,
                     inFlightRpc, replies, fromTarget, fixed, returned>>
  BY DEF TargetCloses
<1>3. missed' \subseteq Calls
  BY <1>2, CallsOfQueue DEF IInv, Types
<1> USE DEF callerVars, fixed, IInv
<1>4. down' \in Seq(MessageType) /\ Once(down') /\ Asked(down') = {} /\ New' = New
  BY <1>2, Emptied DEF New
<1>5. Types' /\ Counts' /\ Earned'
  BY <1>1, <1>2, <1>3, <1>4 DEF Types, Counts, Earned
<1>6. OnePlace'
  BY <1>2, <1>4 DEF OnePlace, Apart, Started
<1> QED
  BY <1>5, <1>6

\* What is left of the queues of the hub when a socket is gone.
LEMMA HubLosesKeeps ==
  ASSUME IInv, NEW e \in Ends, HubLoses(e)
  PROVE  /\ up' \in Seq(MessageType) /\ Once(up') /\ Asked(up') \subseteq Asked(up)
         /\ toTarget' \in Seq(MessageType) /\ Once(toTarget')
         /\ Asked(toTarget') \subseteq Asked(toTarget)
         /\ fromTarget' \in Seq(AnswerType) /\ Granted(fromTarget') \subseteq Granted(fromTarget)
         /\ missed' \in SUBSET Calls /\ missed \subseteq missed'
<1>1. /\ up \in Seq(MessageType) /\ Once(up) /\ toTarget \in Seq(MessageType) /\ Once(toTarget)
      /\ fromTarget \in Seq(AnswerType) /\ missed \subseteq Calls
  BY DEF IInv, Types, OnePlace
<1>2. CASE e = "caller"
  BY <1>1, <1>2, Emptied, CallsOfQueue DEF HubLoses
<1>3. CASE e # "caller"
  BY <1>1, <1>3, Emptied, CallsOfQueue DEF HubLoses
<1> QED
  BY <1>2, <1>3

LEMMA HubForgetsKeeps == ASSUME NEW e \in Ends, IInv, HubForgets(e) PROVE IInv'
<1>1. /\ known' \in [Ends -> {"this", "earlier", "none"}] /\ drops' \in 0 .. MaxDrops
  <2>1. MaxDrops \in Nat
    BY RelayAssumption DEF RelayAssumption
  <2> QED
    BY <2>1 DEF IInv, Types, HubForgets
<1>2. /\ UNCHANGED <<outcome, outbox, cancelled, waiting, serving, serverRpcInFlight, down, toCaller,
                     running, aborted, inFlightRpc, replies, link, fixed, returned>>
      /\ HubLoses(e)
  BY DEF HubForgets
<1>3. /\ up' \in Seq(MessageType) /\ Once(up') /\ Asked(up') \subseteq Asked(up)
      /\ toTarget' \in Seq(MessageType) /\ Once(toTarget')
      /\ Asked(toTarget') \subseteq Asked(toTarget)
      /\ fromTarget' \in Seq(AnswerType) /\ Granted(fromTarget') \subseteq Granted(fromTarget)
      /\ missed' \in SUBSET Calls
  BY <1>2, HubLosesKeeps
<1> USE DEF fixed, IInv
<1>4. Types' /\ Counts' /\ Earned'
  BY <1>1, <1>2, <1>3 DEF Types, Counts, Earned
<1>5. OnePlace'
  <2>1. New' = New
    BY <1>2 DEF New
  <2> QED
    BY <1>2, <1>3, <2>1 DEF OnePlace, Apart, Started
<1> QED
  BY <1>4, <1>5

LEMMA ReconnectKeeps == ASSUME NEW e \in Ends, IInv, Reconnect(e) PROVE IInv'
<1>1. /\ link' \in [Ends -> {"up", "down"}] /\ known' \in [Ends -> {"this", "earlier", "none"}]
  BY DEF IInv, Types, Reconnect
<1>2. /\ UNCHANGED <<outcome, outbox, cancelled, waiting, serving, serverRpcInFlight, down, toCaller,
                     running, aborted, inFlightRpc, replies, drops, fixed, returned>>
      /\ HubLoses(e)
  BY DEF Reconnect
<1>3. /\ up' \in Seq(MessageType) /\ Once(up') /\ Asked(up') \subseteq Asked(up)
      /\ toTarget' \in Seq(MessageType) /\ Once(toTarget')
      /\ Asked(toTarget') \subseteq Asked(toTarget)
      /\ fromTarget' \in Seq(AnswerType) /\ Granted(fromTarget') \subseteq Granted(fromTarget)
      /\ missed' \in SUBSET Calls
  BY <1>2, HubLosesKeeps
<1> USE DEF fixed, IInv
<1>4. Types' /\ Counts' /\ Earned'
  BY <1>1, <1>2, <1>3 DEF Types, Counts, Earned
<1>5. OnePlace'
  <2>1. New' = New
    BY <1>2 DEF New
  <2> QED
    BY <1>2, <1>3, <2>1 DEF OnePlace, Apart, Started
<1> QED
  BY <1>4, <1>5

LEMMA InitIInv == Init => IInv
<1> SUFFICES ASSUME Init PROVE IInv
  OBVIOUS
<1>1. Types
  <2>1. MaxDrops \in Nat
    BY RelayAssumption DEF RelayAssumption
  <2> QED
    BY <2>1, Emptied DEF Init, Types
<1>2. Counts
  <2>1. Cardinality({}) = 0 /\ TargetSlots \in Nat /\ ServerSlots \in Nat
    BY FS_EmptySet, RelayAssumption DEF RelayAssumption
  <2> QED
    BY <2>1 DEF Init, Counts
<1>3. OnePlace /\ Earned
  BY Emptied DEF Init, OnePlace, Apart, Started, Earned
<1> QED
  BY <1>1, <1>2, <1>3 DEF IInv

\* The invariant is inductive.
LEMMA NextKeeps == IInv /\ [Next]_vars => IInv'
<1> SUFFICES ASSUME IInv, [Next]_vars PROVE IInv'
  OBVIOUS
<1>1. CASE UNCHANGED vars
  BY <1>1 DEF vars, callerVars, hubVars, targetVars, linkVars, fixed, IInv, Types, Counts, OnePlace,
              Apart, New, Started, Earned
<1>2. CASE \E c \in Calls : Call(c) \/ CallFails(c) \/ Abandon(c)
  BY <1>2, CallKeeps, CallFailsKeeps, AbandonKeeps
<1>3. CASE Messages
  BY <1>3, CallerWritesKeeps, CallerReceivesKeeps, HubReceivesKeeps, HubWritesKeeps,
     HubForwardsKeeps, TargetReceivesKeeps, TargetWritesKeeps DEF Messages
<1>4. CASE Handlers
  BY <1>4, GateAnswersKeeps, ServerReturnsKeeps, TargetReturnsKeeps DEF Handlers
<1>5. CASE Links
  BY <1>5, CallerClosesKeeps, TargetClosesKeeps, HubForgetsKeeps, ReconnectKeeps DEF Links
<1> QED
  BY <1>1, <1>2, <1>3, <1>4, <1>5 DEF Next

\* A request is in one place at a time, and only what a handler returned is
\* answered for: dispatch, _handleRpcRequest and the purge of a lost link.
THEOREM Invariance == Spec => []IInv
<1>1. Init => IInv
  BY InitIInv
<1>2. IInv /\ [Next]_vars => IInv'
  BY NextKeeps
<1> QED
  BY <1>1, <1>2, PTL DEF Spec

\* Each counter is the number of handlers that run, and never above its limit,
\* whatever is lost, late or cancelled (handleServerRpc, _handleRpcRequest).
THEOREM TypeCorrect == Spec => []TypeOK
<1>1. IInv => TypeOK
  BY DEF IInv, Types, Counts, TypeOK
<1> QED
  BY <1>1, Invariance, PTL

-----------------------------------------------------------------------------
(***************************************************************************)
(* The promise of rpc(): every step of the relay is one of RpcPromise, or  *)
(* none.  A request in a place is one whose handler has not run, and whose *)
(* promise is no longer new (OnePlace); a result is one that was returned  *)
(* (Earned).                                                               *)
(***************************************************************************)
\* Handlers that neither start nor return.
LEMMA SameHandlers ==
  ASSUME UNCHANGED <<running, serving, returned>> PROVE handlerOf' = handlerOf
BY DEF handlerOf

\* A handler that starts.
LEMMA RunsOnce ==
  ASSUME NEW c \in Calls, c \notin New, c \notin Started, UNCHANGED <<outcome, returned>>,
         running' \cup serving' = running \cup serving \cup {c}
  PROVE  Promise!Run(c)
<1>1. outcome[c] # "new" /\ handlerOf[c] = "none"
  BY DEF New, Started, handlerOf
<1>2. handlerOf' = [handlerOf EXCEPT ![c] = "running"]
  BY DEF handlerOf
<1> QED
  BY <1>1, <1>2 DEF Promise!Run

\* One that returns.
LEMMA ReturnsOnce ==
  ASSUME NEW c \in Calls, OnePlace, c \in running \cup serving, UNCHANGED outcome,
         returned' = returned \cup {c}, running' \cup serving' = (running \cup serving) \ {c}
  PROVE  Promise!Return(c)
<1>1. handlerOf[c] = "running"
  BY DEF handlerOf
<1>2. handlerOf' = [handlerOf EXCEPT ![c] = "returned"]
  BY DEF handlerOf, OnePlace
<1> QED
  BY <1>1, <1>2 DEF Promise!Return

\* A call that fails alone.
LEMMA FailsAlone ==
  ASSUME NEW c \in Calls, Types, outcome[c] \in {"new", "pending"},
         outcome' = [outcome EXCEPT ![c] = "rejected"], UNCHANGED <<running, serving, returned>>
  PROVE  Promise!PromiseNext
<1>1. outcome' = [d \in Calls |-> IF d \in {c} THEN "rejected" ELSE outcome[d]]
  BY DEF Types
<1>2. handlerOf' = handlerOf
  BY SameHandlers
<1>3. Promise!Fail({c})
  BY <1>1, <1>2 DEF Promise!Fail
<1> QED
  BY <1>3 DEF Promise!PromiseNext

\* The handler of a request that is routed to the hub starts, or nothing does.
LEMMA RoutePromises ==
  ASSUME NEW c \in Calls, c \notin New, c \notin Started, Route(c),
         UNCHANGED <<outcome, running, returned>>
  PROVE  [Promise!PromiseNext]_(Promise!promise)
<1>1. CASE serving' = serving
  BY <1>1, SameHandlers DEF Promise!promise
<1>2. CASE serving' = serving \cup {c}
  <2>1. running' \cup serving' = running \cup serving \cup {c}
    BY <1>2
  <2>2. Promise!Run(c)
    BY <2>1, RunsOnce
  <2> QED
    BY <2>2 DEF Promise!PromiseNext
<1> QED
  BY <1>1, <1>2 DEF Route, Serve

LEMMA CallPromises ==
  ASSUME NEW c \in Calls, IInv, Call(c) \/ CallFails(c) \/ Abandon(c)
  PROVE  Promise!PromiseNext
<1>1. UNCHANGED <<running, serving, returned>> /\ Types
  BY DEF Call, CallFails, Abandon, hubVars, targetVars, IInv
<1>2. CASE Call(c)
  <2>1. Promise!Make(c)
    BY <1>1, <1>2, SameHandlers DEF Call, Promise!Make
  <2> QED
    BY <2>1 DEF Promise!PromiseNext
<1>3. CASE CallFails(c) \/ Abandon(c)
  <2>1. outcome[c] \in {"new", "pending"} /\ outcome' = [outcome EXCEPT ![c] = "rejected"]
    BY <1>3 DEF CallFails, Abandon
  <2> QED
    BY <1>1, <2>1, FailsAlone
<1> QED
  BY <1>2, <1>3

LEMMA CallerReceivesPromises ==
  ASSUME IInv, CallerReceives PROVE [Promise!PromiseNext]_(Promise!promise)
<1> DEFINE c == Head(toCaller).call
           ok == Head(toCaller).ok
<1>1. c \in Calls /\ ok \in BOOLEAN /\ (ok => c \in Granted(toCaller))
  BY TakeAnswer DEF IInv, Types, CallerReceives
<1>2. /\ outcome' = IF Awaited(c) THEN [outcome EXCEPT ![c] = IF ok THEN "fulfilled" ELSE "rejected"]
                    ELSE outcome
      /\ UNCHANGED <<running, serving, returned>>
  BY DEF CallerReceives, hubVars, targetVars
<1> HIDE DEF c, ok
<1>3. handlerOf' = handlerOf
  BY <1>2, SameHandlers
<1>4. CASE ~Awaited(c)
  BY <1>2, <1>3, <1>4 DEF Promise!promise
<1>5. CASE Awaited(c) /\ ok
  <2>1. c \in returned /\ c \notin running \cup serving
    BY <1>1, <1>5 DEF IInv, Earned, OnePlace
  <2>2. handlerOf[c] = "returned"
    BY <1>1, <2>1 DEF handlerOf
  <2>3. Promise!Fulfil(c)
    BY <1>2, <1>3, <1>5, <2>2 DEF Awaited, Promise!Fulfil
  <2> QED
    BY <1>1, <2>3 DEF Promise!PromiseNext
<1>6. CASE Awaited(c) /\ ~ok
  <2>1. outcome[c] \in {"new", "pending"} /\ outcome' = [outcome EXCEPT ![c] = "rejected"]
    BY <1>2, <1>6 DEF Awaited
  <2>2. Promise!PromiseNext
    BY <1>1, <1>2, <2>1, FailsAlone DEF IInv
  <2> QED
    BY <2>2
<1> QED
  BY <1>4, <1>5, <1>6

LEMMA HubReceivesPromises ==
  ASSUME IInv, HubReceives PROVE [Promise!PromiseNext]_(Promise!promise)
<1> DEFINE m == Head(up)
           c == m.call
<1>1. m \in MessageType /\ \A d \in Calls : m = Request(d) => d \in Asked(up)
  BY TakeFirst DEF IInv, Types, OnePlace, HubReceives
<1>2. c \in Calls /\ (m.type = "rpc.request" => c \in Asked(up))
  BY <1>1, MessageKinds
<1>3. /\ UNCHANGED <<outcome, running, returned>>
      /\ UNCHANGED serving \/ (m.type = "rpc.request" /\ Route(c))
  BY DEF HubReceives, targetVars
<1> HIDE DEF m, c
<1>4. CASE UNCHANGED serving
  BY <1>3, <1>4, SameHandlers DEF Promise!promise
<1>5. CASE m.type = "rpc.request" /\ Route(c)
  <2>1. c \notin New /\ c \notin Started
    BY <1>2, <1>5 DEF IInv, OnePlace, Apart
  <2> QED
    BY <1>2, <1>3, <1>5, <2>1, RoutePromises
<1> QED
  BY <1>3, <1>4, <1>5

LEMMA TargetReceivesPromises ==
  ASSUME IInv, TargetReceives PROVE [Promise!PromiseNext]_(Promise!promise)
<1> DEFINE m == Head(down)
           c == m.call
<1>1. m \in MessageType /\ \A d \in Calls : m = Request(d) => d \in Asked(down)
  BY TakeFirst DEF IInv, Types, OnePlace, TargetReceives
<1>2. c \in Calls /\ (m.type = "rpc.request" => c \in Asked(down))
  BY <1>1, MessageKinds
<1>3. /\ UNCHANGED <<outcome, serving, returned>>
      /\ UNCHANGED running \/ (m.type = "rpc.request" /\ running' = running \cup {c})
  BY DEF TargetReceives, HandleRpcRequest, callerVars
<1> HIDE DEF m, c
<1>4. CASE UNCHANGED running
  BY <1>3, <1>4, SameHandlers DEF Promise!promise
<1>5. CASE m.type = "rpc.request" /\ running' = running \cup {c}
  <2>1. c \notin New /\ c \notin Started
    BY <1>2, <1>5 DEF IInv, OnePlace, Apart
  <2>2. running' \cup serving' = running \cup serving \cup {c}
    BY <1>3, <1>5
  <2>3. Promise!Run(c)
    BY <1>2, <1>3, <2>1, <2>2, RunsOnce
  <2> QED
    BY <1>2, <2>3 DEF Promise!PromiseNext
<1> QED
  BY <1>3, <1>4, <1>5

LEMMA HandlersPromise ==
  ASSUME NEW c \in Calls, IInv, GateAnswers(c) \/ ServerReturns(c) \/ TargetReturns(c)
  PROVE  [Promise!PromiseNext]_(Promise!promise)
<1>1. CASE GateAnswers(c)
  <2>1. /\ UNCHANGED <<outcome, running, returned>> /\ c \in waiting
        /\ UNCHANGED serving \/ Route(c)
    BY <1>1 DEF GateAnswers, callerVars, targetVars
  <2>2. c \notin New /\ c \notin Started
    BY <2>1 DEF IInv, OnePlace, Apart
  <2>3. CASE UNCHANGED serving
    BY <2>1, <2>3, SameHandlers DEF Promise!promise
  <2> QED
    BY <2>1, <2>2, <2>3, RoutePromises
<1>2. CASE ServerReturns(c) \/ TargetReturns(c)
  <2>1. /\ c \in running \cup serving /\ UNCHANGED outcome /\ returned' = returned \cup {c}
        /\ running' \cup serving' = (running \cup serving) \ {c}
    BY <1>2 DEF ServerReturns, TargetReturns, callerVars, hubVars, targetVars, IInv, OnePlace
  <2>2. Promise!Return(c)
    BY <2>1, ReturnsOnce DEF IInv
  <2> QED
    BY <2>2 DEF Promise!PromiseNext
<1> QED
  BY <1>1, <1>2

\* A lost link fails every pending call in one step.
LEMMA CallerClosesPromises == ASSUME IInv, CallerCloses PROVE Promise!PromiseNext
<1> DEFINE failed == {c \in Calls : Awaited(c)}
<1>1. outcome' = [c \in Calls |-> IF c \in failed THEN "rejected" ELSE outcome[c]]
  BY DEF CallerCloses
<1>2. handlerOf' = handlerOf
  BY SameHandlers DEF CallerCloses, hubVars, targetVars
<1>3. Promise!Fail(failed)
  BY <1>1, <1>2 DEF Promise!Fail, Awaited
<1> QED
  BY <1>3 DEF Promise!PromiseNext

\* No other step is seen.
LEMMA OthersUnseen ==
  ASSUME \/ CallerWrites \/ HubWrites \/ HubForwards \/ TargetWrites \/ TargetCloses
         \/ \E e \in Ends : HubForgets(e) \/ Reconnect(e)
         \/ UNCHANGED vars
  PROVE  UNCHANGED Promise!promise
<1>1. UNCHANGED <<outcome, running, serving, returned>>
  BY DEF CallerWrites, HubWrites, HubForwards, TargetWrites, TargetCloses, HubForgets, Reconnect,
         vars, callerVars, hubVars, targetVars
<1> QED
  BY <1>1, SameHandlers DEF Promise!promise

\* A call settles once, as fulfilled only by what its handler returned, and its
\* handler runs at most once: link.rpc() and all it crosses implement
\* RpcPromise, whatever is lost, late, cancelled or reconnected.
THEOREM PromiseKept == Spec => KeepsPromise
<1>1. Init => Promise!PromiseInit
  BY DEF Init, handlerOf, Promise!PromiseInit
<1>2. IInv /\ [Next]_vars => [Promise!PromiseNext]_(Promise!promise)
  <2> SUFFICES ASSUME IInv, [Next]_vars PROVE [Promise!PromiseNext]_(Promise!promise)
    OBVIOUS
  <2>1. CASE \E c \in Calls : Call(c) \/ CallFails(c) \/ Abandon(c)
    BY <2>1, CallPromises
  <2>2. CASE Messages
    BY <2>2, OthersUnseen, CallerReceivesPromises, HubReceivesPromises, TargetReceivesPromises
       DEF Messages
  <2>3. CASE Handlers
    BY <2>3, HandlersPromise DEF Handlers
  <2>4. CASE Links
    BY <2>4, OthersUnseen, CallerClosesPromises DEF Links
  <2> QED
    BY <2>1, <2>2, <2>3, <2>4, OthersUnseen DEF Next
<1> QED
  BY <1>1, <1>2, Invariance, PTL DEF Spec, KeepsPromise, Promise!PromiseSpec

-----------------------------------------------------------------------------
(***************************************************************************)
(* A cancel follows its request from place to place, or is lost.  Each     *)
(* step is seen from one call c that was cancelled and of which nothing    *)
(* was lost.                                                               *)
(***************************************************************************)
\* Steps that move no request and no cancel.
LEMMA OutOfTheWay ==
  ASSUME CInv, missed \subseteq missed', cancelled' = cancelled, New' \subseteq New,
         UNCHANGED <<outbox, up, waiting, toTarget, down, link, known, to>>,
         running' \subseteq running, running' \ aborted' \subseteq running \ aborted
  PROVE  CInv'
<1>1. LinkView'
  BY DEF CInv, LinkView
<1>2. Severed' = Severed
  BY DEF Severed
<1>3. ASSUME NEW c \in cancelled' \ missed', to'[c] = "target" PROVE Follows(c)'
  <2>1. Follows(c)
    BY <1>3 DEF CInv
  <2>2. Follows(c)' = /\ c \notin Asked(outbox) \cup New'
                      /\ c \in Asked(up) => c \in Told(outbox) \/ Behind(up, c)
                      /\ c \in waiting \cup Asked(toTarget) => c \in Told(outbox) \cup Told(up)
                      /\ c \in Asked(down) =>
                            \/ c \in Told(outbox) \cup Told(up) \cup Told(toTarget)
                            \/ Behind(down, c) \/ Severed
                      /\ c \in running' \ aborted' =>
                            \/ c \in Told(outbox) \cup Told(up) \cup Told(toTarget) \cup Told(down)
                            \/ Severed
    BY <1>2 DEF Follows
  <2> QED
    BY <2>1, <2>2 DEF Follows
<1> QED
  BY <1>1, <1>3 DEF CInv

LEMMA CallFollowed == ASSUME NEW d \in Calls, IInv, CInv, Call(d) PROVE CInv'
<1>1. /\ outbox \in Seq(MessageType) /\ Once(outbox) /\ d \in New /\ d \notin Asked(outbox)
      /\ outbox' = Append(outbox, Request(d)) /\ New' \subseteq New
      /\ UNCHANGED <<up, cancelled, waiting, toTarget, down, running, aborted, link, known, to, missed>>
  BY DEF Call, New, IInv, Types, OnePlace, Apart, hubVars, targetVars, linkVars, fixed
<1>2. Asked(outbox') = Asked(outbox) \cup {d} /\ Told(outbox') = Told(outbox)
  BY <1>1, AddRequest
<1>3. LinkView'
  BY <1>1 DEF CInv, LinkView
<1>4. ASSUME NEW c \in cancelled' \ missed', to'[c] = "target" PROVE Follows(c)'
  <2>1. Follows(c) /\ c # d
    BY <1>1, <1>4 DEF CInv, Follows
  <2> QED
    BY <1>1, <1>2, <2>1 DEF Follows, Severed
<1> QED
  BY <1>3, <1>4 DEF CInv

LEMMA AbandonFollowed == ASSUME NEW d \in Calls, IInv, CInv, Abandon(d) PROVE CInv'
<1> DEFINE w == Withdrawn(outbox, d)
<1>1. /\ w \in Seq(MessageType) /\ Once(w)
      /\ Asked(w) \subseteq Asked(outbox) \ {d} /\ Told(w) = Told(outbox)
  BY Withdraws DEF IInv, Types, OnePlace
<1>2. /\ \/ outbox' = Append(w, Cancel(d)) /\ cancelled' = cancelled \cup {d}
         \/ outbox' = w /\ cancelled' = cancelled
      /\ New' \subseteq New /\ d \notin New'
      /\ UNCHANGED <<up, waiting, toTarget, down, running, aborted, link, known, to, missed>>
  BY DEF Abandon, New, IInv, Types, hubVars, targetVars, linkVars, fixed
<1> HIDE DEF w
<1>3. /\ Asked(Append(w, Cancel(d))) = Asked(w)
      /\ Told(Append(w, Cancel(d))) = Told(w) \cup {d}
  BY <1>1, AddCancel
<1>4. /\ Asked(outbox') \subseteq Asked(outbox) \ {d} /\ Told(outbox) \subseteq Told(outbox')
      /\ d \in cancelled' => d \in cancelled \/ d \in Told(outbox')
  BY <1>1, <1>2, <1>3
<1>5. LinkView'
  BY <1>2 DEF CInv, LinkView
<1>6. ASSUME NEW c \in cancelled' \ missed', to'[c] = "target" PROVE Follows(c)'
  <2>1. CASE c \in cancelled
    <3>1. Follows(c)
      BY <1>2, <1>6, <2>1 DEF CInv
    <3> QED
      BY <1>2, <1>4, <3>1 DEF Follows, Severed
  <2>2. CASE c \notin cancelled
    <3>1. c = d /\ c \in Told(outbox')
      BY <1>2, <1>4, <1>6, <2>2
    <3> QED
      BY <1>2, <1>4, <3>1 DEF Follows
  <2> QED
    BY <2>1, <2>2
<1> QED
  BY <1>5, <1>6 DEF CInv

LEMMA CallerWritesFollowed == ASSUME IInv, CInv, CallerWrites PROVE CInv'
<1> DEFINE m == Head(outbox)
           d == m.call
<1>0. /\ outbox \in Seq(MessageType) /\ outbox # <<>> /\ Once(outbox) /\ outbox' = Tail(outbox)
      /\ up \in Seq(MessageType) /\ Once(up) /\ cancelled \subseteq Calls
  BY DEF IInv, Types, OnePlace, CallerWrites
<1>1. /\ m \in MessageType /\ Asked(outbox') \subseteq Asked(outbox)
      /\ \A c \in Calls : m = Request(c) => c \in Asked(outbox)
      /\ \A c \in Told(outbox) : m = Cancel(c) \/ c \in Told(outbox')
  BY <1>0, TakeFirst
<1>2. /\ d \in Calls /\ (m = Request(d) \/ m = Cancel(d))
      /\ m = Request(d) => d \in Asked(outbox) /\ d \notin Asked(up)
      /\ \A c \in Calls : m = Cancel(c) => c = d
  BY <1>1, MessageKinds DEF IInv, OnePlace, Apart
<1>3. \/ up' = Append(up, m) /\ missed' = missed
      \/ up' = up /\ missed' = missed \cup {d}
  BY DEF CallerWrites
<1>4. UNCHANGED <<outcome, cancelled, waiting, toTarget, down, running, aborted, link, known, to>>
  BY DEF CallerWrites, hubVars, targetVars, linkVars, fixed
<1> HIDE DEF m, d
<1>5. LinkView'
  BY <1>3, <1>4 DEF CInv, LinkView
<1>6. New' = New
  BY <1>4 DEF New
<1>7. ASSUME NEW c \in cancelled' \ missed', to'[c] = "target" PROVE Follows(c)'
  <2>0. c \in Calls /\ Follows(c) /\ c \notin Asked(outbox)
    BY <1>0, <1>3, <1>4, <1>7 DEF CInv, Follows
  <2>1. CASE up' = up /\ missed' = missed \cup {d}
    <3>1. c \in Told(outbox) => c \in Told(outbox')
      BY <1>1, <1>2, <1>7, <2>0, <2>1
    <3> QED
      BY <1>1, <1>4, <1>6, <2>0, <2>1, <3>1 DEF Follows, Severed
  <2>2. CASE up' = Append(up, m) /\ m = Request(d)
    <3>1. /\ Asked(up') = Asked(up) \cup {d} /\ Told(up') = Told(up)
          /\ Behind(up, c) => Behind(up', c)
      BY <1>0, <1>2, <2>0, <2>2, AddRequest
    <3>2. c # d /\ (c \in Told(outbox) => c \in Told(outbox'))
      BY <1>1, <1>2, <2>0, <2>2, MessageKinds
    <3> QED
      BY <1>1, <1>4, <1>6, <2>0, <3>1, <3>2 DEF Follows, Severed
  <2>3. CASE up' = Append(up, m) /\ m = Cancel(d)
    <3>1. /\ Asked(up') = Asked(up) /\ Told(up') = Told(up) \cup {d}
          /\ Behind(up, c) => Behind(up', c)
          /\ c = d /\ c \in Asked(up) => Behind(up', c)
      BY <1>0, <1>2, <2>0, <2>3, AddCancel
    <3>2. c \in Told(outbox) => c = d \/ c \in Told(outbox')
      BY <1>1, <1>2, <2>0
    <3> QED
      BY <1>1, <1>4, <1>6, <2>0, <3>1, <3>2 DEF Follows, Severed
  <2> QED
    BY <1>2, <1>3, <2>1, <2>2, <2>3
<1> QED
  BY <1>5, <1>7 DEF CInv

\* What becomes of a call when a cancel of it, or of another, comes to the hub.
LEMMA CancelFollowed ==
  ASSUME IInv, LinkView, NEW d \in Calls, CancelCall(d)
  PROVE  /\ known["target"] = "none" => toTarget' = <<>>
         /\ Asked(toTarget') \subseteq Asked(toTarget) /\ Told(toTarget) \subseteq Told(toTarget')
         /\ missed \subseteq missed'
         /\ to[d] = "target" /\ d \notin missed' =>
               /\ d \notin waiting \cup Asked(toTarget')
               /\ \/ d \in Told(toTarget')
                  \/ d \in Asked(toTarget)
                  \/ known["target"] = "none"
<1>1. toTarget \in Seq(MessageType) /\ Once(toTarget)
  BY DEF IInv, Types, OnePlace
<1>2. /\ Asked(Withdrawn(toTarget, d)) \subseteq Asked(toTarget) \ {d}
      /\ Told(Withdrawn(toTarget, d)) = Told(toTarget)
      /\ Asked(Append(toTarget, Cancel(d))) = Asked(toTarget)
      /\ Told(Append(toTarget, Cancel(d))) = Told(toTarget) \cup {d}
  BY <1>1, Withdraws, AddCancel
<1>3. CASE to[d] = "server" /\ UNCHANGED <<toTarget, missed>>
  BY <1>3 DEF LinkView
<1>4. CASE Waits(toTarget, Request(d)) /\ toTarget' = Withdrawn(toTarget, d) /\ UNCHANGED missed
  <2>1. d \in Asked(toTarget)
    BY <1>4 DEF Asked
  <2>2. known["target"] # "none" /\ d \notin waiting
    BY <2>1, Emptied DEF LinkView, IInv, OnePlace, Apart
  <2> QED
    BY <1>2, <1>4, <2>1, <2>2
<1>5. CASE d \notin waiting /\ ~Waits(toTarget, Request(d)) /\ PassOnCancel(d)
  <2>1. d \notin Asked(toTarget)
    BY <1>5 DEF Asked
  <2>2. CASE known["target"] = "none"
    BY <1>5, <2>1, <2>2 DEF PassOnCancel, LinkView
  <2>3. CASE /\ known["target"] # "none" /\ toTarget' = Append(toTarget, Cancel(d))
             /\ UNCHANGED missed
    BY <1>2, <1>5, <2>1, <2>3
  <2>4. CASE /\ known["target"] # "none" /\ missed' = missed \cup {d} /\ UNCHANGED toTarget
    BY <2>4
  <2> QED
    BY <1>5, <2>2, <2>3, <2>4 DEF PassOnCancel
<1>6. CASE /\ toTarget' \in {toTarget} \cup (IF known["target"] = "none" THEN {}
                                            ELSE {Append(toTarget, Cancel(d))})
           /\ missed' = missed \cup {d}
  BY <1>2, <1>6 DEF LinkView
<1> QED
  BY <1>3, <1>4, <1>5, <1>6 DEF CancelCall

LEMMA HubReceivesFollowed == ASSUME IInv, CInv, HubReceives PROVE CInv'
<1> DEFINE m == Head(up)
           d == m.call
<1>0. /\ up \in Seq(MessageType) /\ up # <<>> /\ Once(up) /\ up' = Tail(up)
      /\ cancelled \subseteq Calls
  BY DEF IInv, Types, OnePlace, HubReceives
<1>1. /\ m \in MessageType /\ Asked(up') \subseteq Asked(up)
      /\ \A c \in Calls : m = Request(c) => c \in Asked(up) /\ c \notin Asked(up')
      /\ \A c \in Told(up) : m = Cancel(c) \/ c \in Told(up')
      /\ \A c \in Calls : Behind(up, c) => Behind(up', c) \/ (m = Request(c) /\ c \in Told(up'))
  BY <1>0, TakeFirst
<1>2. /\ d \in Calls
      /\ m.type = "rpc.request" => m = Request(d) /\ \A c \in Calls : m # Cancel(c)
      /\ m.type = "rpc.cancel" => m = Cancel(d)
      /\ \A c \in Calls : m = Request(c) \/ m = Cancel(c) => c = d
      /\ m = Cancel(d) => \A c \in Calls : m # Request(c)
  BY <1>1, MessageKinds
<1>3. \/ waiting' = waiting \cup {d} /\ m.type = "rpc.request" /\ UNCHANGED <<toTarget, missed>>
      \/ Route(d) /\ m.type = "rpc.request" /\ UNCHANGED waiting
      \/ CancelCall(d) /\ m.type = "rpc.cancel" /\ UNCHANGED waiting
  BY DEF HubReceives
<1>4. UNCHANGED <<outcome, outbox, cancelled, down, running, aborted, link, known, to>>
  BY DEF HubReceives, targetVars, linkVars, fixed
<1> HIDE DEF m, d
<1>5. New' = New
  BY <1>4 DEF New
\* A request is taken: its cancel is behind it, or still with the caller.
<1>6. ASSUME m.type = "rpc.request", NEW c \in Calls, Follows(c)
      PROVE  /\ c \in Told(outbox) \cup Told(up) => c \in Told(outbox) \cup Told(up')
             /\ c = d => c \notin Asked(up') /\ c \in Told(outbox) \cup Told(up')
             /\ c \in Asked(up') => c \in Told(outbox) \/ Behind(up', c)
  <2>1. c \in Told(outbox) \cup Told(up) => c \in Told(outbox) \cup Told(up')
    BY <1>1, <1>2, <1>6
  <2>2. ASSUME c = d PROVE c \notin Asked(up') /\ c \in Told(outbox) \cup Told(up')
    <3>1. c \in Asked(up) /\ c \notin Asked(up') /\ (c \in Told(outbox) \/ Behind(up, c))
      BY <1>1, <1>2, <1>6, <2>2 DEF Follows
    <3>2. Behind(up', c) => c \in Told(up')
      BY DEF Behind, Told, Waits
    <3> QED
      BY <1>1, <3>1, <3>2
  <2>3. c \in Asked(up') => c \in Told(outbox) \/ Behind(up', c)
    BY <1>1, <1>6 DEF Follows
  <2> QED
    BY <2>1, <2>2, <2>3
<1>7. CASE /\ waiting' = waiting \cup {d} /\ m.type = "rpc.request"
           /\ UNCHANGED <<toTarget, missed>>
  <2>1. LinkView'
    BY <1>4, <1>7 DEF CInv, LinkView
  <2>2. ASSUME NEW c \in cancelled' \ missed', to'[c] = "target" PROVE Follows(c)'
    <3>1. c \in Calls /\ Follows(c)
      BY <1>0, <1>4, <1>7, <2>2 DEF CInv
    <3> QED
      BY <1>4, <1>5, <1>6, <1>7, <3>1 DEF Follows, Severed
  <2> QED
    BY <2>1, <2>2 DEF CInv
<1>8. CASE Route(d) /\ m.type = "rpc.request" /\ UNCHANGED waiting
  <2>1. d \notin Asked(toTarget) \cup serving
    BY <1>1, <1>2, <1>8 DEF IInv, OnePlace, Apart, Started
  <2>2. /\ Told(toTarget') = Told(toTarget) /\ missed \subseteq missed'
        /\ \/ toTarget' = toTarget
           \/ known["target"] # "none" /\ Asked(toTarget') = Asked(toTarget) \cup {d}
    BY <1>2, <1>8, <2>1, RouteKeeps
  <2>3. LinkView'
    BY <1>4, <2>2 DEF CInv, LinkView
  <2>4. ASSUME NEW c \in cancelled' \ missed', to'[c] = "target" PROVE Follows(c)'
    <3>1. c \in Calls /\ Follows(c)
      BY <1>0, <1>4, <2>2, <2>4 DEF CInv
    <3>2. Asked(toTarget') \subseteq Asked(toTarget) \cup {d}
      BY <2>2
    <3> QED
      BY <1>4, <1>5, <1>6, <1>8, <2>2, <3>1, <3>2 DEF Follows, Severed
  <2> QED
    BY <2>3, <2>4 DEF CInv
<1>9. CASE CancelCall(d) /\ m.type = "rpc.cancel" /\ UNCHANGED waiting
  <2>1. /\ known["target"] = "none" => toTarget' = <<>>
        /\ Asked(toTarget') \subseteq Asked(toTarget) /\ Told(toTarget) \subseteq Told(toTarget')
        /\ missed \subseteq missed'
        /\ to[d] = "target" /\ d \notin missed' =>
              /\ d \notin waiting \cup Asked(toTarget')
              /\ \/ d \in Told(toTarget')
                 \/ d \in Asked(toTarget)
                 \/ known["target"] = "none"
    BY <1>2, <1>9, CancelFollowed DEF CInv
  <2>2. LinkView'
    BY <1>4, <2>1 DEF CInv, LinkView
  <2>3. ASSUME NEW c \in cancelled' \ missed', to'[c] = "target" PROVE Follows(c)'
    <3>1. c \in Calls /\ Follows(c) /\ c \notin missed
      BY <1>0, <1>4, <2>1, <2>3 DEF CInv
    <3>2. c \in Asked(up') => c \in Told(outbox) \/ Behind(up', c)
      BY <1>1, <1>2, <1>9, <3>1 DEF Follows
    <3>3. CASE c # d
      <4>1. c \in Told(up) => c \in Told(up')
        BY <1>1, <1>2, <3>1, <3>3
      <4> QED
        BY <1>4, <1>5, <1>9, <2>1, <3>1, <3>2, <4>1 DEF Follows, Severed
    <3>4. CASE c = d
      <4>1. /\ c \notin waiting \cup Asked(toTarget')
            /\ c \in Told(toTarget') \/ c \in Asked(toTarget) \/ known["target"] = "none"
        BY <1>4, <2>1, <2>3, <3>4
      <4>2. CASE c \in Told(toTarget')
        BY <1>4, <1>5, <1>9, <3>1, <3>2, <4>1, <4>2 DEF Follows
      <4>3. CASE c \in Asked(toTarget)
        <5>1. c \notin Asked(down) /\ c \notin running
          BY <4>3 DEF IInv, OnePlace, Apart, Started
        <5> QED
          BY <1>4, <1>5, <1>9, <3>1, <3>2, <4>1, <5>1 DEF Follows
      <4>4. CASE known["target"] = "none"
        <5>1. c \in Asked(down) \/ c \in running => Severed
          BY <3>1, <4>4, Emptied DEF CInv, LinkView, Severed, IInv, Types, Ends
        <5> QED
          BY <1>4, <1>5, <1>9, <3>1, <3>2, <4>1, <5>1 DEF Follows, Severed
      <4> QED
        BY <4>1, <4>2, <4>3, <4>4
    <3> QED
      BY <3>3, <3>4
  <2> QED
    BY <2>2, <2>3 DEF CInv
<1> QED
  BY <1>3, <1>7, <1>8, <1>9

LEMMA GateAnswersFollowed == ASSUME NEW d \in Calls, IInv, CInv, GateAnswers(d) PROVE CInv'
<1>1. /\ d \in waiting /\ waiting' = waiting \ {d}
      /\ UNCHANGED <<outcome, outbox, up, cancelled, down, running, aborted, link, known, to>>
      /\ \/ Route(d)
         \/ Respond(d, FALSE) /\ UNCHANGED <<serving, serverRpcInFlight, toTarget>>
  BY DEF GateAnswers, callerVars, targetVars, linkVars, fixed
<1>2. /\ Told(toTarget') = Told(toTarget) /\ missed \subseteq missed'
      /\ \/ toTarget' = toTarget
         \/ known["target"] # "none" /\ Asked(toTarget') = Asked(toTarget) \cup {d}
  <2>1. CASE Route(d)
    <3>1. d \notin Asked(toTarget) \cup serving
      BY <1>1 DEF IInv, OnePlace, Apart, Started
    <3> QED
      BY <2>1, <3>1, RouteKeeps
  <2>2. CASE Respond(d, FALSE) /\ UNCHANGED <<serving, serverRpcInFlight, toTarget>>
    BY <2>2 DEF Respond
  <2> QED
    BY <1>1, <2>1, <2>2
<1>3. LinkView'
  BY <1>1, <1>2 DEF CInv, LinkView
<1>4. ASSUME NEW c \in cancelled' \ missed', to'[c] = "target" PROVE Follows(c)'
  <2>1. Follows(c)
    BY <1>1, <1>2, <1>4 DEF CInv
  <2>2. waiting' \cup Asked(toTarget') \subseteq waiting \cup Asked(toTarget) /\ New' = New
    BY <1>1, <1>2 DEF New
  <2> QED
    BY <1>1, <1>2, <2>1, <2>2 DEF Follows, Severed
<1> QED
  BY <1>3, <1>4 DEF CInv

LEMMA HubWritesFollowed == ASSUME IInv, CInv, HubWrites PROVE CInv'
<1> DEFINE m == Head(toTarget)
           d == m.call
<1>0. /\ toTarget \in Seq(MessageType) /\ toTarget # <<>> /\ Once(toTarget)
      /\ toTarget' = Tail(toTarget)
      /\ down \in Seq(MessageType) /\ Once(down) /\ cancelled \subseteq Calls
  BY DEF IInv, Types, OnePlace, HubWrites
<1>1. /\ m \in MessageType /\ Asked(toTarget') \subseteq Asked(toTarget)
      /\ \A c \in Calls : m = Request(c) => c \in Asked(toTarget)
      /\ \A c \in Told(toTarget) : m = Cancel(c) \/ c \in Told(toTarget')
  BY <1>0, TakeFirst
<1>2. /\ d \in Calls /\ (m = Request(d) \/ m = Cancel(d))
      /\ m = Request(d) => d \in Asked(toTarget) /\ d \notin Asked(down)
      /\ \A c \in Calls : m = Cancel(c) => c = d
  BY <1>1, MessageKinds DEF IInv, OnePlace, Apart
<1>3. \/ down' = Append(down, m) /\ missed' = missed /\ known["target"] = "this"
      \/ down' = down /\ missed' = missed \cup {d}
  BY DEF HubWrites
<1>4. /\ UNCHANGED <<outcome, outbox, up, cancelled, waiting, running, aborted, link, known, to>>
      /\ known["target"] # "none"
  BY DEF HubWrites, callerVars, targetVars, linkVars, fixed
<1> HIDE DEF m, d
<1>5. LinkView'
  BY <1>3, <1>4 DEF CInv, LinkView
<1>6. New' = New /\ Severed' = Severed
  BY <1>4 DEF New, Severed
<1>7. ASSUME NEW c \in cancelled' \ missed', to'[c] = "target" PROVE Follows(c)'
  <2>0. c \in Calls /\ Follows(c)
    BY <1>0, <1>3, <1>4, <1>7 DEF CInv
  <2>1. CASE down' = down /\ missed' = missed \cup {d}
    <3>1. c \in Told(toTarget) => c \in Told(toTarget')
      BY <1>1, <1>2, <1>7, <2>0, <2>1
    <3> QED
      BY <1>1, <1>4, <1>6, <2>0, <2>1, <3>1 DEF Follows
  <2>2. CASE down' = Append(down, m) /\ m = Request(d)
    <3>1. /\ Asked(down') = Asked(down) \cup {d} /\ Told(down') = Told(down)
          /\ Behind(down, c) => Behind(down', c)
      BY <1>0, <1>2, <2>0, <2>2, AddRequest
    <3>2. c \in Told(toTarget) => c \in Told(toTarget')
      BY <1>1, <1>2, <2>0, <2>2, MessageKinds
    <3>3. c = d => c \in Told(outbox) \cup Told(up)
      BY <1>2, <2>0, <2>2 DEF Follows
    <3> QED
      BY <1>1, <1>4, <1>6, <2>0, <3>1, <3>2, <3>3 DEF Follows
  <2>3. CASE down' = Append(down, m) /\ m = Cancel(d)
    <3>1. /\ Asked(down') = Asked(down) /\ Told(down') = Told(down) \cup {d}
          /\ Behind(down, c) => Behind(down', c)
          /\ c = d /\ c \in Asked(down) => Behind(down', c)
      BY <1>0, <1>2, <2>0, <2>3, AddCancel
    <3>2. c \in Told(toTarget) => c = d \/ c \in Told(toTarget')
      BY <1>1, <1>2, <2>0
    <3> QED
      BY <1>1, <1>4, <1>6, <2>0, <3>1, <3>2 DEF Follows
  <2> QED
    BY <1>2, <1>3, <2>1, <2>2, <2>3
<1> QED
  BY <1>5, <1>7 DEF CInv

LEMMA TargetReceivesFollowed == ASSUME IInv, CInv, TargetReceives PROVE CInv'
<1> DEFINE m == Head(down)
           d == m.call
<1>0. /\ down \in Seq(MessageType) /\ down # <<>> /\ Once(down) /\ down' = Tail(down)
      /\ cancelled \subseteq Calls
  BY DEF IInv, Types, OnePlace, TargetReceives
<1>1. /\ m \in MessageType /\ Asked(down') \subseteq Asked(down)
      /\ \A c \in Calls : m = Request(c) => c \in Asked(down) /\ c \notin Asked(down')
      /\ \A c \in Told(down) : m = Cancel(c) \/ c \in Told(down')
      /\ \A c \in Calls : Behind(down, c) => Behind(down', c) \/ (m = Request(c) /\ c \in Told(down'))
  BY <1>0, TakeFirst
<1>2. /\ d \in Calls
      /\ m.type = "rpc.request" => m = Request(d) /\ \A c \in Calls : m # Cancel(c)
      /\ m.type = "rpc.cancel" => m = Cancel(d)
      /\ \A c \in Calls : m = Request(c) \/ m = Cancel(c) => c = d
  BY <1>1, MessageKinds
<1>3. \/ m.type = "rpc.request" /\ running' \in {running, running \cup {d}} /\ UNCHANGED aborted
      \/ m.type = "rpc.cancel" /\ aborted' = aborted \cup (running \cap {d}) /\ UNCHANGED running
  BY DEF TargetReceives, HandleRpcRequest
<1>4. /\ UNCHANGED <<outcome, outbox, up, cancelled, waiting, toTarget, link, known, to>>
      /\ missed \subseteq missed' /\ link["target"] = "up"
  BY DEF TargetReceives, HandleRpcRequest, Reply, callerVars, linkVars, fixed
<1> HIDE DEF m, d
<1>5. LinkView'
  BY <1>4 DEF CInv, LinkView
<1>6. New' = New /\ Severed' = Severed
  BY <1>4 DEF New, Severed
<1>7. ASSUME NEW c \in cancelled' \ missed', to'[c] = "target" PROVE Follows(c)'
  <2>0. c \in Calls /\ Follows(c)
    BY <1>0, <1>4, <1>7 DEF CInv
  <2>1. Behind(down, c) => c \in Told(down') /\ (c \in Asked(down') => Behind(down', c))
    <3>1. Behind(down', c) => c \in Told(down')
      BY <2>0 DEF Behind, Told, Waits
    <3> QED
      BY <1>1, <2>0, <3>1
  <2>2. CASE m.type = "rpc.request" /\ running' \in {running, running \cup {d}} /\ UNCHANGED aborted
    <3>1. c \in Told(down) => c \in Told(down')
      BY <1>1, <1>2, <2>0, <2>2
    <3>2. d \in Asked(down) /\ d \notin Asked(down')
      BY <1>1, <1>2, <2>2
    <3> QED
      BY <1>1, <1>4, <1>6, <2>0, <2>1, <2>2, <3>1, <3>2 DEF Follows
  <2>3. CASE m.type = "rpc.cancel" /\ aborted' = aborted \cup (running \cap {d}) /\ UNCHANGED running
    <3>1. c \in Told(down) => c = d \/ c \in Told(down')
      BY <1>1, <1>2, <2>0
    <3> QED
      BY <1>1, <1>4, <1>6, <2>0, <2>1, <2>3, <3>1 DEF Follows
  <2> QED
    BY <1>3, <2>2, <2>3
<1> QED
  BY <1>5, <1>7 DEF CInv

LEMMA CallerClosesFollowed == ASSUME IInv, CInv, CallerCloses PROVE CInv'
<1>1. /\ outbox' = <<>> /\ missed' = missed \cup CallsIn(outbox)
      /\ UNCHANGED <<up, cancelled, waiting, toTarget, down, running, aborted, to>>
      /\ outcome' = [c \in Calls |-> IF Awaited(c) THEN "rejected" ELSE outcome[c]]
  BY DEF CallerCloses, hubVars, targetVars, fixed
<1>2. link'["target"] = link["target"] /\ known'["target"] = known["target"]
  BY DEF CallerCloses, LinkDown, IInv, Types, Ends
<1>3. New' = New /\ Severed' = Severed
  BY <1>1, <1>2 DEF New, Awaited, Severed
<1>4. Asked(outbox') = {} /\ Told(outbox) \subseteq missed'
  BY <1>1, Emptied, CallsOfQueue DEF IInv, Types
<1>5. LinkView'
  BY <1>1, <1>2 DEF CInv, LinkView
<1>6. ASSUME NEW c \in cancelled' \ missed', to'[c] = "target" PROVE Follows(c)'
  <2>1. Follows(c) /\ c \notin Told(outbox)
    BY <1>1, <1>4, <1>6 DEF CInv
  <2> QED
    BY <1>1, <1>3, <1>4, <2>1 DEF Follows
<1> QED
  BY <1>5, <1>6 DEF CInv

LEMMA TargetClosesFollowed == ASSUME IInv, CInv, TargetCloses PROVE CInv'
<1>1. /\ aborted' = running /\ missed' = missed \cup running \cup CallsIn(down) /\ down' = <<>>
      /\ UNCHANGED <<outcome, outbox, up, cancelled, waiting, toTarget, running, to>>
  BY DEF TargetCloses, callerVars, fixed
<1>2. known'["target"] = IF known["target"] = "this" THEN "earlier" ELSE known["target"]
  BY DEF TargetCloses, LinkDown, IInv, Types, Ends
<1>3. LinkView' /\ New' = New
  BY <1>1, <1>2 DEF CInv, LinkView, New
<1>4. Asked(down') = {}
  BY <1>1, Emptied
<1>5. ASSUME NEW c \in cancelled' \ missed', to'[c] = "target" PROVE Follows(c)'
  <2>1. Follows(c)
    BY <1>1, <1>5 DEF CInv
  <2> QED
    BY <1>1, <1>3, <1>4, <2>1 DEF Follows
<1> QED
  BY <1>3, <1>5 DEF CInv

\* What was on a socket that the hub loses is missed.
LEMMA HubLosesFollowed ==
  ASSUME IInv, NEW e \in Ends, HubLoses(e)
  PROVE  /\ missed \subseteq missed'
         /\ e = "caller" => /\ Asked(up') = {} /\ Told(up) \subseteq missed'
                            /\ UNCHANGED toTarget
         /\ e = "target" => /\ toTarget' = <<>> /\ Asked(toTarget') = {}
                            /\ Told(toTarget) \subseteq missed' /\ UNCHANGED up
<1>1. up \in Seq(MessageType) /\ toTarget \in Seq(MessageType)
  BY DEF IInv, Types
<1>2. Told(up) \subseteq CallsIn(up) /\ Told(toTarget) \subseteq CallsIn(toTarget)
  BY <1>1, CallsOfQueue
<1>3. CASE e = "caller"
  BY <1>2, <1>3, Emptied DEF HubLoses
<1>4. CASE e = "target"
  BY <1>2, <1>4, Emptied DEF HubLoses
<1> QED
  BY <1>3, <1>4 DEF Ends

LEMMA HubLinksFollowed ==
  ASSUME NEW e \in Ends, IInv, CInv, HubForgets(e) \/ Reconnect(e) PROVE CInv'
<1>1. /\ HubLoses(e)
      /\ UNCHANGED <<outcome, outbox, cancelled, waiting, down, running, aborted, to>>
  BY DEF HubForgets, Reconnect, fixed
<1>2. /\ missed \subseteq missed'
      /\ e = "caller" => /\ Asked(up') = {} /\ Told(up) \subseteq missed' /\ UNCHANGED toTarget
      /\ e = "target" => /\ toTarget' = <<>> /\ Asked(toTarget') = {}
                         /\ Told(toTarget) \subseteq missed' /\ UNCHANGED up
  BY <1>1, HubLosesFollowed
<1>3. New' = New
  BY <1>1 DEF New
<1>4. CASE e = "caller"
  <2>1. link'["target"] = link["target"] /\ known'["target"] = known["target"]
    BY <1>4 DEF HubForgets, Reconnect, IInv, Types, Ends
  <2>2. LinkView' /\ Severed' = Severed
    BY <1>1, <1>2, <1>4, <2>1 DEF CInv, LinkView, Severed
  <2>3. ASSUME NEW c \in cancelled' \ missed', to'[c] = "target" PROVE Follows(c)'
    <3>1. Follows(c) /\ c \notin Told(up)
      BY <1>1, <1>2, <1>4, <2>3 DEF CInv
    <3> QED
      BY <1>1, <1>2, <1>3, <1>4, <2>2, <3>1 DEF Follows
  <2> QED
    BY <2>2, <2>3 DEF CInv
<1>5. CASE e = "target" /\ HubForgets(e)
  <2>1. link'["target"] = link["target"] /\ known'["target"] = "none"
    BY <1>5 DEF HubForgets, IInv, Types, Ends
  <2>2. LinkView' /\ (Severed => Severed')
    BY <1>1, <1>2, <1>5, <2>1 DEF CInv, LinkView, Severed
  <2>3. ASSUME NEW c \in cancelled' \ missed', to'[c] = "target" PROVE Follows(c)'
    <3>1. Follows(c) /\ c \notin Told(toTarget)
      BY <1>1, <1>2, <1>5, <2>3 DEF CInv
    <3> QED
      BY <1>1, <1>2, <1>3, <1>5, <2>2, <3>1 DEF Follows
  <2> QED
    BY <2>2, <2>3 DEF CInv
<1>6. CASE e = "target" /\ Reconnect(e)
  <2>1. link["target"] = "down" /\ link'["target"] = "up" /\ known'["target"] = "this"
    BY <1>6 DEF Reconnect, IInv, Types, Ends
  <2>2. LinkView'
    BY <2>1 DEF LinkView
  <2>3. ASSUME NEW c \in cancelled' \ missed', to'[c] = "target" PROVE Follows(c)'
    <3>1. Follows(c) /\ c \notin running /\ Asked(down) = {}
      BY <1>1, <1>2, <2>1, <2>3, Emptied DEF CInv, LinkView
    <3> QED
      BY <1>1, <1>2, <1>3, <1>6, <3>1 DEF Follows
  <2> QED
    BY <2>2, <2>3 DEF CInv
<1> QED
  BY <1>4, <1>5, <1>6 DEF Ends

\* The other steps move no request and no cancel.
LEMMA OthersFollowed ==
  ASSUME IInv, CInv,
         \/ CallerReceives \/ HubForwards \/ TargetWrites \/ UNCHANGED vars
         \/ \E c \in Calls : CallFails(c) \/ ServerReturns(c) \/ TargetReturns(c)
  PROVE  CInv'
<1> USE DEF callerVars, hubVars, targetVars, linkVars, fixed
<1>1. CASE CallerReceives
  <2>1. Head(toCaller).call \in Calls
    BY <1>1, TakeAnswer DEF IInv, Types, CallerReceives
  <2>2. New' \subseteq New
    BY <1>1, <2>1 DEF IInv, Types, CallerReceives, Awaited, New
  <2> QED
    BY <1>1, <2>2, OutOfTheWay DEF CallerReceives
<1>2. CASE HubForwards
  BY <1>2, OutOfTheWay DEF HubForwards, Respond, New
<1>3. CASE TargetWrites
  BY <1>3, OutOfTheWay DEF TargetWrites, New
<1>4. CASE UNCHANGED vars
  BY <1>4, OutOfTheWay DEF vars, New
<1>5. ASSUME NEW c \in Calls, CallFails(c) PROVE CInv'
  <2>1. New' \subseteq New
    BY <1>5 DEF CallFails, New, IInv, Types
  <2> QED
    BY <1>5, <2>1, OutOfTheWay DEF CallFails
<1>6. ASSUME NEW c \in Calls, ServerReturns(c) PROVE CInv'
  <2>1. missed \subseteq missed'
    BY <1>6 DEF ServerReturns, Respond
  <2> QED
    BY <1>6, <2>1, OutOfTheWay DEF ServerReturns, New
<1>7. ASSUME NEW c \in Calls, TargetReturns(c) PROVE CInv'
  <2>1. missed \subseteq missed'
    BY <1>7 DEF TargetReturns, Reply
  <2> QED
    BY <1>7, <2>1, OutOfTheWay DEF TargetReturns, New
<1> QED
  BY <1>1, <1>2, <1>3, <1>4, <1>5, <1>6, <1>7

\* When its cancel has gone its way, no handler works for a caller that gave up
\* without having been told: sendRpcCancel, cancelQueuedRpc, abortInboundRpc.
THEOREM CancelsStop == Spec => []CancelStops
<1>1. Init => CInv
  BY Emptied DEF Init, CInv, LinkView, Ends
<1>2. IInv /\ CInv /\ [Next]_vars => CInv'
  <2> SUFFICES ASSUME IInv, CInv, [Next]_vars PROVE CInv'
    OBVIOUS
  <2>1. CASE \E c \in Calls : Call(c) \/ CallFails(c) \/ Abandon(c)
    BY <2>1, CallFollowed, AbandonFollowed, OthersFollowed
  <2>2. CASE Messages
    BY <2>2, CallerWritesFollowed, HubReceivesFollowed, HubWritesFollowed, TargetReceivesFollowed,
       OthersFollowed DEF Messages
  <2>3. CASE Handlers
    BY <2>3, GateAnswersFollowed, OthersFollowed DEF Handlers
  <2>4. CASE Links
    BY <2>4, CallerClosesFollowed, TargetClosesFollowed, HubLinksFollowed DEF Links
  <2> QED
    BY <2>1, <2>2, <2>3, <2>4, OthersFollowed DEF Next
<1>3. IInv /\ CInv => CancelStops
  <2> SUFFICES ASSUME IInv, CInv, NEW c \in cancelled \ missed, to[c] = "target", Settled(c),
                      c \in running, c \notin aborted
               PROVE  FALSE
    BY DEF CancelStops
  <2>1. Follows(c) /\ ~Severed
    BY DEF CInv, Settled, Severed
  <2>2. c \in Told(outbox) \cup Told(up) \cup Told(toTarget) \cup Told(down)
    BY <2>1 DEF Follows
  <2>3. /\ c \notin CallsIn(outbox) /\ c \notin CallsIn(up)
        /\ c \notin CallsIn(toTarget) /\ c \notin CallsIn(down)
    BY DEF Settled
  <2> QED
    BY <2>2, <2>3, CallsOfQueue DEF IInv, Types
<1> QED
  BY <1>1, <1>2, <1>3, Invariance, PTL DEF Spec
=============================================================================
