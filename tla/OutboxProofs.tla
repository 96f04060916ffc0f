---------------------------- MODULE OutboxProofs ----------------------------
(***************************************************************************)
(* Theorems about the outbox, for every set of items, every size and every *)
(* byte cap, for the hub's configuration and the client's.                 *)
(***************************************************************************)
EXTENDS Outbox, FiniteSetTheorems, SequenceTheorems, TLAPS

-----------------------------------------------------------------------------
(* Sizes.                                                                  *)

LEMMA CellsOfOne ==
    ASSUME NEW m \in Items
    PROVE  /\ IsFiniteSet({m} \X (1..Size[m]))
           /\ Cardinality({m} \X (1..Size[m])) = Size[m]
<1>1. Size[m] \in Nat
  BY OutboxAssumption DEF OutboxAssumption
<1>2. IsFiniteSet(1..Size[m]) /\ Cardinality(1..Size[m]) = Size[m]
  BY <1>1, FS_Interval
<1>3. IsFiniteSet({m}) /\ Cardinality({m}) = 1
  BY FS_Singleton
<1>4. /\ IsFiniteSet({m} \X (1..Size[m]))
      /\ Cardinality({m} \X (1..Size[m])) = Cardinality({m}) * Cardinality(1..Size[m])
  BY <1>2, <1>3, FS_Product
<1>5. Cardinality({m} \X (1..Size[m])) = 1 * Size[m]
  BY <1>2, <1>3, <1>4
<1> QED
  BY <1>1, <1>4, <1>5

\* A finite set of items has finitely many cells.
LEMMA CellsFinite ==
    ASSUME NEW S \in SUBSET Items, IsFiniteSet(S)
    PROVE  IsFiniteSet(Cells(S)) /\ TotalSize(S) \in Nat
<1> DEFINE C(m) == {m} \X (1..Size[m])
           T == {C(m) : m \in S}
<1>1. IsFiniteSet(T)
  <2> DEFINE f == [m \in S |-> C(m)]
  <2>1. f \in Surjection(S, T)
    BY DEF Surjection
  <2> QED
    BY <2>1, FS_Surjection
<1>2. \A t \in T : IsFiniteSet(t)
  BY CellsOfOne
<1>3. IsFiniteSet(UNION T)
  <2> HIDE DEF T
  <2> QED BY <1>1, <1>2, FS_UNION
<1>4. IsFiniteSet(Cells(S))
  BY <1>3 DEF Cells
<1> QED
  BY <1>4, FS_CardinalityType DEF TotalSize

\* No items have no size.
LEMMA TotalSizeEmpty == TotalSize({}) = 0
<1>1. Cells({}) = {}
  BY DEF Cells
<1> QED
  BY <1>1, FS_EmptySet DEF TotalSize

\* The total size of one item is its size.
LEMMA TotalSizeOne ==
    ASSUME NEW m \in Items
    PROVE  TotalSize({m}) = Size[m]
<1>1. Cells({m}) = {m} \X (1..Size[m])
  BY DEF Cells
<1> QED
  BY <1>1, CellsOfOne DEF TotalSize

\* Sizes add over disjoint sets.
LEMMA TotalSizeUnion ==
    ASSUME NEW S \in SUBSET Items, IsFiniteSet(S),
           NEW T \in SUBSET Items, IsFiniteSet(T),
           S \cap T = {}
    PROVE  TotalSize(S \cup T) = TotalSize(S) + TotalSize(T)
<1>1. Cells(S \cup T) = Cells(S) \cup Cells(T)
  BY DEF Cells
<1>2. Cells(S) \cap Cells(T) = {}
  BY DEF Cells
<1>3. IsFiniteSet(Cells(S)) /\ IsFiniteSet(Cells(T))
  BY CellsFinite
<1>4. Cardinality(Cells(S) \cup Cells(T))
        = Cardinality(Cells(S)) + Cardinality(Cells(T)) - Cardinality({})
  BY <1>2, <1>3, FS_Union
<1>5. Cardinality(Cells(S)) \in Nat /\ Cardinality(Cells(T)) \in Nat
  BY <1>3, FS_CardinalityType
<1>6. Cardinality({}) = 0
  BY FS_EmptySet
<1>7. Cardinality(Cells(S) \cup Cells(T)) = Cardinality(Cells(S)) + Cardinality(Cells(T))
  <2> DEFINE a == Cardinality(Cells(S))
             b == Cardinality(Cells(T))
  <2>1. a + b - 0 = a + b
    BY <1>5
  <2> QED
    BY <1>4, <1>6, <2>1
<1> QED
  BY <1>1, <1>7 DEF TotalSize

\* Taking an item away takes its size away.
LEMMA TotalSizeRemove ==
    ASSUME NEW S \in SUBSET Items, IsFiniteSet(S), NEW m \in S
    PROVE  TotalSize(S \ {m}) = TotalSize(S) - Size[m]
<1>1. IsFiniteSet(S \ {m}) /\ IsFiniteSet({m})
  BY FS_RemoveElement, FS_Singleton
<1>2. (S \ {m}) \cup {m} = S
  OBVIOUS
<1>3. TotalSize(S) = TotalSize(S \ {m}) + TotalSize({m})
  BY <1>1, <1>2, TotalSizeUnion
<1>4. TotalSize(S \ {m}) \in Nat
  BY <1>1, CellsFinite
<1>5. TotalSize({m}) = Size[m] /\ Size[m] \in Nat
  BY TotalSizeOne, OutboxAssumption DEF OutboxAssumption
<1> QED
  BY <1>3, <1>4, <1>5

-----------------------------------------------------------------------------
(* Sequences.                                                              *)

LEMMA RangeFinite ==
    ASSUME NEW s \in Seq(Items)
    PROVE  /\ Range(s) \in SUBSET Items
           /\ IsFiniteSet(Range(s))
<1>1. Range(s) \in SUBSET Items
  BY DEF Range
<1>2. IsFiniteSet(1..Len(s)) /\ DOMAIN s = 1..Len(s)
  BY FS_Interval, LenProperties
<1>3. s \in Surjection(1..Len(s), Range(s))
  BY <1>2 DEF Surjection, Range
<1> QED
  BY <1>1, <1>2, <1>3, FS_Surjection

\* What a filter keeps: a sequence of the kept elements, none of them twice if
\* none was there twice.
LEMMA SubsequenceProperties ==
    ASSUME NEW s \in Seq(Items), NEW keep, NEW t \in Subsequence(s, keep)
    PROVE  /\ t \in Seq(Items)
           /\ Range(t) = Range(s) \cap keep
           /\ IsInjective(s) => IsInjective(t)
<1> DEFINE P == {i \in DOMAIN s : s[i] \in keep}
           n == Cardinality(P)
<1>1. P \in SUBSET (1..Len(s)) /\ Len(s) \in Nat
  BY LenProperties
<1>2. n \in Nat
  <2>1. IsFiniteSet(1..Len(s))
    BY <1>1, FS_Interval
  <2>2. IsFiniteSet(P)
    BY <1>1, <2>1, FS_Subset
  <2> QED
    BY <2>2, FS_CardinalityType
<1>3. PICK f \in [1..n -> P] :
         /\ Range(f) = P
         /\ \A i, j \in 1..n : i < j => f[i] < f[j]
         /\ t = [i \in 1..n |-> s[f[i]]]
  BY DEF Subsequence
<1>4. \A i \in 1..n : f[i] \in 1..Len(s) /\ s[f[i]] \in Items \cap keep
  BY <1>1
<1>5. t \in Seq(Items)
  BY <1>2, <1>3, <1>4
<1>6. DOMAIN t = 1..n
  BY <1>3
<1>7. Range(t) = Range(s) \cap keep
  <2>1. ASSUME NEW x \in Range(t) PROVE x \in Range(s) \cap keep
    BY <1>3, <1>4 DEF Range
  <2>2. ASSUME NEW x \in Range(s) \cap keep PROVE x \in Range(t)
    <3>1. PICK k \in P : s[k] = x
      BY DEF Range
    <3>2. PICK i \in 1..n : f[i] = k
      BY <1>3, <3>1 DEF Range
    <3> QED
      BY <1>3, <1>6, <3>1, <3>2 DEF Range
  <2> QED
    BY <2>1, <2>2
<1>8. ASSUME IsInjective(s) PROVE IsInjective(t)
  <2> SUFFICES ASSUME NEW i \in 1..n, NEW j \in 1..n, t[i] = t[j]
               PROVE  i = j
    BY <1>6 DEF IsInjective
  <2>1. s[f[i]] = s[f[j]] /\ f[i] \in DOMAIN s /\ f[j] \in DOMAIN s
    BY <1>3
  <2>2. f[i] = f[j]
    BY <1>8, <2>1 DEF IsInjective
  <2>3. f[i] \in Nat
    BY <1>4
  <2>4. (i < j => f[i] < f[j]) /\ (j < i => f[j] < f[i])
    BY <1>3
  <2>5. i \in Int /\ j \in Int
    BY <1>2
  <2> HIDE DEF n, P
  <2>6. ~(f[i] < f[i])
    BY <2>3
  <2> QED
    BY <2>2, <2>4, <2>5, <2>6
<1> QED
  BY <1>5, <1>7, <1>8

\* Splitting a sequence without duplicates.
LEMMA SplitProperties ==
    ASSUME NEW s \in Seq(Items), IsInjective(s), NEW n \in 0..Len(s)
    PROVE  LET front == SubSeq(s, 1, n)
               back  == SubSeq(s, n + 1, Len(s))
           IN  /\ front \in Seq(Items)
               /\ back \in Seq(Items)
               /\ IsInjective(back)
               /\ Range(front) \cup Range(back) = Range(s)
               /\ Range(front) \cap Range(back) = {}
<1> DEFINE front == SubSeq(s, 1, n)
           back  == SubSeq(s, n + 1, Len(s))
<1>0. Len(s) \in Nat /\ DOMAIN s = 1..Len(s)
  BY LenProperties
<1>1. /\ front \in Seq(Items)
      /\ Len(front) = n
      /\ \A i \in 1..n : front[i] = s[i]
  BY <1>0
<1>2. /\ back \in Seq(Items)
      /\ Len(back) = Len(s) - n
      /\ \A i \in 1..(Len(s) - n) : back[i] = s[n + i]
  <2>1. \A i \in (n + 1)..Len(s) : s[i] \in Items
    BY <1>0
  <2>2. /\ SubSeq(s, n + 1, Len(s)) \in Seq(Items)
        /\ Len(SubSeq(s, n + 1, Len(s)))
             = IF n + 1 <= Len(s) THEN Len(s) - (n + 1) + 1 ELSE 0
        /\ \A i \in 1..(Len(s) - (n + 1) + 1) :
             SubSeq(s, n + 1, Len(s))[i] = s[(n + 1) + i - 1]
    <3>1. n + 1 \in Int /\ Len(s) \in Int
      BY <1>0
    <3> QED
      BY <2>1, <3>1, SubSeqProperties
  <2>3. Len(back) = Len(s) - n
    <3>1. CASE n + 1 <= Len(s)
      BY <1>0, <2>2, <3>1
    <3>2. CASE n = Len(s)
      BY <1>0, <2>2, <3>2
    <3>3. n \in Nat /\ Len(s) \in Nat /\ n <= Len(s)
      BY <1>0
    <3>4. n = Len(s) \/ n + 1 <= Len(s)
      BY <3>3
    <3> QED
      BY <3>1, <3>2, <3>4
  <2>4. ASSUME NEW i \in 1..(Len(s) - n) PROVE back[i] = s[n + i]
    <3>1. i \in 1..(Len(s) - (n + 1) + 1) /\ (n + 1) + i - 1 = n + i
      BY <1>0
    <3> QED
      BY <2>2, <3>1
  <2> QED
    BY <2>2, <2>3, <2>4
<1>3. DOMAIN front = 1..n /\ DOMAIN back = 1..(Len(s) - n)
  BY <1>1, <1>2
<1> HIDE DEF front, back
<1>4. IsInjective(back)
  <2> SUFFICES ASSUME NEW i \in 1..(Len(s) - n), NEW j \in 1..(Len(s) - n),
                      back[i] = back[j]
               PROVE  i = j
    BY <1>3 DEF IsInjective
  <2>1. n + i \in DOMAIN s /\ n + j \in DOMAIN s
    BY <1>0
  <2>2. s[n + i] = s[n + j]
    BY <1>2
  <2>3. n + i = n + j
    BY <2>1, <2>2 DEF IsInjective
  <2> QED
    BY <1>0, <2>3
<1>5. Range(front) = {s[i] : i \in 1..n}
  BY <1>1, <1>3 DEF Range
<1>6. Range(back) = {s[i] : i \in (n + 1)..Len(s)}
  <2>1. ASSUME NEW i \in (n + 1)..Len(s)
        PROVE  s[i] \in Range(back)
    <3>1. i - n \in 1..(Len(s) - n) /\ n + (i - n) = i
      BY <1>0
    <3>2. back[i - n] = s[i]
      BY <1>2, <3>1
    <3> QED
      BY <1>3, <3>1, <3>2 DEF Range
  <2>2. ASSUME NEW k \in 1..(Len(s) - n)
        PROVE  back[k] \in {s[i] : i \in (n + 1)..Len(s)}
    <3>1. n + k \in (n + 1)..Len(s)
      BY <1>0
    <3> QED
      BY <1>2, <3>1
  <2> QED
    BY <1>3, <2>1, <2>2 DEF Range
<1>7. Range(front) \cup Range(back) = Range(s)
  <2>1. 1..Len(s) = (1..n) \cup ((n + 1)..Len(s))
    BY <1>0
  <2>2. Range(s) = {s[i] : i \in 1..Len(s)}
    BY <1>0 DEF Range
  <2> QED
    BY <1>5, <1>6, <2>1, <2>2
<1>8. Range(front) \cap Range(back) = {}
  BY <1>0, <1>5, <1>6 DEF IsInjective
<1> QED
  BY <1>1, <1>2, <1>4, <1>7, <1>8 DEF front, back

-----------------------------------------------------------------------------
(* The inductive invariant.  The byte counter is only right because the    *)
(* queue never holds an item twice, which in turn holds because an item    *)
(* that is queued has a stamp and is not offered again.  A drain pass is   *)
(* only asked for while the client is not stopped, so NoStuckQueue needs   *)
(* that a ready client is not stopped.                                     *)

QueuedOnce ==
    /\ IsInjective(items)
    /\ \A m \in Range(items) : stamp[m] # 0
ReadyRuns == ready => ~stopped

IInv ==
    /\ TypeOK
    /\ QueuedOnce
    /\ ByteAccounting
    /\ NoStuckQueue
    /\ ReadyRuns

\* The queue part of what a step must establish.
QueueOK(q, b) ==
    /\ q \in Seq(Items)
    /\ IsInjective(q)
    /\ b \in Nat
    /\ b = TotalSize(Range(q))
    /\ b <= MaxOutboxBytes

\* The empty queue, with no bytes, is a good queue (clear).
LEMMA EmptyQueueOK == QueueOK(<<>>, 0)
<1>1. Range(<<>>) = {}
  BY DEF Range
<1>2. IsInjective(<<>>)
  BY DEF IsInjective
<1>3. <<>> \in Seq(Items)
  OBVIOUS
<1> QED
  BY <1>1, <1>2, <1>3, TotalSizeEmpty, OutboxAssumption
     DEF QueueOK, OutboxAssumption

\* A smaller set of items is not larger.
LEMMA TotalSizeSubset ==
    ASSUME NEW S \in SUBSET Items, IsFiniteSet(S), NEW T \in SUBSET S
    PROVE  /\ TotalSize(T) \in Nat
           /\ TotalSize(T) <= TotalSize(S)
<1>1. Cells(T) \in SUBSET Cells(S)
  BY DEF Cells
<1>2. IsFiniteSet(Cells(S)) /\ TotalSize(S) \in Nat
  BY CellsFinite
<1>3. IsFiniteSet(T)
  BY FS_Subset
<1>4. TotalSize(T) \in Nat
  BY <1>3, CellsFinite
<1>5. Cardinality(Cells(T)) <= Cardinality(Cells(S))
  BY <1>1, <1>2, FS_Subset
<1> QED
  BY <1>4, <1>5 DEF TotalSize

\* A filtered queue, with its size recomputed (removeWhere).
LEMMA FilteredQueueOK ==
    ASSUME NEW q, NEW b, QueueOK(q, b), NEW keep, NEW t \in Subsequence(q, keep)
    PROVE  /\ QueueOK(t, TotalSize(Range(t)))
           /\ Range(t) = Range(q) \cap keep
<1>1. q \in Seq(Items) /\ IsInjective(q) /\ b \in Nat
      /\ b = TotalSize(Range(q)) /\ b <= MaxOutboxBytes
  BY DEF QueueOK
<1>2. t \in Seq(Items) /\ Range(t) = Range(q) \cap keep /\ IsInjective(t)
  BY <1>1, SubsequenceProperties
<1>3. Range(q) \in SUBSET Items /\ IsFiniteSet(Range(q))
  BY <1>1, RangeFinite
<1>4. TotalSize(Range(t)) \in Nat /\ TotalSize(Range(t)) <= TotalSize(Range(q))
  BY <1>2, <1>3, TotalSizeSubset
<1>5. TotalSize(Range(t)) <= MaxOutboxBytes
  BY <1>1, <1>4, OutboxAssumption DEF OutboxAssumption
<1> QED
  BY <1>2, <1>4, <1>5 DEF QueueOK

\* What a drain pass leaves behind.
LEMMA DrainPassProperties ==
    ASSUME TypeOK, NEW q, NEW b, QueueOK(q, b), NEW t \in BOOLEAN,
           DrainPass(q, b, t)
    PROVE  /\ QueueOK(items', bytes')
           /\ Range(items') \subseteq Range(q)
           /\ drainTimer' \in BOOLEAN
           /\ congested' \in BOOLEAN
           /\ wire' \in Seq(Items)
           /\ items' # <<>> /\ sock = "open" /\ ~stopped => drainTimer'
<1>0. /\ congested \in BOOLEAN
      /\ wire \in Seq(Items)
      /\ stopped \in BOOLEAN
  BY DEF TypeOK
<1>q. /\ q \in Seq(Items) /\ IsInjective(q) /\ b \in Nat
      /\ b = TotalSize(Range(q)) /\ b <= MaxOutboxBytes
  BY DEF QueueOK
<1>1. CASE sock # "open"
  <2>1. \/ items' = <<>> /\ bytes' = 0
        \/ items' = q /\ bytes' = b
    BY <1>1 DEF DrainPass, Rest, Retry
  <2>2. drainTimer' = t /\ congested' = congested /\ wire' = wire
    BY <1>1 DEF DrainPass, Rest, Retry
  <2>3. Range(<<>>) = {}
    BY DEF Range
  <2>4. QueueOK(items', bytes') /\ Range(items') \subseteq Range(q)
    BY <2>1, <2>3, EmptyQueueOK
  <2> QED
    BY <1>0, <1>1, <2>2, <2>4
<1>2. CASE sock = "open"
  <2>1. PICK n \in 0..Len(q) :
          /\ items' = SubSeq(q, n + 1, Len(q))
          /\ bytes' = IF n = Len(q)
                      THEN 0 ELSE b - TotalSize(Range(SubSeq(q, 1, n)))
          /\ drainTimer' = (t \/ (n < Len(q) /\ ~stopped))
          /\ \E sent \in Subsequence(SubSeq(q, 1, n), Items \ Unserializable) :
               /\ wire' = wire \o sent
               /\ IF sent = <<>> THEN congested' = congested
                                 ELSE congested' \in BOOLEAN
    BY <1>2 DEF DrainPass, Rest, Retry, ShouldSchedule
  <2> DEFINE front == SubSeq(q, 1, n)
             back  == SubSeq(q, n + 1, Len(q))
  <2>2. /\ front \in Seq(Items) /\ back \in Seq(Items)
        /\ IsInjective(back)
        /\ Range(front) \cup Range(back) = Range(q)
        /\ Range(front) \cap Range(back) = {}
    BY <1>q, SplitProperties
  <2> HIDE DEF front, back
  <2>3. /\ Range(front) \in SUBSET Items /\ IsFiniteSet(Range(front))
        /\ Range(back) \in SUBSET Items /\ IsFiniteSet(Range(back))
    BY <2>2, RangeFinite
  <2>4. TotalSize(Range(q)) = TotalSize(Range(front)) + TotalSize(Range(back))
    BY <2>2, <2>3, TotalSizeUnion
  <2>5. TotalSize(Range(front)) \in Nat /\ TotalSize(Range(back)) \in Nat
    BY <2>3, CellsFinite
  <2>6. items' = back
    BY <2>1 DEF back
  <2>7. n = Len(q) => back = <<>>
    <3>1. Len(q) \in Nat
      BY <1>q
    <3> QED
      BY <3>1, SubSeqEmpty DEF back
  <2>8. bytes' = TotalSize(Range(back))
    <3>1. CASE n = Len(q)
      <4>1. Range(back) = {}
        BY <3>1, <2>7 DEF Range
      <4> QED
        BY <2>1, <3>1, <4>1, TotalSizeEmpty
    <3>2. CASE n # Len(q)
      <4>1. bytes' = b - TotalSize(Range(front))
        BY <2>1, <3>2 DEF front
      <4> QED
        BY <1>q, <2>4, <2>5, <4>1
    <3> QED
      BY <3>1, <3>2
  <2>9. TotalSize(Range(back)) <= MaxOutboxBytes
    BY <1>q, <2>4, <2>5, OutboxAssumption DEF OutboxAssumption
  <2>10. QueueOK(items', bytes') /\ Range(items') \subseteq Range(q)
    BY <2>2, <2>5, <2>6, <2>8, <2>9 DEF QueueOK
  <2>11. PICK sent \in Subsequence(front, Items \ Unserializable) :
           /\ wire' = wire \o sent
           /\ IF sent = <<>> THEN congested' = congested
                             ELSE congested' \in BOOLEAN
    BY <2>1 DEF front
  <2>12. sent \in Seq(Items)
    BY <2>2, SubsequenceProperties
  <2>13. wire' \in Seq(Items) /\ congested' \in BOOLEAN
    BY <1>0, <2>11, <2>12
  <2>14. drainTimer' \in BOOLEAN
    BY <2>1
  <2>15. ASSUME items' # <<>>, ~stopped PROVE drainTimer'
    <3>1. n # Len(q)
      BY <2>6, <2>7, <2>15
    <3>2. Len(q) \in Nat
      BY <1>q
    <3>3. n < Len(q)
      BY <3>1, <3>2
    <3> QED
      BY <2>1, <2>15, <3>3
  <2> QED
    BY <2>10, <2>13, <2>14, <2>15
<1> QED
  BY <1>1, <1>2

-----------------------------------------------------------------------------
\* The outbox starts empty.
LEMMA InitIInv == Init => IInv
<1> SUFFICES ASSUME Init PROVE IInv
  OBVIOUS
<1>1. QueueOK(items, bytes)
  BY EmptyQueueOK DEF Init
<1>2. items = <<>> /\ stopped = FALSE /\ ready = perSocket /\ perSocket \in BOOLEAN
  BY DEF Init
<1>3. TypeOK
  BY <1>1, <1>2, OutboxAssumption DEF Init, TypeOK, QueueOK, OutboxAssumption
<1>4. QueuedOnce
  BY <1>1, <1>2 DEF QueuedOnce, QueueOK, Range
<1> QED
  BY <1>1, <1>2, <1>3, <1>4
     DEF IInv, ByteAccounting, QueueOK, NoStuckQueue, ReadyRuns

\* The invariant, from what a step does to the queue and to the rest.
LEMMA IInvFromParts ==
    ASSUME QueueOK(items', bytes'),
           \A m \in Range(items') : stamp'[m] # 0,
           items' # <<>> /\ sock' = "open" /\ ready' => drainTimer',
           ready' => ~stopped',
           perSocket' \in BOOLEAN,
           drainTimer' \in BOOLEAN,
           sock' \in {"open", "closing", "closed"},
           ready' \in BOOLEAN,
           stopped' \in BOOLEAN,
           draining' \in BOOLEAN,
           congested' \in BOOLEAN,
           wire' \in Seq(Items),
           stamp' \in [Items -> Nat],
           clock' \in Nat,
           refused' \in SUBSET Items,
           callMark' \in Nat
    PROVE  IInv'
BY DEF IInv, TypeOK, QueuedOnce, ByteAccounting, NoStuckQueue, ReadyRuns,
       ReadyToWrite, QueueOK

\* What the invariant says about the current queue.
LEMMA IInvQueue ==
    ASSUME IInv
    PROVE  /\ QueueOK(items, bytes)
           /\ \A m \in Range(items) : stamp[m] # 0
           /\ items # <<>> /\ sock = "open" /\ ready => drainTimer
           /\ ready => ~stopped
BY DEF IInv, TypeOK, QueuedOnce, ByteAccounting, NoStuckQueue, ReadyRuns,
       ReadyToWrite, QueueOK

\* A new item at the back of the queue.
LEMMA PushedQueueOK ==
    ASSUME NEW q, NEW b, QueueOK(q, b), NEW m \in Items, m \notin Range(q),
           b + Size[m] <= MaxOutboxBytes
    PROVE  /\ QueueOK(Append(q, m), b + Size[m])
           /\ Range(Append(q, m)) = Range(q) \cup {m}
<1>1. q \in Seq(Items) /\ IsInjective(q) /\ b \in Nat /\ b = TotalSize(Range(q))
  BY DEF QueueOK
<1>2. Size[m] \in Nat
  BY OutboxAssumption DEF OutboxAssumption
<1>3. /\ Append(q, m) \in Seq(Items)
      /\ Len(Append(q, m)) = Len(q) + 1
      /\ \A i \in 1..Len(q) : Append(q, m)[i] = q[i]
      /\ Append(q, m)[Len(q) + 1] = m
  BY <1>1, AppendProperties
<1>4. Len(q) \in Nat /\ DOMAIN q = 1..Len(q)
  BY <1>1, LenProperties
<1>5. DOMAIN Append(q, m) = 1..(Len(q) + 1)
  BY <1>3, LenProperties
<1>6. 1..(Len(q) + 1) = (1..Len(q)) \cup {Len(q) + 1}
  <2>1. Len(q) \in Nat
    BY <1>4
  <2> QED
    BY <2>1
<1>7. Range(Append(q, m)) = Range(q) \cup {m}
  <2> DEFINE a == Append(q, m)
  <2> HIDE DEF a
  <2>1. /\ DOMAIN a = (1..Len(q)) \cup {Len(q) + 1}
        /\ \A i \in 1..Len(q) : a[i] = q[i]
        /\ a[Len(q) + 1] = m
    BY <1>3, <1>5, <1>6 DEF a
  <2>2. Range(a) = Range(q) \cup {m}
    BY <1>4, <2>1 DEF Range
  <2> QED
    BY <2>2 DEF a
<1>8. IsInjective(Append(q, m))
  <2> DEFINE a == Append(q, m)
  <2> HIDE DEF a
  <2>1. /\ DOMAIN a = (1..Len(q)) \cup {Len(q) + 1}
        /\ \A i \in 1..Len(q) : a[i] = q[i]
        /\ a[Len(q) + 1] = m
    BY <1>3, <1>5, <1>6 DEF a
  <2>2. \A i \in 1..Len(q) : q[i] # m
    BY <1>4 DEF Range
  <2>3. IsInjective(a)
    BY <1>1, <1>4, <2>1, <2>2 DEF IsInjective
  <2> QED
    BY <2>3 DEF a
<1>9. TotalSize(Range(q) \cup {m}) = TotalSize(Range(q)) + Size[m]
  <2>1. Range(q) \in SUBSET Items /\ IsFiniteSet(Range(q))
    BY <1>1, RangeFinite
  <2>2. IsFiniteSet({m}) /\ {m} \in SUBSET Items /\ Range(q) \cap {m} = {}
    BY FS_Singleton
  <2>3. TotalSize(Range(q) \cup {m}) = TotalSize(Range(q)) + TotalSize({m})
    BY <2>1, <2>2, TotalSizeUnion
  <2> QED
    BY <2>3, TotalSizeOne
<1> QED
  BY <1>1, <1>2, <1>3, <1>7, <1>8, <1>9 DEF QueueOK

\* A queued item replaced where it stands.
LEMMA ReplacedQueueOK ==
    ASSUME NEW q, NEW b, QueueOK(q, b), NEW m \in Items, m \notin Range(q),
           NEW i \in DOMAIN q, b - Size[q[i]] + Size[m] <= MaxOutboxBytes
    PROVE  /\ QueueOK([q EXCEPT ![i] = m], b - Size[q[i]] + Size[m])
           /\ Range([q EXCEPT ![i] = m]) = (Range(q) \ {q[i]}) \cup {m}
<1> DEFINE a == [q EXCEPT ![i] = m]
<1>1. q \in Seq(Items) /\ IsInjective(q) /\ b \in Nat /\ b = TotalSize(Range(q))
  BY DEF QueueOK
<1>2. q[i] \in Items /\ q[i] \in Range(q)
  BY <1>1 DEF Range
<1>3. Size[m] \in Nat /\ Size[q[i]] \in Nat
  BY <1>2, OutboxAssumption DEF OutboxAssumption
<1>4. /\ a \in Seq(Items)
      /\ DOMAIN a = DOMAIN q
      /\ \A j \in DOMAIN q : a[j] = IF j = i THEN m ELSE q[j]
  <2>1. DOMAIN q = 1..Len(q)
    BY <1>1, LenProperties
  <2> QED
    BY <1>1, <2>1, ExceptSeq
<1> HIDE DEF a
<1>5. IsInjective(a)
  BY <1>1, <1>4 DEF IsInjective, Range
<1>6. Range(a) = (Range(q) \ {q[i]}) \cup {m}
  BY <1>1, <1>4 DEF IsInjective, Range
<1>7. TotalSize(Range(a)) = TotalSize(Range(q)) - Size[q[i]] + Size[m]
  <2>1. Range(q) \in SUBSET Items /\ IsFiniteSet(Range(q))
    BY <1>1, RangeFinite
  <2>2. TotalSize(Range(q) \ {q[i]}) = TotalSize(Range(q)) - Size[q[i]]
    BY <1>2, <2>1, TotalSizeRemove
  <2>3. /\ IsFiniteSet(Range(q) \ {q[i]}) /\ Range(q) \ {q[i]} \in SUBSET Items
        /\ IsFiniteSet({m}) /\ {m} \in SUBSET Items
        /\ (Range(q) \ {q[i]}) \cap {m} = {}
    <3>1. IsFiniteSet(Range(q) \ {q[i]})
      BY <2>1, FS_RemoveElement
    <3>2. IsFiniteSet({m})
      BY FS_Singleton
    <3> QED
      BY <2>1, <3>1, <3>2
  <2>4. TotalSize((Range(q) \ {q[i]}) \cup {m})
          = TotalSize(Range(q) \ {q[i]}) + TotalSize({m})
    BY <2>3, TotalSizeUnion
  <2> QED
    BY <1>6, <2>2, <2>4, TotalSizeOne
<1>8. TotalSize(Range(a)) \in Nat
  BY <1>4, RangeFinite, CellsFinite
<1>9. b - Size[q[i]] + Size[m] = TotalSize(Range(a))
  BY <1>1, <1>7
<1> QED
  BY <1>4, <1>5, <1>6, <1>8, <1>9 DEF QueueOK, a

-----------------------------------------------------------------------------
(* Every step keeps the invariant.                                         *)

\* Accepting an item that was not queued gives it a stamp and takes none away.
LEMMA AcceptStamps ==
    ASSUME TypeOK, NEW m \in Items, Accept(m), NEW S \in SUBSET Items,
           \A x \in S \ {m} : stamp[x] # 0
    PROVE  /\ stamp' \in [Items -> Nat]
           /\ clock' \in Nat
           /\ refused' = refused
           /\ callMark' = callMark
           /\ \A x \in S : stamp'[x] # 0
<1>1. clock \in Nat /\ stamp \in [Items -> Nat]
  BY DEF TypeOK
<1>2. clock' = clock + 1 /\ stamp' = [stamp EXCEPT ![m] = clock + 1]
  BY DEF Accept
<1>3. clock + 1 \in Nat /\ clock + 1 # 0
  BY <1>1
<1> QED
  BY <1>1, <1>2, <1>3 DEF Accept

\* Offering an item keeps the invariant (enqueueOrSend).
LEMMA EnqueueOrSendKeepsIInv ==
    ASSUME IInv, NEW m \in Items, EnqueueOrSend(m), perSocket' = perSocket
    PROVE  IInv'
<1>0. TypeOK
  BY DEF IInv
<1>1. /\ QueueOK(items, bytes)
      /\ \A x \in Range(items) : stamp[x] # 0
      /\ items # <<>> /\ sock = "open" /\ ready => drainTimer
      /\ ready => ~stopped
  BY IInvQueue
<1>2. Offered(m)
  BY DEF EnqueueOrSend, SendNow, RefuseUnserializable, Conflate, Push,
         Overflow, Enqueues
<1>3. m \notin Range(items)
  BY <1>1, <1>2 DEF Offered
<1>4. Range(items) \in SUBSET Items
  BY <1>1, RangeFinite DEF QueueOK
<1>5. CASE SendNow(m)
  <2>1. wire' \in Seq(Items) /\ congested' \in BOOLEAN
    BY <1>0, <1>5 DEF SendNow, TypeOK
  <2>2. Accept(m)
    BY <1>5 DEF SendNow
  <2>3. /\ stamp' \in [Items -> Nat] /\ clock' \in Nat
        /\ refused' = refused /\ callMark' = callMark
        /\ \A x \in Range(items) : stamp'[x] # 0
    BY <1>0, <1>1, <1>4, <2>2, AcceptStamps
  <2>4. UNCHANGED <<items, bytes, drainTimer, sock, ready, stopped, draining>>
    BY <1>5 DEF SendNow, queueVars, ownerVars
  <2> QED
    BY <1>0, <1>1, <2>1, <2>3, <2>4, IInvFromParts DEF TypeOK
<1>6. CASE RefuseUnserializable(m) \/ Overflow(m)
  <2>1. /\ refused' = refused \cup {m}
        /\ UNCHANGED <<stamp, clock, callMark, items, bytes, drainTimer, sock,
                       ready, stopped, draining, congested, wire>>
    BY <1>6 DEF RefuseUnserializable, Overflow, Refuse, queueVars, ownerVars
  <2> QED
    BY <1>0, <1>1, <2>1, IInvFromParts DEF TypeOK
<1>7. CASE Conflate(m)
  <2>1. PICK i \in DOMAIN items :
          /\ bytes - Size[items[i]] + Size[m] <= MaxOutboxBytes
          /\ items' = [items EXCEPT ![i] = m]
          /\ bytes' = bytes - Size[items[i]] + Size[m]
    BY <1>7 DEF Conflate, Replaced, Projected
  <2>2. /\ QueueOK(items', bytes')
        /\ Range(items') = (Range(items) \ {items[i]}) \cup {m}
    BY <1>1, <1>3, <2>1, ReplacedQueueOK
  <2>3. Accept(m) /\ Range(items') \in SUBSET Items
    BY <1>4, <1>7, <2>2 DEF Conflate, Replaced, Projected
  <2>4. /\ stamp' \in [Items -> Nat] /\ clock' \in Nat
        /\ refused' = refused /\ callMark' = callMark
        /\ \A x \in Range(items') : stamp'[x] # 0
    BY <1>0, <1>1, <2>2, <2>3, AcceptStamps
  <2>5. /\ drainTimer' = (drainTimer \/ (sock = "open" /\ ready /\ ~stopped))
        /\ UNCHANGED <<sock, ready, stopped, draining, congested, wire>>
    BY <1>7 DEF Conflate, Replaced, Projected, ReadyToWrite, ShouldSchedule, ownerVars
  <2> QED
    BY <1>0, <1>1, <2>2, <2>4, <2>5, IInvFromParts DEF TypeOK
<1>8. CASE Push(m)
  <2>1. /\ bytes + Size[m] <= MaxOutboxBytes
        /\ items' = Append(items, m)
        /\ bytes' = bytes + Size[m]
    BY <1>8 DEF Push
  <2>2. QueueOK(items', bytes') /\ Range(items') = Range(items) \cup {m}
    BY <1>1, <1>3, <2>1, PushedQueueOK
  <2>3. Accept(m) /\ Range(items') \in SUBSET Items
    BY <1>4, <1>8, <2>2 DEF Push
  <2>4. /\ stamp' \in [Items -> Nat] /\ clock' \in Nat
        /\ refused' = refused /\ callMark' = callMark
        /\ \A x \in Range(items') : stamp'[x] # 0
    BY <1>0, <1>1, <2>2, <2>3, AcceptStamps
  <2>5. /\ drainTimer' = (drainTimer \/ (sock = "open" /\ ready /\ ~stopped))
        /\ UNCHANGED <<sock, ready, stopped, draining, congested, wire>>
    BY <1>8 DEF Push, ReadyToWrite, ShouldSchedule, ownerVars
  <2> QED
    BY <1>0, <1>1, <2>2, <2>4, <2>5, IInvFromParts DEF TypeOK
<1> QED
  BY <1>5, <1>6, <1>7, <1>8 DEF EnqueueOrSend

\* A pass over the queue, or over what a purge left of it.
LEMMA PassKeepsIInv ==
    ASSUME IInv, NEW q, NEW b, QueueOK(q, b), Range(q) \subseteq Range(items),
           NEW t \in BOOLEAN, DrainPass(q, b, t),
           ready' \in BOOLEAN, ready' => ~stopped,
           UNCHANGED <<perSocket, sock, stopped, draining, stamp, clock, refused, callMark>>
    PROVE  IInv'
<1>0. TypeOK
  BY DEF IInv
<1>1. \A x \in Range(items) : stamp[x] # 0
  BY IInvQueue
<1>2. /\ QueueOK(items', bytes')
      /\ Range(items') \subseteq Range(q)
      /\ drainTimer' \in BOOLEAN
      /\ congested' \in BOOLEAN
      /\ wire' \in Seq(Items)
      /\ items' # <<>> /\ sock = "open" /\ ~stopped => drainTimer'
  BY <1>0, DrainPassProperties
<1>3. \A x \in Range(items') : stamp'[x] # 0
  BY <1>1, <1>2
<1> QED
  BY <1>0, <1>2, <1>3, IInvFromParts DEF TypeOK

\* Steps that leave a queue which is sound, has only stamped items and is
\* still, empty, or not writable.
LEMMA OwnerKeepsIInv ==
    ASSUME IInv, QueueOK(items', bytes'), Range(items') \subseteq Range(items),
           drainTimer' \in BOOLEAN, sock' \in {"open", "closing", "closed"},
           ready' \in BOOLEAN, stopped' \in BOOLEAN, draining' \in BOOLEAN,
           congested' \in BOOLEAN, callMark' \in Nat,
           ready' => ~stopped',
           \/ items' = <<>>
           \/ sock' # "open"
           \/ ~ready'
           \/ sock = "open" /\ ready /\ items # <<>> /\ drainTimer' = drainTimer,
           UNCHANGED <<perSocket, wire, stamp, clock, refused>>
    PROVE  IInv'
<1>0. TypeOK
  BY DEF IInv
<1>1. /\ \A x \in Range(items) : stamp[x] # 0
      /\ items # <<>> /\ sock = "open" /\ ready => drainTimer
  BY IInvQueue
<1>2. \A x \in Range(items') : stamp'[x] # 0
  BY <1>1
<1> QED
  BY <1>0, <1>1, <1>2, IInvFromParts DEF TypeOK

\* An outbox keeps its owner.
LEMMA OwnerNeverChanges == [Next]_vars => perSocket' = perSocket
<1> SUFFICES ASSUME [Next]_vars PROVE perSocket' = perSocket
  OBVIOUS
<1>1. ASSUME NEW m \in Items, EnqueueOrSend(m) \/ RemoveOne(m) PROVE perSocket' = perSocket
  BY <1>1 DEF EnqueueOrSend, SendNow, RefuseUnserializable, Conflate, Push, Overflow,
     RemoveOne, ownerVars
<1>2. CASE TimerFires \/ Uncongest \/ SocketCloses
  BY <1>2 DEF TimerFires, Uncongest, SocketCloses, ownerVars
<1>3. CASE HubOwner
  BY <1>3 DEF HubOwner, HubCloseEvent, HubStop
<1>4. CASE ClientOwner
  BY <1>4 DEF ClientOwner, SocketOpens, HelloAck, ClientCloseEvent, Stop, DrainTick,
     StopFinishes, Start, ownerVars
<1>5. CASE UNCHANGED vars
  BY <1>5 DEF vars, ownerVars
<1> QED
  BY <1>1, <1>2, <1>3, <1>4, <1>5 DEF Next

\* Every step keeps the invariant.
LEMMA NextIInv == IInv /\ [Next]_vars => IInv'
<1> SUFFICES ASSUME IInv, [Next]_vars PROVE IInv'
  OBVIOUS
<1>0. TypeOK
  BY DEF IInv
<1>1. /\ QueueOK(items, bytes)
      /\ \A x \in Range(items) : stamp[x] # 0
      /\ items # <<>> /\ sock = "open" /\ ready => drainTimer
      /\ ready => ~stopped
  BY IInvQueue
<1>t. /\ drainTimer \in BOOLEAN /\ sock \in {"open", "closing", "closed"}
      /\ ready \in BOOLEAN /\ stopped \in BOOLEAN /\ draining \in BOOLEAN
      /\ congested \in BOOLEAN /\ callMark \in Nat /\ clock \in Nat
  BY <1>0 DEF TypeOK
<1>e. QueueOK(<<>>, 0) /\ Range(<<>>) \subseteq Range(items)
  BY EmptyQueueOK DEF Range
<1>p. perSocket' = perSocket
  BY OwnerNeverChanges
<1>2. ASSUME NEW m \in Items, EnqueueOrSend(m) PROVE IInv'
  BY <1>2, <1>p, EnqueueOrSendKeepsIInv
<1>3. ASSUME NEW m \in Items, RemoveOne(m) PROVE IInv'
  <2>1. PICK q \in Subsequence(items, Items \ {m}) : items' = q
    BY <1>3 DEF RemoveOne
  <2>2. /\ QueueOK(items', TotalSize(Range(items')))
        /\ Range(items') = Range(items) \cap (Items \ {m})
    BY <1>1, <2>1, FilteredQueueOK
  <2>3. /\ Range(items) \in SUBSET Items /\ IsFiniteSet(Range(items))
        /\ bytes = TotalSize(Range(items)) /\ bytes \in Nat
    BY <1>1, RangeFinite DEF QueueOK
  <2>4. m \in Range(items)
    BY <1>3 DEF RemoveOne
  <2>5. Range(items') = Range(items) \ {m}
    BY <2>2, <2>3
  <2>6. TotalSize(Range(items')) = bytes - Size[m]
    BY <2>3, <2>4, <2>5, TotalSizeRemove
  <2>7. TotalSize(Range(items')) \in Nat /\ Size[m] \in Nat
    BY <2>2, OutboxAssumption DEF QueueOK, OutboxAssumption
  <2>8. bytes' = TotalSize(Range(items'))
    <3>1. bytes' = IF items' = <<>> THEN 0
                   ELSE IF bytes >= Size[m] THEN bytes - Size[m] ELSE 0
      BY <1>3 DEF RemoveOne
    <3>2. items' = <<>> => TotalSize(Range(items')) = 0
      <4>1. Range(<<>>) = {}
        BY DEF Range
      <4> QED
        BY <4>1, TotalSizeEmpty
    <3>3. bytes >= Size[m]
      BY <2>3, <2>6, <2>7
    <3> QED
      BY <2>6, <3>1, <3>2, <3>3
  <2>9. UNCHANGED <<drainTimer, sock, ready, stopped, draining, congested, wire,
                    stamp, clock, refused, callMark>>
    BY <1>3 DEF RemoveOne, ownerVars, history
  <2>10. items = <<>> => items' = <<>>
    <3>1. Range(<<>>) = {}
      BY DEF Range
    <3> QED
      BY <2>4, <3>1
  <2> QED
    BY <1>1, <1>t, <2>2, <2>5, <2>8, <2>9, <2>10, <1>p, OwnerKeepsIInv
<1>4. CASE TimerFires
  <2>1. DrainPass(items, bytes, FALSE)
    BY <1>4 DEF TimerFires
  <2>2. UNCHANGED <<ready, sock, stopped, draining, stamp, clock, refused, callMark>>
    BY <1>4 DEF TimerFires, ownerVars, history
  <2> QED
    BY <1>1, <1>t, <2>1, <2>2, <1>p, PassKeepsIInv
<1>5. CASE Uncongest
  <2>1. /\ congested' = FALSE
        /\ UNCHANGED <<items, bytes, drainTimer, sock, ready, stopped, draining,
                       wire, stamp, clock, refused, callMark>>
    BY <1>5 DEF Uncongest, queueVars, ownerVars, history
  <2> QED
    BY <1>0, <1>1, <1>p, <1>t, <2>1, IInvFromParts DEF TypeOK
<1>6. CASE SocketCloses
  <2>1. /\ sock' = "closing"
        /\ UNCHANGED <<items, bytes, drainTimer, ready, stopped, draining,
                       congested, wire, stamp, clock, refused, callMark>>
    BY <1>6 DEF SocketCloses, queueVars, history
  <2> QED
    BY <1>1, <1>t, <2>1, <1>p, OwnerKeepsIInv
<1>7. CASE HubCloseEvent \/ HubStop
  <2>1. /\ sock' \in {"closing", "closed"}
        /\ drainTimer' = FALSE
        /\ UNCHANGED <<ready, stopped, draining, congested, wire, stamp, clock,
                       refused, callMark>>
    BY <1>7 DEF HubCloseEvent, HubStop, history
  <2>2. \/ items' = <<>> /\ bytes' = 0
        \/ items' = items /\ bytes' = bytes
    BY <1>7 DEF HubCloseEvent, HubStop, Clear
  <2>3. QueueOK(items', bytes') /\ Range(items') \subseteq Range(items)
    BY <1>1, <1>e, <2>2
  <2> QED
    BY <1>1, <1>t, <2>1, <2>3, <1>p, OwnerKeepsIInv
<1>8. CASE SocketOpens
  <2>1. /\ sock' = "open" /\ ready' = FALSE /\ congested' = FALSE
        /\ UNCHANGED <<items, bytes, drainTimer, stopped, draining, wire, stamp,
                       clock, refused, callMark>>
    BY <1>8 DEF SocketOpens, queueVars, history
  <2> QED
    BY <1>1, <1>t, <2>1, <1>p, OwnerKeepsIInv
<1>9. CASE HelloAck
  <2>0. PICK gone \in {{}, FeatureBound} :
          \E q \in Subsequence(items, Items \ gone) :
            DrainPass(q, TotalSize(Range(q)), drainTimer)
    BY <1>9 DEF HelloAck
  <2>1. PICK q \in Subsequence(items, Items \ gone) :
          DrainPass(q, TotalSize(Range(q)), drainTimer)
    BY <2>0
  <2>2. /\ QueueOK(q, TotalSize(Range(q)))
        /\ Range(q) \subseteq Range(items)
    BY <1>1, FilteredQueueOK
  <2>3. /\ ready' = TRUE /\ ~stopped
        /\ UNCHANGED <<sock, stopped, draining, stamp, clock, refused, callMark>>
    BY <1>9 DEF HelloAck, history
  <2> QED
    BY <1>t, <2>1, <2>2, <2>3, <1>p, PassKeepsIInv
<1>10. CASE ClientCloseEvent
  <2>1. /\ sock' = "closed" /\ ready' = FALSE
        /\ UNCHANGED <<draining, congested, wire, stamp, clock, refused, callMark>>
    BY <1>10 DEF ClientCloseEvent, history
  <2>2. \/ RemoveWhere(Rpc) /\ UNCHANGED <<drainTimer, stopped>>
        \/ stopped' = TRUE /\ drainTimer' = FALSE /\ items' = <<>> /\ bytes' = 0
    BY <1>10 DEF ClientCloseEvent, Clear
  <2>3. CASE RemoveWhere(Rpc) /\ UNCHANGED <<drainTimer, stopped>>
    <3>1. PICK q \in Subsequence(items, Items \ Rpc) : items' = q
      BY <2>3 DEF RemoveWhere
    <3>2. QueueOK(items', TotalSize(Range(items'))) /\ Range(items') \subseteq Range(items)
      BY <1>1, <3>1, FilteredQueueOK
    <3>3. bytes' = TotalSize(Range(items'))
      BY <2>3 DEF RemoveWhere
    <3> QED
      BY <1>t, <2>1, <2>3, <3>2, <3>3, <1>p, OwnerKeepsIInv
  <2>4. CASE stopped' = TRUE /\ drainTimer' = FALSE /\ items' = <<>> /\ bytes' = 0
    BY <1>e, <1>t, <2>1, <2>4, <1>p, OwnerKeepsIInv
  <2> QED
    BY <2>2, <2>3, <2>4
<1>11. CASE Stop
  <2>1. /\ stopped' = TRUE /\ ready' = FALSE /\ drainTimer' = FALSE
        /\ draining' \in BOOLEAN /\ callMark' = clock
        /\ sock' \in {"open", "closing", "closed"}
        /\ UNCHANGED <<congested, wire, stamp, clock, refused>>
    BY <1>11, <1>t DEF Stop, HardStop
  <2>2. \/ items' = <<>> /\ bytes' = 0
        \/ items' = items /\ bytes' = bytes
    BY <1>11 DEF Stop, HardStop, Clear
  <2>3. QueueOK(items', bytes') /\ Range(items') \subseteq Range(items)
    BY <1>1, <1>e, <2>2
  <2> QED
    BY <1>t, <2>1, <2>3, <1>p, OwnerKeepsIInv
<1>12. CASE DrainTick
  <2>1. DrainPass(items, bytes, drainTimer)
    BY <1>12 DEF DrainTick
  <2>2. UNCHANGED <<ready, sock, stopped, draining, stamp, clock, refused, callMark>>
    BY <1>12 DEF DrainTick, ownerVars, history
  <2> QED
    BY <1>1, <1>t, <2>1, <2>2, <1>p, PassKeepsIInv
<1>13. CASE StopFinishes
  <2>1. /\ sock' = "closed" /\ ready' = FALSE /\ drainTimer' = FALSE
        /\ draining' = FALSE /\ items' = <<>> /\ bytes' = 0
        /\ UNCHANGED <<stopped, congested, wire, stamp, clock, refused, callMark>>
    BY <1>13 DEF StopFinishes, HardStop, Clear, history
  <2> QED
    BY <1>e, <1>t, <2>1, <1>p, OwnerKeepsIInv
<1>14. CASE Start
  <2>1. /\ stopped' = FALSE /\ callMark' = clock
        /\ sock' = IF sock = "closing" THEN "closed" ELSE sock
        /\ stopped \/ sock = "closing"
        /\ UNCHANGED <<items, bytes, drainTimer, ready, draining, congested, wire,
                       stamp, clock, refused>>
    BY <1>14 DEF Start, queueVars
  <2>2. sock' # "open" \/ ~ready'
    BY <1>1, <2>1
  <2> QED
    BY <1>1, <1>t, <2>1, <2>2, <1>p, OwnerKeepsIInv
<1>15. CASE UNCHANGED vars
  BY <1>15 DEF vars, queueVars, ownerVars, history, IInv, TypeOK, QueuedOnce,
     ByteAccounting, NoStuckQueue, ReadyRuns, ReadyToWrite
<1> QED
  BY <1>2, <1>3, <1>4, <1>5, <1>6, <1>7, <1>8, <1>9, <1>10, <1>11, <1>12,
     <1>13, <1>14, <1>15 DEF Next, HubOwner, ClientOwner

\* Every reachable state satisfies the invariant.
THEOREM Invariance == Spec => []IInv
BY InitIInv, NextIInv, PTL DEF Spec

\* The fields of an outbox keep their types in both owners' configurations.
THEOREM TypeCorrect == Spec => []TypeOK
<1>1. IInv => TypeOK
  BY DEF IInv
<1> QED
  BY Invariance, <1>1, PTL

\* _bytes is the size of the queue and never above maxOutboxBytes.
THEOREM BytesAccounted == Spec => []ByteAccounting
<1>1. IInv => ByteAccounting
  BY DEF IInv
<1> QED
  BY Invariance, <1>1, PTL

\* No writable queue waits without a drain timer.
THEOREM NeverStuck == Spec => []NoStuckQueue
<1>1. IInv => NoStuckQueue
  BY DEF IInv
<1> QED
  BY Invariance, <1>1, PTL

-----------------------------------------------------------------------------
(* The outbox is a mailbox.                                                *)

\* The two filters are one.
LEMMA SameFilter ==
    ASSUME NEW s, NEW keep
    PROVE  M!InOrder(s, keep) = Subsequence(s, keep)
<1>1. \A f : M!Range(f) = Range(f)
  BY DEF M!Range, Range
<1>2. \A S : M!Cardinality(S) = Cardinality(S)
  BY Zenon DEF M!Cardinality, Cardinality, M!IsFiniteSet, IsFiniteSet
<1> QED
  BY <1>1, <1>2, Zenon DEF M!InOrder, Subsequence

\* A filter that keeps every item keeps the sequence.
LEMMA KeepAll ==
    ASSUME NEW s \in Seq(Items)
    PROVE  s \in Subsequence(s, Items)
<1>1. Len(s) \in Nat /\ DOMAIN s = 1..Len(s)
  BY LenProperties
<1>2. {i \in DOMAIN s : s[i] \in Items} = 1..Len(s)
  BY <1>1
<1>3. Cardinality(1..Len(s)) = Len(s)
  BY <1>1, FS_Interval
<1> DEFINE f == [i \in 1..Len(s) |-> i]
<1>4. /\ f \in [1..Len(s) -> 1..Len(s)]
      /\ Range(f) = 1..Len(s)
      /\ \A i, j \in 1..Len(s) : i < j => f[i] < f[j]
  BY DEF Range
<1>5. s = [i \in 1..Len(s) |-> s[f[i]]]
  BY <1>1
<1> HIDE DEF f
<1>6. s \in {[i \in 1..Len(s) |-> s[g[i]]] :
              g \in {h \in [1..Len(s) -> 1..Len(s)] :
                       /\ Range(h) = 1..Len(s)
                       /\ \A i, j \in 1..Len(s) : i < j => h[i] < h[j]}}
  BY <1>4, <1>5
<1> DEFINE P == {i \in DOMAIN s : s[i] \in Items}
           n == Cardinality(P)
<1>7. P = 1..Len(s) /\ n = Len(s)
  BY <1>2, <1>3
<1> HIDE DEF P, n
<1>8. s \in {[i \in 1..n |-> s[g[i]]] :
              g \in {h \in [1..n -> P] :
                       /\ Range(h) = P
                       /\ \A i, j \in 1..n : i < j => h[i] < h[j]}}
  BY <1>6, <1>7, Zenon
<1> QED
  BY <1>8, Zenon DEF Subsequence, P, n

\* A filter that keeps nothing leaves nothing.
LEMMA KeepNone ==
    ASSUME NEW s, NEW keep, \A i \in DOMAIN s : s[i] \notin keep
    PROVE  <<>> \in Subsequence(s, keep)
<1>1. {i \in DOMAIN s : s[i] \in keep} = {}
  OBVIOUS
<1>2. Cardinality({}) = 0
  BY FS_EmptySet
<1> DEFINE f == [i \in 1..0 |-> i]
<1>3. 1..0 = {}
  OBVIOUS
<1>4. f \in [1..0 -> {}] /\ Range(f) = {} /\ \A i, j \in 1..0 : i < j => f[i] < f[j]
  BY <1>3 DEF Range
<1>5. <<>> = [i \in 1..0 |-> s[f[i]]]
  BY <1>3
<1> QED
  BY <1>1, <1>2, <1>4, <1>5 DEF Subsequence

Known == {m \in Items : stamp[m] > 0} \cup refused

\* A step that withdraws what is in gone, and takes the first n of the rest off
\* the line, is a release.
LEMMA ReleaseFrom ==
    ASSUME NEW gone \in SUBSET Items, NEW q \in Subsequence(items, Items \ gone),
           NEW n \in 0..Len(q), items' = SubSeq(q, n + 1, Len(q)),
           NEW sent \in Subsequence(SubSeq(q, 1, n), Items \ Unserializable),
           wire' = wire \o sent, UNCHANGED <<stamp, refused>>
    PROVE  M!Release
<1>1. q \in M!InOrder(items, Items \ gone)
  BY SameFilter
<1>2. sent \in M!InOrder(SubSeq(q, 1, n), Items \ Unserializable)
  BY SameFilter
<1>3. \E out \in M!InOrder(SubSeq(q, 1, n), Items \ Unserializable) : wire' = wire \o out
  BY <1>2
<1>4. Known' = Known
  BY DEF Known
<1> QED
  BY <1>1, <1>3, <1>4 DEF M!Release, Known

\* A step that only withdraws is one.
LEMMA WithdrawFrom ==
    ASSUME TypeOK, NEW gone, NEW q \in Subsequence(items, Items \ gone), items' = q,
           UNCHANGED <<wire, stamp, refused>>
    PROVE  M!Release
<1>1. items \in Seq(Items) /\ wire \in Seq(Items)
  BY DEF TypeOK
<1>2. q \in Seq(Items)
  BY <1>1, SubsequenceProperties
<1>3. Items \ gone = Items \ (gone \cap Items) /\ gone \cap Items \in SUBSET Items
  OBVIOUS
<1>4. Len(q) \in Nat /\ SubSeq(q, 0 + 1, Len(q)) = q
  BY <1>2, SubSeqFull
<1>5. SubSeq(q, 1, 0) = <<>>
  BY SubSeqEmpty
<1>6. <<>> \in Subsequence(<<>>, Items \ Unserializable)
  BY KeepNone
<1>7. wire \o <<>> = wire
  BY <1>1
<1>8. 0 \in 0..Len(q)
  BY <1>4
<1> QED
  BY <1>3, <1>4, <1>5, <1>6, <1>7, <1>8, ReleaseFrom

\* So is one that leaves nothing (clear).
LEMMA ClearReleases ==
    ASSUME TypeOK, items' = <<>>, UNCHANGED <<wire, stamp, refused>>
    PROVE  M!Release
<1>1. <<>> \in Subsequence(items, Items \ Items)
  BY KeepNone
<1> QED
  BY <1>1, WithdrawFrom

\* A drain pass over what is left of the queue (drain).
LEMMA DrainPassReleases ==
    ASSUME TypeOK, NEW gone, NEW q \in Subsequence(items, Items \ gone), NEW b, NEW t,
           DrainPass(q, b, t), UNCHANGED <<stamp, refused>>
    PROVE  M!Release
<1>1. CASE sock # "open"
  <2>1. (items' = <<>> \/ items' = q) /\ wire' = wire
    BY <1>1 DEF DrainPass
  <2> QED
    BY <2>1, ClearReleases, WithdrawFrom
<1>2. CASE sock = "open"
  <2>1. PICK n \in 0..Len(q) :
          /\ items' = SubSeq(q, n + 1, Len(q))
          /\ \E sent \in Subsequence(SubSeq(q, 1, n), Items \ Unserializable) :
               wire' = wire \o sent
    BY <1>2 DEF DrainPass, Rest
  <2>2. Items \ gone = Items \ (gone \cap Items) /\ gone \cap Items \in SUBSET Items
    OBVIOUS
  <2> QED
    BY <2>1, <2>2, ReleaseFrom
<1> QED
  BY <1>1, <1>2

\* What an item that is offered means to the mailbox.
LEMMA AcceptedIsNew ==
    ASSUME TypeOK, NEW m \in Items, Offered(m), Accept(m)
    PROVE  m \notin Known /\ Known' = Known \cup {m}
<1>1. clock \in Nat /\ stamp \in [Items -> Nat] /\ stamp[m] = 0 /\ m \notin refused
  BY DEF TypeOK, Offered
<1>2. stamp' = [stamp EXCEPT ![m] = clock + 1] /\ refused' = refused
  BY DEF Accept
<1>3. stamp'[m] > 0
  BY <1>1, <1>2
<1> QED
  BY <1>1, <1>2, <1>3 DEF Known

LEMMA RefusedIsNew ==
    ASSUME TypeOK, NEW m \in Items, Offered(m), Refuse(m)
    PROVE  m \notin Known /\ Known' = Known \cup {m}
BY DEF TypeOK, Offered, Refuse, Known

\* Every step of an outbox is a step of the mailbox, or none.
LEMMA StepIsMailbox == TypeOK /\ [Next]_vars => [M!Next]_(M!mailVars)
<1> SUFFICES ASSUME TypeOK, [Next]_vars PROVE M!Next \/ UNCHANGED <<items, wire, Known>>
  BY DEF M!mailVars, Known
<1>r. M!Release => M!Next
  BY DEF M!Next
<1>1. ASSUME NEW m \in Items, SendNow(m) PROVE M!PostThrough(m)
  <2>1. m \notin Known /\ Known' = Known \cup {m}
    BY <1>1, AcceptedIsNew DEF SendNow
  <2> QED
    BY <1>1, <2>1 DEF SendNow, FastPath, queueVars, M!PostThrough, M!New, Known
<1>2. ASSUME NEW m \in Items, RefuseUnserializable(m) \/ Overflow(m) PROVE M!Refuse(m)
  <2>1. m \notin Known /\ Known' = Known \cup {m}
    BY <1>2, RefusedIsNew DEF RefuseUnserializable, Overflow, Enqueues
  <2> QED
    BY <1>2, <2>1 DEF RefuseUnserializable, Overflow, queueVars, M!Refuse, M!New, Known
<1>3. ASSUME NEW m \in Items, Conflate(m) PROVE M!TakeOver(m)
  <2>1. m \notin Known /\ Known' = Known \cup {m}
    BY <1>3, AcceptedIsNew DEF Conflate, Enqueues
  <2> QED
    BY <1>3, <2>1 DEF Conflate, Conflates, SameKey, Replaced, M!TakeOver, M!New, M!Waits, Known
<1>4. ASSUME NEW m \in Items, Push(m) PROVE M!PostAtBack(m)
  <2>1. m \notin Known /\ Known' = Known \cup {m}
    BY <1>4, AcceptedIsNew DEF Push, Enqueues
  <2> QED
    BY <1>4, <2>1 DEF Push, SameKey, M!PostAtBack, M!New, M!Waits, Known
<1>5. ASSUME NEW m \in Items, RemoveOne(m) PROVE M!Release
  BY <1>5, WithdrawFrom DEF RemoveOne, history
<1>6. CASE TimerFires \/ DrainTick
  <2>1. items \in Subsequence(items, Items \ {})
    BY KeepAll DEF TypeOK
  <2> QED
    BY <1>r, <1>6, <2>1, DrainPassReleases DEF TimerFires, DrainTick, history
<1>7. CASE HelloAck
  <2>1. PICK gone \in {{}, FeatureBound} :
          \E q \in Subsequence(items, Items \ gone) :
            DrainPass(q, TotalSize(Range(q)), drainTimer)
    BY <1>7 DEF HelloAck
  <2> QED
    BY <1>r, <1>7, <2>1, DrainPassReleases DEF HelloAck, history
<1>8. CASE HubCloseEvent \/ HubStop \/ Stop \/ StopFinishes
  <2>1. (items' = <<>> \/ items' = items) /\ UNCHANGED <<wire, stamp, refused>>
    BY <1>8 DEF HubCloseEvent, HubStop, Stop, StopFinishes, HardStop, Clear, history
  <2>2. items' = <<>> => M!Release
    BY <2>1, ClearReleases
  <2>3. items' = items => UNCHANGED <<items, wire, Known>>
    BY <2>1 DEF Known
  <2> QED
    BY <1>r, <2>1, <2>2, <2>3
<1>9. CASE ClientCloseEvent
  <2>1. UNCHANGED <<wire, stamp, refused>>
    BY <1>9 DEF ClientCloseEvent, history
  <2>2. items' = <<>> \/ items' \in Subsequence(items, Items \ Rpc)
    BY <1>9 DEF ClientCloseEvent, Clear, RemoveWhere
  <2> QED
    BY <1>r, <2>1, <2>2, ClearReleases, WithdrawFrom
<1>10. CASE Uncongest \/ SocketCloses \/ SocketOpens \/ Start \/ UNCHANGED vars
  <2>1. UNCHANGED <<items, wire, stamp, refused>>
    BY <1>10 DEF Uncongest, SocketCloses, SocketOpens, Start, vars, queueVars, history
  <2> QED
    BY <2>1 DEF Known
<1> QED
  BY <1>1, <1>2, <1>3, <1>4, <1>5, <1>6, <1>7, <1>8, <1>9, <1>10
  DEF Next, EnqueueOrSend, HubOwner, ClientOwner, M!Next

\* An outbox, whoever owns it, does what a mailbox may do: it writes an item at
\* most once, and in the order of the queue, in which only a fresh status takes
\* the place of another.
THEOREM RefinesMailbox == Spec => ImplementsMailbox
<1>1. Init => M!Init
  BY OutboxAssumption DEF Init, M!Init
<1> QED
  BY <1>1, StepIsMailbox, TypeCorrect, PTL DEF Spec, ImplementsMailbox, M!Spec

-----------------------------------------------------------------------------
(* Nothing leaves the queue without a reason.                              *)

\* What an item at the end adds.
LEMMA RangeOfAppend ==
    ASSUME NEW s \in Seq(Items), NEW m \in Items
    PROVE  Range(Append(s, m)) = Range(s) \cup {m}
<1>1. /\ DOMAIN s = 1..Len(s) /\ Len(s) \in Nat
      /\ DOMAIN Append(s, m) = 1..(Len(s) + 1)
      /\ \A i \in 1..Len(s) : Append(s, m)[i] = s[i]
      /\ Append(s, m)[Len(s) + 1] = m
  BY AppendProperties, LenProperties
<1>2. 1..(Len(s) + 1) = 1..Len(s) \cup {Len(s) + 1}
  BY <1>1
<1> QED
  BY <1>1, <1>2 DEF Range

\* What the history says: an item is stamped when it is accepted, and what was
\* written does not wait any more.
Written ==
    /\ \A m \in Items : stamp[m] <= clock
    /\ \A m \in Range(wire) : stamp[m] # 0
    /\ Range(items) \cap Range(wire) = {}
    /\ perSocket => ~draining

\* What a pass takes off the queue it writes, unless it cannot be serialized or
\* the hub's socket is gone; and it writes nothing else.
LEMMA DrainPassWrites ==
    ASSUME TypeOK, NEW q, NEW b, QueueOK(q, b), NEW t, DrainPass(q, b, t)
    PROVE  /\ Range(items') \subseteq Range(q)
           /\ Range(wire') \subseteq Range(wire) \cup (Range(q) \ Range(items'))
           /\ \A m \in Range(q) \ Range(items') :
                 m \in Range(wire') \cup Unserializable \/ (perSocket /\ sock # "open")
<1>0. wire \in Seq(Items) /\ q \in Seq(Items) /\ IsInjective(q)
  BY DEF TypeOK, QueueOK
<1>1. CASE sock # "open"
  <2>1. wire' = wire /\ IF perSocket THEN items' = <<>> ELSE items' = q
    BY <1>1, Zenon DEF DrainPass
  <2>2. Range(<<>>) = {}
    BY DEF Range
  <2> QED
    BY <1>1, <2>1, <2>2
<1>2. CASE sock = "open"
  <2>1. PICK n \in 0..Len(q) :
          /\ items' = SubSeq(q, n + 1, Len(q))
          /\ \E sent \in Subsequence(SubSeq(q, 1, n), Items \ Unserializable) :
               wire' = wire \o sent
    BY <1>2 DEF DrainPass, Rest
  <2> DEFINE front == SubSeq(q, 1, n)
             back  == SubSeq(q, n + 1, Len(q))
  <2>2. /\ front \in Seq(Items) /\ back \in Seq(Items)
        /\ Range(front) \cup Range(back) = Range(q)
        /\ Range(front) \cap Range(back) = {}
    BY <1>0, SplitProperties
  <2> HIDE DEF front, back
  <2>3. PICK sent \in Subsequence(front, Items \ Unserializable) : wire' = wire \o sent
    BY <2>1 DEF front
  <2>4. sent \in Seq(Items) /\ Range(sent) = Range(front) \cap (Items \ Unserializable)
    BY <2>2, SubsequenceProperties
  <2>5. Range(wire') = Range(wire) \cup Range(sent)
    BY <1>0, <2>3, <2>4, RangeConcatenation
  <2>6. Range(items') = Range(back) /\ Range(front) \in SUBSET Items
    BY <2>1, <2>2, RangeOfSeq DEF back
  <2>7. Range(q) \ Range(items') = Range(front)
    BY <2>2, <2>6
  <2>8. Range(items') \subseteq Range(q)
    BY <2>2, <2>6
  <2>9. Range(wire') \subseteq Range(wire) \cup (Range(q) \ Range(items'))
    BY <2>4, <2>5, <2>7
  <2>10. \A m \in Range(front) : m \in Range(wire') \cup Unserializable
    BY <2>4, <2>5, <2>6
  <2>11. \A m \in Range(q) \ Range(items') : m \in Range(wire') \cup Unserializable
    BY <2>7, <2>10, Zenon
  <2> QED
    BY <2>8, <2>9, <2>11, Zenon
<1> QED
  BY <1>1, <1>2

\* A pass over what is left of the queue leaves what is written and what waits
\* apart.
LEMMA PassKeepsWritten ==
    ASSUME IInv, Written, NEW q, NEW b, QueueOK(q, b), Range(q) \subseteq Range(items),
           NEW t, DrainPass(q, b, t), UNCHANGED <<stamp, clock, perSocket, draining>>
    PROVE  Written'
<1>1. TypeOK /\ \A m \in Range(items) : stamp[m] # 0
  BY DEF IInv, QueuedOnce
<1>2. /\ Range(items') \subseteq Range(q)
      /\ Range(wire') \subseteq Range(wire) \cup (Range(q) \ Range(items'))
  BY <1>1, DrainPassWrites
<1> QED
  BY <1>1, <1>2 DEF Written

\* Accepting an item keeps the stamps below the clock and takes none away.
LEMMA AcceptDates ==
    ASSUME TypeOK, Written, NEW m \in Items, Offered(m), Accept(m)
    PROVE  /\ \A x \in Items : stamp'[x] <= clock' /\ (x # m => stamp'[x] = stamp[x])
           /\ \A x \in Items : x # m => stamp[x] < stamp'[m]
           /\ stamp'[m] # 0
           /\ m \notin Range(wire)
<1>1. clock \in Nat /\ stamp \in [Items -> Nat] /\ stamp[m] = 0
  BY DEF TypeOK, Offered
<1>2. clock' = clock + 1 /\ stamp' = [stamp EXCEPT ![m] = clock + 1]
  BY DEF Accept
<1>3. \A x \in Items : stamp[x] \in Nat /\ stamp[x] <= clock
  BY <1>1 DEF Written
<1> QED
  BY <1>1, <1>2, <1>3 DEF Written

LEMMA NextWritten == IInv /\ Written /\ [Next]_vars => Written'
<1> SUFFICES ASSUME IInv, Written, [Next]_vars PROVE Written'
  OBVIOUS
<1>0. /\ TypeOK /\ QueueOK(items, bytes)
      /\ \A x \in Range(items) : stamp[x] # 0
      /\ Range(items) \in SUBSET Items /\ Range(wire) \in SUBSET Items
      /\ items \in Seq(Items) /\ wire \in Seq(Items)
  BY IInvQueue, RangeOfSeq DEF IInv, TypeOK
<1>1. ASSUME Range(items') \subseteq Range(items), UNCHANGED <<wire, stamp, clock>>,
             perSocket' => ~draining'
      PROVE  Written'
  BY <1>0, <1>1 DEF Written
<1>2. ASSUME NEW m \in Items, SendNow(m) PROVE Written'
  <2>1. Offered(m) /\ Accept(m) /\ items' = items /\ items = <<>>
    BY <1>2 DEF SendNow, FastPath, queueVars
  <2>3. Range(wire') = Range(wire) \cup {m} /\ UNCHANGED <<perSocket, draining>>
    BY <1>0, <1>2, RangeOfAppend DEF SendNow, ownerVars
  <2>4. Range(items') = {}
    BY <2>1 DEF Range
  <2> QED
    BY <1>0, <2>1, <2>3, <2>4, AcceptDates DEF Written
<1>3. ASSUME NEW m \in Items, Push(m) \/ Conflate(m) PROVE Written'
  <2>1. Offered(m) /\ Accept(m) /\ UNCHANGED <<wire, perSocket, draining>>
    BY <1>3 DEF Push, Conflate, Enqueues, ownerVars
  <2>2. Range(items') \subseteq Range(items) \cup {m}
    <3>1. CASE Push(m)
      BY <1>0, <3>1, RangeOfAppend DEF Push
    <3>2. CASE Conflate(m)
      BY <1>0, <3>2 DEF Conflate, Replaced, Range
    <3> QED
      BY <1>3, <3>1, <3>2
  <2>3. /\ \A x \in Items : stamp'[x] <= clock' /\ (x # m => stamp'[x] = stamp[x])
        /\ stamp'[m] # 0 /\ m \notin Range(wire)
    BY <1>0, <2>1, AcceptDates
  <2> QED
    BY <1>0, <2>1, <2>2, <2>3 DEF Written
<1>4. ASSUME NEW m \in Items, RefuseUnserializable(m) \/ Overflow(m) PROVE Written'
  BY <1>1, <1>4 DEF RefuseUnserializable, Overflow, Refuse, queueVars, ownerVars, Written
<1>5. ASSUME NEW m \in Items, RemoveOne(m) PROVE Written'
  <2>1. Range(items') \subseteq Range(items)
    BY <1>0, <1>5, SubsequenceProperties DEF RemoveOne
  <2> QED
    BY <1>1, <1>5, <2>1 DEF RemoveOne, history, ownerVars, Written
<1>6. CASE TimerFires \/ DrainTick
  BY <1>0, <1>6, PassKeepsWritten DEF TimerFires, DrainTick, history, ownerVars
<1>7. CASE HelloAck
  <2>1. PICK gone \in {{}, FeatureBound} :
          \E q \in Subsequence(items, Items \ gone) :
            DrainPass(q, TotalSize(Range(q)), drainTimer)
    BY <1>7 DEF HelloAck
  <2>2. PICK q \in Subsequence(items, Items \ gone) :
          DrainPass(q, TotalSize(Range(q)), drainTimer)
    BY <2>1
  <2>3. QueueOK(q, TotalSize(Range(q))) /\ Range(q) \subseteq Range(items)
    BY <1>0, FilteredQueueOK
  <2> QED
    BY <1>7, <2>2, <2>3, PassKeepsWritten DEF HelloAck, history
<1>8. CASE HubCloseEvent \/ HubStop \/ Stop \/ StopFinishes
  <2>1. /\ items' = <<>> \/ items' = items
        /\ UNCHANGED <<wire, stamp, clock>>
        /\ perSocket' => ~draining'
    BY <1>8 DEF HubCloseEvent, HubStop, Stop, StopFinishes, HardStop, Clear, history, Written
  <2>2. Range(<<>>) = {}
    BY DEF Range
  <2> QED
    BY <1>1, <2>1, <2>2
<1>9. CASE ClientCloseEvent
  <2>1. UNCHANGED <<wire, stamp, clock>> /\ (perSocket' => ~draining')
    BY <1>9 DEF ClientCloseEvent, history, Written
  <2>2. items' = <<>> \/ items' \in Subsequence(items, Items \ Rpc)
    BY <1>9 DEF ClientCloseEvent, Clear, RemoveWhere
  <2>3. Range(<<>>) = {}
    BY DEF Range
  <2> QED
    BY <1>0, <1>1, <2>1, <2>2, <2>3, SubsequenceProperties
<1>10. CASE Uncongest \/ SocketCloses \/ SocketOpens \/ Start \/ UNCHANGED vars
  BY <1>1, <1>10 DEF Uncongest, SocketCloses, SocketOpens, Start, vars, queueVars,
     ownerVars, history, Written
<1> QED
  BY <1>2, <1>3, <1>4, <1>5, <1>6, <1>7, <1>8, <1>9, <1>10
  DEF Next, EnqueueOrSend, HubOwner, ClientOwner

\* Each way an item can leave the queue has its reason.
LEMMA NextExplainsLoss == IInv /\ Written /\ [Next]_vars => [LossExplained]_vars
<1> SUFFICES ASSUME IInv, Written, Next PROVE LossExplained
  OBVIOUS
<1>0. /\ TypeOK /\ QueueOK(items, bytes)
      /\ Range(items) \in SUBSET Items
      /\ items \in Seq(Items) /\ wire \in Seq(Items)
      /\ Range(items) \cap Range(wire) = {}
  BY IInvQueue, RangeOfSeq DEF IInv, TypeOK, Written
<1>1. CASE items' = items
  BY <1>1 DEF LossExplained
<1>2. CASE Torndown
  BY <1>2 DEF LossExplained
<1>3. ASSUME NEW m \in Items, Push(m) PROVE LossExplained
  <2>2. Range(items) \subseteq Range(items')
    BY <1>0, <1>3, RangeOfAppend DEF Push
  <2> QED
    BY <2>2 DEF LossExplained
<1>4. ASSUME NEW m \in Items, Conflate(m) PROVE LossExplained
  <2>1. PICK i \in DOMAIN items : Conflates(m, i) /\ items' = [items EXCEPT ![i] = m]
    BY <1>4 DEF Conflate, Replaced
  <2>2. m \in Range(items') /\ Range(items) \ Range(items') \subseteq {items[i]}
    BY <2>1 DEF Range
  <2>3. items[i] \in Items /\ Key[m] # NoKey /\ Key[items[i]] = Key[m]
    BY <1>0, <2>1 DEF Conflates, SameKey
  <2>4. Offered(m) /\ Accept(m)
    BY <1>4 DEF Conflate, Enqueues
  <2>5. items[i] # m => stamp[items[i]] < stamp'[m]
    BY <1>0, <2>3, <2>4, AcceptDates
  <2>6. \A x \in Items : stamp[x] \in Int
    BY <1>0 DEF TypeOK
  <2>7. items[i] # m => stamp'[m] > stamp[items[i]]
    <3>1. stamp'[m] \in Int
      BY <1>0, <2>4 DEF TypeOK, Accept
    <3> QED
      BY <2>3, <2>5, <2>6, <3>1
  <2> QED
    BY <2>2, <2>3, <2>7 DEF LossExplained, Superseded
<1>5. ASSUME NEW m \in Items, RemoveOne(m) PROVE LossExplained
  <2>1. Range(items') = Range(items) \cap (Items \ {m}) /\ m \in Rpc
    BY <1>0, <1>5, SubsequenceProperties DEF RemoveOne
  <2> QED
    BY <1>0, <2>1 DEF LossExplained
<1>6. CASE TimerFires \/ DrainTick
  <2>1. /\ \A m \in Range(items) \ Range(items') :
             m \in Range(wire') \cup Unserializable \/ (perSocket /\ sock # "open")
    BY <1>0, <1>6, DrainPassWrites DEF TimerFires, DrainTick
  <2> QED
    BY <1>0, <2>1 DEF LossExplained, Torndown
<1>7. CASE HelloAck
  <2>1. PICK gone \in {{}, FeatureBound} :
          \E q \in Subsequence(items, Items \ gone) :
            DrainPass(q, TotalSize(Range(q)), drainTimer)
    BY <1>7 DEF HelloAck
  <2>2. PICK q \in Subsequence(items, Items \ gone) :
          DrainPass(q, TotalSize(Range(q)), drainTimer)
    BY <2>1
  <2>3. QueueOK(q, TotalSize(Range(q))) /\ Range(q) = Range(items) \cap (Items \ gone)
    BY <1>0, FilteredQueueOK
  <2>4. \A m \in Range(q) \ Range(items') :
             m \in Range(wire') \cup Unserializable \/ (perSocket /\ sock # "open")
    BY <1>0, <2>2, <2>3, DrainPassWrites
  <2>5. ready' /\ ~ready /\ ~perSocket
    BY <1>7 DEF HelloAck
  <2> QED
    BY <1>0, <2>1, <2>3, <2>4, <2>5 DEF LossExplained
<1>8. CASE HubCloseEvent \/ Stop \/ StopFinishes
  <2>2. CASE HubCloseEvent \/ Stop
    BY <1>2, <2>2 DEF HubCloseEvent, Stop, Torndown
  <2>3. CASE StopFinishes
    BY <1>2, <2>3 DEF StopFinishes, Torndown, Written
  <2> QED
    BY <1>8, <2>2, <2>3
<1>9. CASE ClientCloseEvent
  <2>1. ~perSocket /\ (stopped' \/ items' \in Subsequence(items, Items \ Rpc))
    BY <1>9 DEF ClientCloseEvent, RemoveWhere
  <2>2. CASE stopped'
    BY <1>2, <2>1, <2>2 DEF Torndown
  <2>3. CASE items' \in Subsequence(items, Items \ Rpc)
    <3>1. Range(items') = Range(items) \cap (Items \ Rpc)
      BY <1>0, <2>3, SubsequenceProperties
    <3> QED
      BY <1>0, <3>1 DEF LossExplained
  <2> QED
    BY <2>1, <2>2, <2>3
<1>10. CASE \/ HubStop \/ Uncongest \/ SocketCloses \/ SocketOpens \/ Start
            \/ \E m \in Items : SendNow(m) \/ RefuseUnserializable(m) \/ Overflow(m)
  BY <1>1, <1>10 DEF HubStop, Uncongest, SocketCloses, SocketOpens, Start, SendNow,
     RefuseUnserializable, Overflow, queueVars
<1> QED
  BY <1>3, <1>4, <1>5, <1>6, <1>7, <1>8, <1>9, <1>10
  DEF Next, EnqueueOrSend, HubOwner, ClientOwner

\* What was accepted is written, superseded by a newer status of its key, or
\* dropped for one of the reasons the code has; nothing else is ever lost.
THEOREM NothingLostQuietly == Spec => NoSilentDrop
<1>1. Init => Written
  BY DEF Init, Written, Range
<1> QED
  BY <1>1, NextWritten, NextExplainsLoss, Invariance, PTL DEF Spec, NoSilentDrop

=============================================================================
