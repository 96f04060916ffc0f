---------------------------- MODULE RecentIdsProofs ----------------------------
(***************************************************************************)
(* Theorems about RecentIds, for any messages, clocks, window and cap.     *)
(*                                                                         *)
(* Neither property is inductive: that a late copy fails the skew check    *)
(* rests on when the first one was accepted, and that a window has an id   *)
(* on what each loop of add() leaves in it.  Remembered says where the     *)
(* entry of an accepted message is, and with what time.                    *)
(***************************************************************************)
EXTENDS RecentIds, SequenceTheorems, WellFoundedInduction, TLAPS

Windows == window \in [Peers -> Seq(Entry)]

Times ==
    /\ now \in Time
    /\ takenAt \in [Messages -> Time \cup {-1}]

In(q, m, t) == \E i \in DOMAIN q : q[i] = [id |-> m, at |-> t]

\* While the clock has only moved forward, a message that was accepted and not
\* lost was accepted in the past, and its entry is there for MaxAge.
Remembered ==
    ~steppedBack =>
        \A m \in Messages \ lost :
            takenAt[m] # -1 =>
                /\ takenAt[m] <= now
                /\ now - takenAt[m] <= MaxAge => In(window[Sender[m]], m, takenAt[m])

\* A message that was never untimely was signed before it was recorded.
SignedBefore ==
    \A m \in Messages \ untimely : takenAt[m] # -1 => Stamp[m] <= takenAt[m]

IInv == Windows /\ Times /\ Remembered /\ SignedBefore /\ AcceptedOnce

-----------------------------------------------------------------------------
\* has(): what is not the id looked for stays.
LEMMA WithoutKeeps ==
  ASSUME NEW q \in Seq(Entry), NEW m,
         NEW i \in DOMAIN q, q[i].id # m
  PROVE  /\ Without(q, m) \in Seq(Entry)
         /\ \E j \in DOMAIN Without(q, m) : Without(q, m)[j] = q[i]
<1>1. CASE m \notin Ids(q)
  BY <1>1 DEF Without
<1>2. CASE m \in Ids(q)
  <2> DEFINE k == CHOOSE n \in DOMAIN q : q[n].id = m
  <2>1. k \in DOMAIN q /\ q[k].id = m
    BY <1>2 DEF Ids
  <2>2. Without(q, m) = SubSeq(q, 1, k - 1) \o SubSeq(q, k + 1, Len(q))
    BY <1>2 DEF Without
  <2> HIDE DEF k
  <2>3. i # k /\ k \in 1 .. Len(q) /\ i \in 1 .. Len(q) /\ Len(q) \in Nat
    BY <2>1
  <2>4. /\ SubSeq(q, 1, k - 1) \in Seq(Entry) /\ Len(SubSeq(q, 1, k - 1)) = k - 1
        /\ SubSeq(q, k + 1, Len(q)) \in Seq(Entry)
        /\ Len(SubSeq(q, k + 1, Len(q))) = Len(q) - k
    BY <2>3
  <2>5. CASE i < k
    <3>1. i \in 1 .. (k - 1) /\ SubSeq(q, 1, k - 1)[i] = q[i]
      BY <2>3, <2>5
    <3> QED
      BY <2>2, <2>4, <3>1
  <2>6. CASE i > k
    <3> DEFINE a == SubSeq(q, 1, k - 1)
               b == SubSeq(q, k + 1, Len(q))
    <3>1. i - k \in 1 .. Len(b) /\ b[i - k] = q[i]
      BY <2>3, <2>4, <2>6
    <3>2. a \in Seq(Entry) /\ b \in Seq(Entry)
      BY <2>4
    <3>3. Without(q, m) = a \o b
      BY <2>2
    <3> HIDE DEF a, b
    <3>4. Len(a) + (i - k) \in DOMAIN (a \o b) /\ (a \o b)[Len(a) + (i - k)] = b[i - k]
      BY <3>1, <3>2
    <3>5. a \o b \in Seq(Entry)
      BY <3>2
    <3> QED
      BY <3>1, <3>3, <3>4, <3>5
  <2> QED
    BY <2>3, <2>5, <2>6
<1> QED
  BY <1>1, <1>2

\* Without a matching entry or with one, the window stays a sequence of entries.
LEMMA WithoutType ==
  ASSUME NEW q \in Seq(Entry), NEW m PROVE Without(q, m) \in Seq(Entry)
<1>1. CASE m \notin Ids(q)
  BY <1>1 DEF Without
<1>2. CASE m \in Ids(q)
  <2> DEFINE k == CHOOSE n \in DOMAIN q : q[n].id = m
  <2>1. k \in 1 .. Len(q)
    BY <1>2 DEF Ids
  <2>2. Without(q, m) = SubSeq(q, 1, k - 1) \o SubSeq(q, k + 1, Len(q))
    BY <1>2 DEF Without
  <2> HIDE DEF k
  <2>3. SubSeq(q, 1, k - 1) \in Seq(Entry) /\ SubSeq(q, k + 1, Len(q)) \in Seq(Entry)
    BY <2>1
  <2> QED
    BY <2>2, <2>3
<1> QED
  BY <1>1, <1>2

\* add(): pruning removes expired entries only.
LEMMA PruneKeepsFresh ==
  ASSUME NEW q \in Seq(Entry), NEW t
  PROVE  /\ Prune(q, t) \in Seq(Entry)
         /\ \A i \in DOMAIN q :
               ~Expired(q[i], t) => \E j \in DOMAIN Prune(q, t) : Prune(q, t)[j] = q[i]
<1> DEFINE fresh == {i \in DOMAIN q : ~Expired(q[i], t)}
<1>1. CASE fresh = {}
  BY <1>1 DEF Prune
<1>2. CASE fresh # {}
  <2> DEFINE first == CHOOSE i \in fresh : \A j \in fresh : i <= j
  <2>1. \E i \in fresh : \A j \in fresh : i <= j
    <3>1. fresh \subseteq Nat /\ fresh # {}
      BY <1>2
    <3>2. PICK i \in fresh : \A j \in fresh : <<j, i>> \notin OpToRel(<, Nat)
      BY <3>1, WFMin, NatLessThanWellFounded
    <3>3. \A j \in fresh : ~(j < i)
      BY <3>1, <3>2 DEF OpToRel
    <3> QED
      BY <3>1, <3>3
  <2>2. first \in fresh /\ \A j \in fresh : first <= j
    BY <2>1
  <2>3. Prune(q, t) = SubSeq(q, first, Len(q))
    BY <1>2 DEF Prune
  <2>4. first \in 1 .. Len(q)
    BY <2>2
  <2> HIDE DEF first
  <2>5. Prune(q, t) \in Seq(Entry) /\ Len(Prune(q, t)) = Len(q) - first + 1
    BY <2>3, <2>4
  <2>6. ASSUME NEW i \in fresh PROVE \E j \in DOMAIN Prune(q, t) : Prune(q, t)[j] = q[i]
    <3>1. i \in 1 .. Len(q) /\ first <= i
      BY <2>2
    <3>2. i - first + 1 \in 1 .. Len(Prune(q, t)) /\ Prune(q, t)[i - first + 1] = q[i]
      BY <2>3, <2>4, <2>5, <3>1
    <3> QED
      BY <2>5, <3>2
  <2> QED
    BY <2>5, <2>6
<1> QED
  BY <1>1, <1>2

\* add(): only the oldest entry makes room for a new one.
LEMMA EvictKeepsRest ==
  ASSUME NEW q \in Seq(Entry)
  PROVE  /\ Evict(q) \in Seq(Entry)
         /\ \A i \in DOMAIN q :
               q[i].id \notin Oldest(q) => \E j \in DOMAIN Evict(q) : Evict(q)[j] = q[i]
<1>1. CASE Len(q) >= MaxCount
  <2>1. q # <<>> /\ Evict(q) = Tail(q) /\ Oldest(q) = {q[1].id}
    BY <1>1, WindowAssumption DEF WindowAssumption, Evict, Oldest
  <2>2. Tail(q) \in Seq(Entry) /\ Len(Tail(q)) = Len(q) - 1
    BY <2>1
  <2>3. ASSUME NEW i \in DOMAIN q, q[i].id \notin {q[1].id}
        PROVE  \E j \in DOMAIN Tail(q) : Tail(q)[j] = q[i]
    <3>1. i \in 1 .. Len(q) /\ i # 1
      BY <2>3
    <3>2. i - 1 \in 1 .. Len(Tail(q)) /\ Tail(q)[i - 1] = q[i]
      BY <2>1, <2>2, <3>1
    <3> QED
      BY <2>2, <3>2
  <2> QED
    BY <2>1, <2>2, <2>3
<1>2. CASE ~(Len(q) >= MaxCount)
  BY <1>2 DEF Evict
<1> QED
  BY <1>1, <1>2

\* What add() has not dropped is in the window it leaves, and so is the new id.
LEMMA AddKeeps ==
  ASSUME NEW q \in Seq(Entry), NEW m \in Messages, NEW t \in Time, NEW n, NEW s,
         In(q, n, s), n # m, ~Expired([id |-> n, at |-> s], t),
         n \notin Oldest(Prune(Without(q, m), t))
  PROVE  In(Append(Evict(Prune(Without(q, m), t)), [id |-> m, at |-> t]), n, s)
<1> DEFINE e == [id |-> n, at |-> s]
           w == Without(q, m)
           k == Prune(w, t)
<1>1. \E j \in DOMAIN w : w[j] = e
  <2>1. PICK i \in DOMAIN q : q[i] = e
    BY DEF In
  <2> QED
    BY <2>1, WithoutKeeps
<1>2. w \in Seq(Entry)
  BY WithoutType
<1> HIDE DEF w
<1>3. k \in Seq(Entry) /\ \E j \in DOMAIN k : k[j] = e
  <2>1. PICK i \in DOMAIN w : w[i] = e
    BY <1>1
  <2>2. /\ Prune(w, t) \in Seq(Entry)
        /\ ~Expired(w[i], t) => \E j \in DOMAIN Prune(w, t) : Prune(w, t)[j] = w[i]
    BY <1>2, PruneKeepsFresh
  <2> QED
    BY <2>1, <2>2
<1> HIDE DEF k
<1>4. Evict(k) \in Seq(Entry) /\ \E j \in DOMAIN Evict(k) : Evict(k)[j] = e
  <2>1. e.id \notin Oldest(k)
    BY DEF k, w
  <2> QED
    BY <1>3, <2>1, EvictKeepsRest
<1>5. [id |-> m, at |-> t] \in Entry
  BY DEF Entry
<1>6. \E j \in DOMAIN Append(Evict(k), [id |-> m, at |-> t]) :
         Append(Evict(k), [id |-> m, at |-> t])[j] = e
  BY <1>4, <1>5
<1> QED
  BY <1>6 DEF In, k, w

\* The window add() leaves is a sequence of entries that ends with the new one.
LEMMA AddType ==
  ASSUME NEW q \in Seq(Entry), NEW m \in Messages, NEW t \in Time
  PROVE  LET r == Append(Evict(Prune(Without(q, m), t)), [id |-> m, at |-> t])
         IN  r \in Seq(Entry) /\ In(r, m, t)
<1> DEFINE k == Evict(Prune(Without(q, m), t))
<1>1. k \in Seq(Entry)
  <2>1. Without(q, m) \in Seq(Entry)
    BY WithoutType
  <2>2. Prune(Without(q, m), t) \in Seq(Entry)
    BY <2>1, PruneKeepsFresh
  <2> QED
    BY <2>2, EvictKeepsRest
<1> HIDE DEF k
<1>2. [id |-> m, at |-> t] \in Entry
  BY DEF Entry
<1>3. /\ Append(k, [id |-> m, at |-> t]) \in Seq(Entry)
      /\ Len(k) + 1 \in DOMAIN Append(k, [id |-> m, at |-> t])
      /\ Append(k, [id |-> m, at |-> t])[Len(k) + 1] = [id |-> m, at |-> t]
  BY <1>1, <1>2
<1> QED
  BY <1>3 DEF In, k

-----------------------------------------------------------------------------
\* Nothing was accepted yet.
LEMMA InitIInv == Init => IInv
  BY DEF Init, IInv, Windows, Times, Remembered, SignedBefore, AcceptedOnce, Entry

\* Accepting a message keeps the invariant; that it was not accepted before,
\* unless untimely or lost, is where the skew check and the window meet.
LEMMA AcceptKeepsIInv ==
  ASSUME NEW m \in Messages, NEW seen \in Time, NEW added \in Time
  PROVE  IInv /\ Accept(m, seen, added) => IInv'
<1> SUFFICES ASSUME IInv, Accept(m, seen, added) PROVE IInv'
  OBVIOUS
<1> DEFINE p == Sender[m]
           q == window[p]
           k == Prune(Without(q, m), added)
           r == Append(Evict(k), [id |-> m, at |-> added])
<1>0. p \in Peers /\ q \in Seq(Entry) /\ MaxAge \in Nat /\ Stamp[m] \in Nat
  BY WindowAssumption DEF WindowAssumption, IInv, Windows
<1>1. /\ now \in Time /\ Time \subseteq Nat
      /\ takenAt \in [Messages -> Time \cup {-1}]
  BY WindowAssumption DEF IInv, Times, WindowAssumption, Time
<1>2. /\ window' = [window EXCEPT ![p] = r]
      /\ lost' = lost \cup Oldest(k)
      /\ ~Has(q, m, seen)
      /\ takenAt' = [takenAt EXCEPT ![m] = added]
      /\ again' = IF takenAt[m] # -1 THEN again \cup {m} ELSE again
      /\ untimely' = IF Stamp[m] <= added /\ InWindow(m, seen)
                     THEN untimely ELSE untimely \cup {m}
      /\ now' = added
  BY DEF Accept, Passes
<1>3. r \in Seq(Entry) /\ In(r, m, added)
  <2>1. q \in Seq(Entry)
    BY <1>0
  <2> HIDE DEF p, q
  <2> QED
    BY <2>1, AddType
<1>4. /\ now \in Nat /\ seen \in Nat /\ added \in Nat
      /\ \A n \in Messages : takenAt[n] \in Nat \cup {-1}
  BY <1>1
<1>5. ~steppedBack' => ~steppedBack /\ now <= seen /\ seen <= added
  <2>1. ~steppedBack' => ~steppedBack /\ ~(seen < now) /\ ~(added < seen)
    BY Zenon DEF Accept
  <2> QED
    BY <1>4, <2>1
<1> HIDE DEF p, q, k, r
<1>6. Windows'
  BY <1>0, <1>2, <1>3 DEF IInv, Windows
<1>7. Times'
  BY <1>1, <1>2 DEF Times
<1>8. Remembered'
  <2> SUFFICES ASSUME ~steppedBack', NEW n \in Messages, n \notin lost', takenAt'[n] # -1
               PROVE  /\ takenAt'[n] <= added
                      /\ added - takenAt'[n] <= MaxAge
                            => In(window'[Sender[n]], n, takenAt'[n])
    BY <1>2 DEF Remembered
  <2>1. CASE n = m
    <3>1. window'[p] = r /\ takenAt'[m] = added
      BY <1>0, <1>1, <1>2 DEF IInv, Windows
    <3> QED
      BY <1>3, <1>4, <2>1, <3>1 DEF p
  <2>2. CASE n # m
    <3>1. takenAt'[n] = takenAt[n] /\ n \notin lost /\ takenAt[n] \in Nat
      BY <1>1, <1>2, <1>4, <2>2
    <3>2. /\ takenAt[n] <= now
          /\ now - takenAt[n] <= MaxAge => In(window[Sender[n]], n, takenAt[n])
      BY <1>5, <3>1 DEF IInv, Remembered
    <3>3. /\ takenAt[n] <= added
          /\ added - takenAt[n] <= MaxAge => now - takenAt[n] <= MaxAge
      BY <1>0, <1>4, <1>5, <3>1, <3>2
    <3>4. CASE Sender[n] = p /\ added - takenAt[n] <= MaxAge
      <4>1. In(q, n, takenAt[n])
        BY <3>2, <3>3, <3>4 DEF q
      <4>2. ~Expired([id |-> n, at |-> takenAt[n]], added)
        BY <1>0, <1>4, <3>1, <3>4 DEF Expired
      <4>3. n \notin Oldest(Prune(Without(q, m), added))
        BY <1>2 DEF k
      <4>4. In(r, n, takenAt[n])
        BY <1>0, <2>2, <4>1, <4>2, <4>3, AddKeeps DEF r, k
      <4>5. window'[p] = r
        BY <1>0, <1>2 DEF IInv, Windows
      <4> QED
        BY <3>1, <3>3, <3>4, <4>4, <4>5
    <3>5. CASE Sender[n] # p
      <4>1. window'[Sender[n]] = window[Sender[n]]
        BY <1>2, <3>5, WindowAssumption DEF IInv, Windows, WindowAssumption
      <4> QED
        BY <3>1, <3>2, <3>3, <4>1
    <3>6. CASE ~(added - takenAt[n] <= MaxAge)
      BY <3>1, <3>3, <3>6
    <3> QED
      BY <3>4, <3>5, <3>6
  <2> QED
    BY <2>1, <2>2
<1>9. SignedBefore'
  <2> SUFFICES ASSUME NEW n \in Messages, n \notin untimely', takenAt'[n] # -1
               PROVE  Stamp[n] <= takenAt'[n]
    BY DEF SignedBefore
  <2>1. CASE n = m
    BY <1>0, <1>1, <1>2, <2>1
  <2>2. CASE n # m
    <3>1. takenAt'[n] = takenAt[n] /\ n \notin untimely
      BY <1>1, <1>2, <2>2
    <3> QED
      BY <3>1 DEF IInv, SignedBefore
  <2> QED
    BY <2>1, <2>2
<1>10. AcceptedOnce'
  <2> SUFFICES ASSUME ~steppedBack', NEW n \in Messages, n \notin untimely', n \notin lost'
               PROVE  n \notin again'
    BY DEF AcceptedOnce
  <2>1. n \notin untimely /\ n \notin lost /\ ~steppedBack
    BY <1>2, <1>5
  <2>2. n \notin again
    BY <2>1 DEF IInv, AcceptedOnce
  <2>3. CASE n = m /\ takenAt[m] # -1
    <3>1. takenAt[m] \in Nat /\ takenAt[m] <= now /\ Stamp[m] <= takenAt[m]
      BY <1>4, <2>1, <2>3 DEF IInv, Remembered, SignedBefore
    <3>2. ~(seen - takenAt[m] <= MaxAge)
      <4>1. SUFFICES ASSUME seen - takenAt[m] <= MaxAge PROVE FALSE
        OBVIOUS
      <4>2. now - takenAt[m] <= MaxAge
        BY <1>0, <1>4, <1>5, <3>1, <4>1
      <4>3. In(q, m, takenAt[m])
        BY <2>1, <2>3, <4>2 DEF IInv, Remembered, q, p
      <4>4. PICK i \in DOMAIN q : q[i] = [id |-> m, at |-> takenAt[m]]
        BY <4>3 DEF In
      <4>5. q[i].id = m /\ ~Expired(q[i], seen)
        BY <1>0, <1>4, <3>1, <4>1, <4>4 DEF Expired
      <4> QED
        BY <1>2, <4>5 DEF Has
    <3>3. seen - Stamp[m] > MaxAge /\ seen >= Stamp[m]
      BY <1>0, <1>4, <1>5, <3>1, <3>2
    <3>4. ~InWindow(m, seen)
      BY <1>0, <1>4, <3>3 DEF InWindow, Skew
    <3> QED
      BY <1>2, <2>3, <3>4
  <2>4. CASE ~(n = m /\ takenAt[m] # -1)
    BY <1>2, <2>2, <2>4
  <2> QED
    BY <2>3, <2>4
<1> QED
  BY <1>6, <1>7, <1>8, <1>9, <1>10 DEF IInv

\* A peer that leaves takes its window along, and its ids are lost.
LEMMA ForgetKeepsIInv == ASSUME NEW p \in Peers PROVE IInv /\ Forget(p) => IInv'
<1> SUFFICES ASSUME IInv, Forget(p) PROVE IInv'
  OBVIOUS
<1>1. /\ lost' = lost \cup Ids(window[p])
      /\ window' = [window EXCEPT ![p] = <<>>]
      /\ UNCHANGED <<now, steppedBack, takenAt, again, untimely>>
  BY DEF Forget, clocks
<1>2. Windows'
  BY <1>1 DEF IInv, Windows
<1>3. Remembered'
  <2> SUFFICES ASSUME ~steppedBack, NEW n \in Messages, n \notin lost', takenAt[n] # -1
               PROVE  /\ takenAt[n] <= now
                      /\ now - takenAt[n] <= MaxAge
                            => In(window'[Sender[n]], n, takenAt[n])
    BY <1>1 DEF Remembered
  <2>1. n \notin lost /\ n \notin Ids(window[p])
    BY <1>1
  <2>2. /\ takenAt[n] <= now
        /\ now - takenAt[n] <= MaxAge => In(window[Sender[n]], n, takenAt[n])
    BY <2>1 DEF IInv, Remembered
  <2>3. CASE Sender[n] = p
    <3>1. ~In(window[p], n, takenAt[n])
      BY <2>1 DEF In, Ids
    <3> QED
      BY <2>2, <2>3, <3>1
  <2>4. CASE Sender[n] # p
    <3>1. window'[Sender[n]] = window[Sender[n]]
      BY <1>1, <2>4, WindowAssumption DEF IInv, Windows, WindowAssumption
    <3> QED
      BY <2>2, <3>1
  <2> QED
    BY <2>3, <2>4
<1>4. Times' /\ SignedBefore' /\ AcceptedOnce'
  BY <1>1 DEF IInv, Times, SignedBefore, AcceptedOnce
<1> QED
  BY <1>2, <1>3, <1>4 DEF IInv

\* The clock moves; a window that is not consulted does not.
LEMMA ClockKeepsIInv == IInv /\ (TimePasses \/ ClockStepsBack) => IInv'
<1> SUFFICES ASSUME IInv, TimePasses \/ ClockStepsBack PROVE IInv'
  OBVIOUS
<1>1. /\ UNCHANGED <<window, takenAt, again, untimely, lost>>
      /\ now' \in Time
      /\ steppedBack \/ steppedBack' \/ now' > now
      /\ steppedBack => steppedBack'
  BY DEF TimePasses, ClockStepsBack, history
<1>2. /\ now \in Nat /\ now' \in Nat /\ MaxAge \in Nat
      /\ \A n \in Messages : takenAt[n] \in Nat \cup {-1}
  BY <1>1, WindowAssumption DEF IInv, Times, Time, WindowAssumption
<1>3. Remembered'
  <2> SUFFICES ASSUME ~steppedBack', NEW n \in Messages, n \notin lost, takenAt[n] # -1
               PROVE  /\ takenAt[n] <= now'
                      /\ now' - takenAt[n] <= MaxAge
                            => In(window[Sender[n]], n, takenAt[n])
    BY <1>1 DEF Remembered
  <2>1. ~steppedBack /\ now' > now
    BY <1>1
  <2>2. /\ takenAt[n] <= now
        /\ now - takenAt[n] <= MaxAge => In(window[Sender[n]], n, takenAt[n])
    BY <2>1 DEF IInv, Remembered
  <2>3. takenAt[n] \in Nat
    BY <1>2
  <2> QED
    BY <1>2, <2>1, <2>2, <2>3
<1>4. Windows' /\ Times' /\ SignedBefore' /\ AcceptedOnce'
  BY <1>1 DEF IInv, Windows, Times, SignedBefore, AcceptedOnce
<1> QED
  BY <1>3, <1>4 DEF IInv

\* Every reachable state satisfies the invariant.
THEOREM Invariance == Spec => []IInv
<1>1. IInv /\ [Next]_vars => IInv'
  <2>1. IInv /\ UNCHANGED vars => IInv'
    BY DEF vars, clocks, history, IInv, Windows, Times, Remembered, SignedBefore, AcceptedOnce, In
  <2> QED
    BY <2>1, AcceptKeepsIInv, ForgetKeepsIInv, ClockKeepsIInv DEF Next
<1> QED
  BY InitIInv, <1>1, PTL DEF Spec

\* No late copy of a message is accepted as a new one, under the conditions
\* AcceptedOnce names.
THEOREM NeverTwice == Spec => []AcceptedOnce
BY Invariance, PTL DEF IInv

\* A window has every id it should still have.
THEOREM WindowsRemember == Spec => []RecentRemembered
<1>1. IInv => RecentRemembered
  <2> SUFFICES ASSUME IInv, ~steppedBack, NEW m \in Messages, m \notin lost,
                      takenAt[m] # -1, now - takenAt[m] <= MaxAge
               PROVE  m \in Ids(window[Sender[m]])
    BY DEF RecentRemembered
  <2>1. In(window[Sender[m]], m, takenAt[m])
    BY DEF IInv, Remembered
  <2> QED
    BY <2>1 DEF In, Ids
<1> QED
  BY Invariance, <1>1, PTL

-----------------------------------------------------------------------------
(* What a window looks like: an id of the wrong peer, an id twice, or an   *)
(* entry too many would each be a flaw of what has() and add() take out.   *)

ListOf(q, p) ==
    /\ q \in Seq(Entry)
    /\ \A i, j \in DOMAIN q :
          /\ Sender[q[i].id] = p
          /\ q[i].id = q[j].id => i = j

\* What both loops at the front leave: the end of the list.
LEMMA SuffixIsList ==
  ASSUME NEW q, NEW p, ListOf(q, p), NEW a \in 1 .. Len(q) + 1
  PROVE  LET r == SubSeq(q, a, Len(q))
         IN  ListOf(r, p) /\ Len(r) = Len(q) - a + 1 /\ Ids(r) \subseteq Ids(q)
<1> DEFINE r == SubSeq(q, a, Len(q))
<1>1. q \in Seq(Entry) /\ Len(q) \in Nat /\ DOMAIN q = 1 .. Len(q)
  BY DEF ListOf
<1>2. /\ r \in Seq(Entry) /\ Len(r) = Len(q) - a + 1 /\ DOMAIN r = 1 .. (Len(q) - a + 1)
      /\ \A i \in 1 .. (Len(q) - a + 1) : r[i] = q[i + a - 1]
  BY <1>1
<1> HIDE DEF r
<1>3. ASSUME NEW i \in DOMAIN r
      PROVE  i \in Int /\ i + a - 1 \in DOMAIN q /\ r[i] = q[i + a - 1]
  <2>1. i \in 1 .. (Len(q) - a + 1)
    BY <1>2
  <2>2. i + a - 1 \in 1 .. Len(q)
    BY <1>1, <2>1
  <2> QED
    BY <1>1, <1>2, <2>1, <2>2
<1>4. Ids(r) \subseteq Ids(q)
  BY <1>3 DEF Ids
<1>5. ASSUME NEW i \in DOMAIN r, NEW j \in DOMAIN r
      PROVE  Sender[r[i].id] = p /\ (r[i].id = r[j].id => i = j)
  BY <1>3 DEF ListOf
<1> QED
  BY <1>2, <1>4, <1>5, Zenon DEF ListOf, r

\* add(): pruning leaves the end of the list.
LEMMA PruneIsList ==
  ASSUME NEW q, NEW p, ListOf(q, p), NEW t
  PROVE  ListOf(Prune(q, t), p) /\ Len(Prune(q, t)) <= Len(q) /\ Ids(Prune(q, t)) \subseteq Ids(q)
<1> DEFINE fresh == {i \in DOMAIN q : ~Expired(q[i], t)}
<1>0. q \in Seq(Entry) /\ Len(q) \in Nat
  BY DEF ListOf
<1>1. CASE fresh = {}
  <2>1. Prune(q, t) = <<>>
    BY <1>1 DEF Prune
  <2> QED
    BY <1>0, <2>1 DEF ListOf, Ids
<1>2. CASE fresh # {}
  <2> DEFINE first == CHOOSE i \in fresh : \A j \in fresh : i <= j
  <2>1. \E i \in fresh : \A j \in fresh : i <= j
    <3>1. fresh \subseteq Nat /\ fresh # {}
      BY <1>0, <1>2
    <3>2. PICK i \in fresh : \A j \in fresh : <<j, i>> \notin OpToRel(<, Nat)
      BY <3>1, WFMin, NatLessThanWellFounded
    <3>3. \A j \in fresh : ~(j < i)
      BY <3>1, <3>2 DEF OpToRel
    <3> QED
      BY <3>1, <3>3
  <2>2. first \in 1 .. Len(q)
    BY <1>0, <2>1
  <2>3. Prune(q, t) = SubSeq(q, first, Len(q))
    BY <1>2 DEF Prune
  <2> HIDE DEF first
  <2> QED
    BY <1>0, <2>2, <2>3, SuffixIsList
<1> QED
  BY <1>1, <1>2

\* add(): there is room for one more.
LEMMA EvictMakesRoom ==
  ASSUME NEW q, NEW p, ListOf(q, p), Len(q) <= MaxCount
  PROVE  ListOf(Evict(q), p) /\ Len(Evict(q)) < MaxCount /\ Ids(Evict(q)) \subseteq Ids(q)
<1>0. q \in Seq(Entry) /\ Len(q) \in Nat /\ MaxCount \in Nat \ {0}
  BY WindowAssumption DEF ListOf, WindowAssumption
<1>1. CASE Len(q) >= MaxCount
  <2>1. Evict(q) = SubSeq(q, 2, Len(q)) /\ 2 \in 1 .. Len(q) + 1
    BY <1>0, <1>1 DEF Evict
  <2> QED
    BY <1>0, <2>1, SuffixIsList
<1>2. CASE ~(Len(q) >= MaxCount)
  BY <1>0, <1>2 DEF Evict
<1> QED
  BY <1>1, <1>2

\* has() has removed the id looked for, wherever it was.
LEMMA WithoutIsList ==
  ASSUME NEW q, NEW p, ListOf(q, p), NEW m
  PROVE  /\ ListOf(Without(q, m), p)
         /\ Len(Without(q, m)) <= Len(q)
         /\ m \notin Ids(Without(q, m))
<1>0. q \in Seq(Entry) /\ Len(q) \in Nat /\ DOMAIN q = 1 .. Len(q)
  BY DEF ListOf
<1>1. CASE m \notin Ids(q)
  BY <1>0, <1>1 DEF Without
<1>2. CASE m \in Ids(q)
  <2> DEFINE k == CHOOSE n \in DOMAIN q : q[n].id = m
             a == SubSeq(q, 1, k - 1)
             b == SubSeq(q, k + 1, Len(q))
             w == Without(q, m)
             at(i) == IF i < k THEN i ELSE i + 1
  <2>1. k \in 1 .. Len(q) /\ q[k].id = m
    BY <1>0, <1>2 DEF Ids
  <2>2. w = a \o b
    BY <1>2 DEF Without
  <2> HIDE DEF k, w
  <2>3. /\ a \in Seq(Entry) /\ Len(a) = k - 1 /\ DOMAIN a = 1 .. (k - 1)
        /\ b \in Seq(Entry) /\ Len(b) = Len(q) - k
        /\ \A i \in 1 .. (k - 1) : a[i] = q[i]
        /\ \A i \in 1 .. (Len(q) - k) : b[i] = q[i + k]
    <3>1. /\ a \in Seq(Entry) /\ Len(a) = k - 1 /\ DOMAIN a = 1 .. (k - 1)
          /\ \A i \in 1 .. (k - 1) : a[i] = q[i]
      BY <1>0, <2>1
    <3>2. /\ b \in Seq(Entry) /\ Len(b) = Len(q) - k
          /\ \A i \in 1 .. (Len(q) - k) : b[i] = q[i + k]
      <4>1. k \in Nat /\ k + 1 \in 1 .. Len(q) + 1 /\ Len(q) \in (k + 1) - 1 .. Len(q)
        BY <1>0, <2>1
      <4>2. /\ b \in Seq(Entry)
            /\ Len(b) = IF k + 1 <= Len(q) THEN Len(q) - (k + 1) + 1 ELSE 0
            /\ \A i \in 1 .. Len(q) - (k + 1) + 1 : b[i] = q[(k + 1) + i - 1]
        <5>1. k + 1 \in Int /\ Len(q) \in Int
          BY <1>0, <4>1
        <5>2. \A i \in k + 1 .. Len(q) : q[i] \in Entry
          BY <1>0, <4>1
        <5> QED
          BY <5>1, <5>2, SubSeqProperties
      <4> HIDE DEF b
      <4>3. ASSUME NEW i \in 1 .. (Len(q) - k) PROVE b[i] = q[i + k]
        <5>1. (k + 1) + i - 1 = i + k /\ i \in 1 .. Len(q) - (k + 1) + 1
          BY <1>0, <4>1
        <5> QED
          BY <4>2, <5>1
      <4>4. Len(b) = Len(q) - k
        <5>1. k <= Len(q) /\ k \in Int /\ Len(q) \in Int
          BY <1>0, <2>1
        <5> QED
          BY <4>2, <5>1
      <4> QED
        BY <4>2, <4>3, <4>4
    <3> QED
      BY <3>1, <3>2
  <2> HIDE DEF a, b
  <2>4. /\ w \in Seq(Entry) /\ Len(w) = Len(q) - 1 /\ DOMAIN w = 1 .. (Len(q) - 1)
        /\ \A i \in 1 .. (k - 1) : w[i] = a[i]
        /\ \A i \in k .. (Len(q) - 1) : w[i] = b[i - (k - 1)]
    <3>1. w \in Seq(Entry) /\ Len(w) = Len(a) + Len(b)
      BY <2>2, <2>3, ConcatProperties
    <3>2. \A i \in 1 .. Len(a) + Len(b) :
             w[i] = IF i <= Len(a) THEN a[i] ELSE b[i - Len(a)]
      BY <2>2, <2>3, ConcatProperties
    <3>3. Len(a) + Len(b) = Len(q) - 1
      BY <1>0, <2>1, <2>3
    <3>4. \A i \in 1 .. (k - 1) : i \in 1 .. Len(a) + Len(b) /\ i <= Len(a)
      BY <1>0, <2>1, <2>3
    <3>5. ASSUME NEW i \in k .. (Len(q) - 1) PROVE w[i] = b[i - (k - 1)]
      <4>1. i \in 1 .. Len(a) + Len(b) /\ ~(i <= Len(a)) /\ Len(a) = k - 1
        BY <1>0, <2>1, <2>3
      <4> QED
        BY <3>2, <4>1
    <3>6. DOMAIN w = 1 .. (Len(q) - 1)
      BY <3>1, <3>3
    <3> QED
      BY <3>1, <3>2, <3>3, <3>4, <3>5, <3>6
  <2>5. ASSUME NEW i \in DOMAIN w
        PROVE  i \in Int /\ at(i) \in DOMAIN q /\ at(i) # k /\ w[i] = q[at(i)]
    <3>1. CASE i < k
      BY <1>0, <2>1, <2>3, <2>4, <3>1
    <3>2. CASE ~(i < k)
      <4>1. i \in k .. (Len(q) - 1) /\ i - (k - 1) \in 1 .. (Len(q) - k)
        BY <1>0, <2>1, <2>4, <3>2
      <4>2. w[i] = b[i - (k - 1)] /\ b[i - (k - 1)] = q[i - (k - 1) + k]
        BY <2>3, <2>4, <4>1
      <4>3. i - (k - 1) + k = i + 1
        BY <2>1, <4>1
      <4> QED
        BY <1>0, <2>1, <3>2, <4>1, <4>2, <4>3
    <3> QED
      BY <3>1, <3>2
  <2>6. ASSUME NEW i \in DOMAIN w, NEW j \in DOMAIN w
        PROVE  Sender[w[i].id] = p /\ (w[i].id = w[j].id => i = j)
    <3>1. w[i].id = w[j].id => at(i) = at(j)
      BY <2>5 DEF ListOf
    <3>2. at(i) = at(j) => i = j
      BY <2>1, <2>5
    <3> QED
      BY <2>5, <3>1, <3>2 DEF ListOf
  <2>7. m \notin Ids(w)
    BY <1>0, <2>1, <2>5 DEF ListOf, Ids
  <2> QED
    BY <1>0, <2>4, <2>6, <2>7 DEF ListOf, w
<1> QED
  BY <1>1, <1>2

\* A new id at the end of a list that has room.
LEMMA AppendIsList ==
  ASSUME NEW q, NEW p, ListOf(q, p), Len(q) < MaxCount,
         NEW m \in Messages, Sender[m] = p, m \notin Ids(q), NEW t \in Time
  PROVE  LET r == Append(q, [id |-> m, at |-> t]) IN ListOf(r, p) /\ Len(r) <= MaxCount
<1> DEFINE e == [id |-> m, at |-> t]
           r == Append(q, e)
<1>1. q \in Seq(Entry) /\ Len(q) \in Nat /\ DOMAIN q = 1 .. Len(q) /\ MaxCount \in Nat
  BY WindowAssumption DEF ListOf, WindowAssumption
<1>2. e \in Entry /\ e.id = m
  BY DEF Entry
<1> HIDE DEF e
<1>3. /\ r \in Seq(Entry) /\ Len(r) = Len(q) + 1 /\ DOMAIN r = 1 .. (Len(q) + 1)
      /\ \A i \in 1 .. Len(q) : r[i] = q[i]
      /\ r[Len(q) + 1] = e
  BY <1>1, <1>2
<1> HIDE DEF r
<1>4. \A i \in 1 .. Len(q) : q[i].id # m /\ Sender[q[i].id] = p
  BY <1>1 DEF ListOf, Ids
<1>5. ASSUME NEW i \in DOMAIN r, NEW j \in DOMAIN r
      PROVE  Sender[r[i].id] = p /\ (r[i].id = r[j].id => i = j)
  <2>1. i \in 1 .. Len(q) \/ i = Len(q) + 1
    BY <1>1, <1>3
  <2>2. j \in 1 .. Len(q) \/ j = Len(q) + 1
    BY <1>1, <1>3
  <2>3. CASE i \in 1 .. Len(q) /\ j \in 1 .. Len(q)
    BY <1>1, <1>3, <2>3 DEF ListOf
  <2>4. CASE i = Len(q) + 1 \/ j = Len(q) + 1
    BY <1>2, <1>3, <1>4, <2>1, <2>2, <2>4
  <2> QED
    BY <2>1, <2>2, <2>3, <2>4
<1> QED
  BY <1>1, <1>3, <1>5 DEF ListOf, r, e

\* A window lists ids of its own peer, each once, and never more than the cap.
THEOREM TypeCorrect == Spec => []TypeOK
<1> USE WindowAssumption DEF WindowAssumption
<1>1. Init => TypeOK
  <2> SUFFICES ASSUME Init PROVE TypeOK
    OBVIOUS
  <2>1. <<>> \in Seq(Entry) /\ Len(<<>>) = 0 /\ DOMAIN <<>> = {}
    OBVIOUS
  <2>2. \A p \in Peers : window[p] = <<>>
    BY DEF Init
  <2>3. window \in [Peers -> Seq(Entry)]
    BY <2>1 DEF Init
  <2>4. \A p \in Peers : Len(window[p]) <= MaxCount /\ DOMAIN window[p] = {}
    BY <2>1, <2>2
  <2>5. steppedBack \in BOOLEAN
    BY Zenon DEF Init
  <2> QED
    BY <2>3, <2>4, <2>5 DEF Init, TypeOK
<1>2. ASSUME TypeOK, [Next]_vars PROVE TypeOK'
  <2>0. \A p \in Peers : ListOf(window[p], p) /\ Len(window[p]) <= MaxCount
    BY <1>2 DEF TypeOK, ListOf
  <2>1. ASSUME \A p \in Peers : ListOf(window'[p], p) /\ Len(window'[p]) <= MaxCount,
               DOMAIN window' = Peers, window' = [p \in Peers |-> window'[p]]
        PROVE  /\ window' \in [Peers -> Seq(Entry)]
               /\ \A p \in Peers : Len(window'[p]) <= MaxCount
               /\ \A p \in Peers : \A i, j \in DOMAIN window'[p] :
                     /\ Sender[window'[p][i].id] = p
                     /\ window'[p][i].id = window'[p][j].id => i = j
    BY <2>1 DEF ListOf
  <2>2. ASSUME NEW m \in Messages, NEW seen \in Time, NEW added \in Time,
               Accept(m, seen, added)
        PROVE  TypeOK'
    <3> DEFINE p == Sender[m]
               q == window[p]
               w == Without(q, m)
               k == Prune(w, added)
               v == Evict(k)
               r == Append(v, [id |-> m, at |-> added])
    <3> HIDE DEF p, q, w, k, v, r
    <3>1. /\ window' = [window EXCEPT ![p] = r]
          /\ lost' = lost \cup Oldest(k)
          /\ takenAt' = [takenAt EXCEPT ![m] = added]
          /\ again' \subseteq again \cup {m} /\ untimely' \subseteq untimely \cup {m}
          /\ now' = added
      BY <2>2 DEF Accept, Passes, p, q, w, k, v, r
    <3>12. steppedBack' \in BOOLEAN
      BY <2>2, Zenon DEF Accept
    <3>2. p \in Peers
      BY <1>2 DEF TypeOK, p
    <3>. ListOf(q, p)
      BY <2>0, <3>2 DEF q
    <3>3. ListOf(w, p) /\ Len(w) <= Len(q) /\ m \notin Ids(w)
      BY WithoutIsList DEF w
    <3>4. ListOf(k, p) /\ Len(k) <= Len(w) /\ m \notin Ids(k)
      BY <3>3, PruneIsList DEF k
    <3>5. Len(k) \in Nat /\ Len(w) \in Nat /\ Len(q) \in Nat /\ Len(q) <= MaxCount
      BY <2>0, <3>2, <3>3, <3>4 DEF ListOf, q
    <3>6. ListOf(v, p) /\ Len(v) < MaxCount /\ m \notin Ids(v)
      <4>1. Len(k) <= MaxCount
        BY <3>3, <3>4, <3>5
      <4> QED
        BY <3>4, <4>1, EvictMakesRoom DEF v
    <3>7. ListOf(r, p) /\ Len(r) <= MaxCount
      BY <3>2, <3>6, AppendIsList DEF r, p
    <3>8. Oldest(k) \subseteq Messages
      <4>1. CASE Len(k) >= MaxCount
        <5>1. 1 \in DOMAIN k /\ k \in Seq(Entry)
          BY <3>4, <3>5, <4>1 DEF ListOf
        <5>2. k[1] \in Entry
          BY <5>1
        <5> QED
          BY <5>2 DEF Oldest, Entry
      <4> QED
        BY <4>1 DEF Oldest
    <3>9. /\ \A x \in Peers : window'[x] = IF x = p THEN r ELSE window[x]
          /\ window' = [x \in Peers |-> window'[x]]
      BY <1>2, <3>1 DEF TypeOK
    <3>10. \A x \in Peers : ListOf(window'[x], x) /\ Len(window'[x]) <= MaxCount
      BY <2>0, <3>7, <3>9
    <3>11. takenAt' \in [Messages -> Time \cup {-1}]
      BY <1>2, <3>1 DEF TypeOK
    <3> QED
      BY <1>2, <2>1, <3>1, <3>8, <3>9, <3>10, <3>11, <3>12 DEF TypeOK
  <2>3. ASSUME NEW p \in Peers, Forget(p) PROVE TypeOK'
    <3>1. /\ \A x \in Peers : window'[x] = IF x = p THEN <<>> ELSE window[x]
          /\ window' = [x \in Peers |-> window'[x]]
          /\ lost' = lost \cup Ids(window[p])
          /\ UNCHANGED <<now, steppedBack, takenAt, again, untimely>>
      BY <1>2, <2>3 DEF Forget, TypeOK, clocks
    <3>2. ListOf(<<>>, p) /\ Len(<<>>) <= MaxCount
      BY DEF ListOf
    <3>3. Ids(window[p]) \subseteq Messages
      <4>1. window[p] \in Seq(Entry)
        BY <2>0 DEF ListOf
      <4>2. ASSUME NEW i \in DOMAIN window[p] PROVE window[p][i].id \in Messages
        <5>1. window[p][i] \in Entry
          BY <4>1
        <5> QED
          BY <5>1 DEF Entry
      <4> QED
        BY <4>2 DEF Ids
    <3>4. \A x \in Peers : ListOf(window'[x], x) /\ Len(window'[x]) <= MaxCount
      BY <2>0, <3>1, <3>2
    <3> QED
      BY <1>2, <2>1, <3>1, <3>3, <3>4 DEF TypeOK
  <2>4. CASE TimePasses \/ ClockStepsBack \/ UNCHANGED vars
    <3>1. /\ now' \in Time
          /\ UNCHANGED <<window, takenAt, again, untimely, lost>>
          /\ steppedBack' = steppedBack \/ steppedBack' = TRUE
      BY <1>2, <2>4 DEF TimePasses, ClockStepsBack, vars, clocks, history, TypeOK
    <3>2. steppedBack' \in BOOLEAN
      BY <1>2, <3>1, Zenon DEF TypeOK
    <3> QED
      BY <1>2, <3>1, <3>2 DEF TypeOK
  <2> QED
    BY <1>2, <2>2, <2>3, <2>4 DEF Next
<1> QED
  BY <1>1, <1>2, PTL DEF Spec
=============================================================================
