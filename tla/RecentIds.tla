------------------------------- MODULE RecentIds -------------------------------
(***************************************************************************)
(* The replay windows: src/src/internal/recent.js, and the part of         *)
(* verifyEnvelope (src/src/internal/inbound-validate.js) that consults     *)
(* them.  One receiver, the hub or a client, keeps a window per sender.    *)
(*                                                                         *)
(* A message is signed once, with the time of its sender's clock, and may  *)
(* arrive any number of times at any later moment.  The receiver's clock   *)
(* is Date.now(): it moves forward by any amount, and may be set back.     *)
(* One verification is one step, but it reads the clock three times: for   *)
(* the skew check, in has() and in add(), and the clock may move between   *)
(* the readings.  A verification that fails changes nothing.  An           *)
(* rpc.response is never recorded: module Relay has what becomes of it.    *)
(***************************************************************************)
EXTENDS Integers, Sequences

CONSTANTS
    Messages,
    Peers,
    Sender,         \* the peer that signed a message
    Stamp,          \* its ts, the time of that peer's clock
    MaxAge,         \* replayWindowMs, which is also maxAgeMs of the windows
    MaxCount,       \* maxRecentIds
    MaxTime         \* bound of the model on the receiver's clock

ASSUME WindowAssumption ==
    /\ Sender \in [Messages -> Peers]
    /\ Stamp \in [Messages -> Nat]
    /\ MaxAge \in Nat \ {0}
    /\ MaxCount \in Nat \ {0}
    /\ MaxTime \in Nat

Time == 0 .. MaxTime

VARIABLES
    now,          \* Date.now() of the receiver
    window,       \* _peers: per sender its entries, in insertion order
    \* History, for the properties.
    steppedBack,  \* the receiver's clock was set back
    takenAt,      \* when each message was last accepted; -1 if never
    again,        \* messages accepted more than once
    untimely,     \* messages accepted with a ts ahead of the receiver's clock,
                  \* or when they had left the replay window by the time has()
                  \* read the clock
    lost          \* ids evicted by the cap or forgotten with their peer

clocks  == <<now, steppedBack>>
history == <<takenAt, again, untimely, lost>>
vars == <<clocks, window, history>>

-----------------------------------------------------------------------------
Ids(q) == {q[i].id : i \in DOMAIN q}

\* Mutant: an entry that is MaxAge old is gone.
Expired_OneEarly(e, t) == t - e.at >= MaxAge
Expired(e, t) == t - e.at > MaxAge

\* has(): an entry that is too old counts as absent, and is removed.
Has(q, m, t) == \E i \in DOMAIN q : q[i].id = m /\ ~Expired(q[i], t)

\* add(): entries are dropped from the front up to the first fresh one.
Prune(q, t) ==
    LET fresh == {i \in DOMAIN q : ~Expired(q[i], t)}
    IN  IF fresh = {} THEN <<>>
        ELSE LET first == CHOOSE i \in fresh : \A j \in fresh : i <= j
             IN  SubSeq(q, first, Len(q))

\* Mutant: the cap drops the newest entry.
Evict_Newest(q) == IF Len(q) >= MaxCount THEN SubSeq(q, 1, Len(q) - 1) ELSE q

\* The oldest entry makes room; a window never holds more than MaxCount.
Evict(q) == IF Len(q) >= MaxCount THEN Tail(q) ELSE q

\* What a full window may forget.
Oldest(q) == IF Len(q) >= MaxCount THEN {q[1].id} ELSE {}

\* The window without an entry of m, which has() removed if it was too old.
\* Mutant: it stays.
Without_Keeps(q, m) == q
Without(q, m) ==
    IF m \in Ids(q)
    THEN LET i == CHOOSE k \in DOMAIN q : q[k].id = m
         IN  SubSeq(q, 1, i - 1) \o SubSeq(q, i + 1, Len(q))
    ELSE q

Skew(m, t) == IF t >= Stamp[m] THEN t - Stamp[m] ELSE Stamp[m] - t
InWindow(m, t) == Skew(m, t) <= MaxAge

-----------------------------------------------------------------------------
Init ==
    /\ now \in Time
    /\ window = [p \in Peers |-> <<>>]
    /\ steppedBack = FALSE
    /\ takenAt = [m \in Messages |-> -1]
    /\ again = {} /\ untimely = {} /\ lost = {}

Passes(m, seen, added) ==
    /\ takenAt' = [takenAt EXCEPT ![m] = added]
    /\ again' = IF takenAt[m] # -1 THEN again \cup {m} ELSE again
    /\ untimely' = IF Stamp[m] <= added /\ InWindow(m, seen)
                   THEN untimely ELSE untimely \cup {m}

\* verifyEnvelope returns ok and the id is recorded: the skew check reads the
\* clock now, has() at seen and add() at added.
Accept(m, seen, added) ==
    /\ InWindow(m, now)
    /\ LET q == window[Sender[m]]
           kept == Prune(Without(q, m), added)
       IN  /\ ~Has(q, m, seen)
           /\ window' = [window EXCEPT ![Sender[m]] =
                            Append(Evict(kept), [id |-> m, at |-> added])]
           /\ lost' = lost \cup Oldest(kept)
    /\ Passes(m, seen, added)
    /\ now' = added
    /\ steppedBack' = (steppedBack \/ seen < now \/ added < seen)

\* forget(): the peer disconnected.
Forget(p) ==
    /\ window[p] # <<>>
    /\ lost' = lost \cup Ids(window[p])
    /\ window' = [window EXCEPT ![p] = <<>>]
    /\ UNCHANGED <<clocks, takenAt, again, untimely>>

TimePasses ==
    /\ now' \in {t \in Time : t > now}
    /\ UNCHANGED <<steppedBack, window, history>>

ClockStepsBack ==
    /\ now' \in {t \in Time : t < now}
    /\ steppedBack' = TRUE
    /\ UNCHANGED <<window, history>>

Next ==
    \/ \E m \in Messages, seen, added \in Time : Accept(m, seen, added)
    \/ \E p \in Peers : Forget(p)
    \/ TimePasses
    \/ ClockStepsBack

Spec == Init /\ [][Next]_vars

-----------------------------------------------------------------------------
(***************************************************************************)
(* Properties.                                                             *)
(***************************************************************************)
Entry == [id : Messages, at : Time]

\* A window lists ids of its own peer, each once, and never more than the cap
\* (RecentIds, PeerRecentIds).
TypeOK ==
    /\ now \in Time
    /\ window \in [Peers -> Seq(Entry)]
    /\ \A p \in Peers : Len(window[p]) <= MaxCount
    /\ \A p \in Peers : \A i, j \in DOMAIN window[p] :
          /\ Sender[window[p][i].id] = p
          /\ window[p][i].id = window[p][j].id => i = j
    /\ steppedBack \in BOOLEAN
    /\ takenAt \in [Messages -> Time \cup {-1}]
    /\ again \subseteq Messages /\ untimely \subseteq Messages /\ lost \subseteq Messages

\* A copy of a message that arrives late is not taken for a new one: by the
\* time the window has dropped the id, the message itself is too old.  This
\* needs a clock that is never set back, a ts that was not ahead of it, and
\* an id that neither the cap nor a disconnect made the window lose.  And it
\* needs both to be judged by one time, which the code does not see to: a copy
\* that passes the skew check and is too old by the next reading of the clock
\* finds its id just expired and is taken again, and a message is excepted
\* once that has happened to it (verifyEnvelope, has, add).
AcceptedOnce ==
    \A m \in Messages \ (untimely \cup lost) :
        ~steppedBack => m \notin again

\* A window has every id of its peer that was accepted within MaxAge before
\* now, whatever was pruned and removed since, unless the clock was set back or
\* the cap or a disconnect took it (has and add drop only what they find
\* expired).
RecentRemembered ==
    \A m \in Messages \ lost :
        ~steppedBack /\ takenAt[m] # -1 /\ now - takenAt[m] <= MaxAge
            => m \in Ids(window[Sender[m]])
=============================================================================
