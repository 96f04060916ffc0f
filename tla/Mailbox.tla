------------------------------- MODULE Mailbox -------------------------------
(***************************************************************************)
(* What an outbox promises, without bytes, timers or sockets: messages     *)
(* wait in a line and leave it from the front.  A message of a conflation  *)
(* class takes over the place of the one of its class that still waits;    *)
(* every other message goes to the back, or straight through when nobody   *)
(* waits.  Some messages can be withdrawn.  What was delivered stays       *)
(* delivered, in the order of the line.                                    *)
(***************************************************************************)
EXTENDS Naturals, Sequences, FiniteSets, Functions

CONSTANTS Messages, Class, Classless, Undeliverable

VARIABLES
    line,        \* the messages waiting
    delivered,   \* the messages handed over, in order
    known        \* the messages ever posted or refused

mailVars == <<line, delivered, known>>

\* The one sequence that lists, in order, the elements of s that are in keep.
InOrder(s, keep) ==
    LET P == {i \in DOMAIN s : s[i] \in keep}
        n == Cardinality(P)
        Increasing(f) == \A i, j \in 1..n : i < j => f[i] < f[j]
    IN  {[i \in 1..n |-> s[f[i]]] :
            f \in {g \in [1..n -> P] : Range(g) = P /\ Increasing(g)}}

New(m) == m \notin known /\ known' = known \cup {m}
Waits(m, i) == Class[m] # Classless /\ Class[line[i]] = Class[m]

PostThrough(m) ==
    /\ New(m)
    /\ line = <<>>
    /\ delivered' = Append(delivered, m)
    /\ UNCHANGED line

PostAtBack(m) ==
    /\ New(m)
    /\ \A i \in DOMAIN line : ~Waits(m, i)
    /\ line' = Append(line, m)
    /\ UNCHANGED delivered

TakeOver(m) ==
    /\ New(m)
    /\ \E i \in DOMAIN line :
         /\ Waits(m, i)
         /\ line' = [line EXCEPT ![i] = m]
    /\ UNCHANGED delivered

Refuse(m) == New(m) /\ UNCHANGED <<line, delivered>>

\* Some messages are withdrawn; of the others, some at the front are handed
\* over, except those that cannot be.
Release ==
    /\ \E gone \in SUBSET Messages :
         \E rest \in InOrder(line, Messages \ gone) :
           \E n \in 0..Len(rest) :
             /\ line' = SubSeq(rest, n + 1, Len(rest))
             /\ \E out \in InOrder(SubSeq(rest, 1, n), Messages \ Undeliverable) :
                  delivered' = delivered \o out
    /\ UNCHANGED known

Init == line = <<>> /\ delivered = <<>> /\ known = {}

Next ==
    \/ \E m \in Messages :
         PostThrough(m) \/ PostAtBack(m) \/ TakeOver(m) \/ Refuse(m)
    \/ Release

Spec == Init /\ [][Next]_mailVars
=============================================================================
