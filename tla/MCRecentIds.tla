----------------------------- MODULE MCRecentIds -----------------------------
(* RecentIds for TLC: three messages of one peer, signed at different times.  *)
(* The windows of several peers are separate; the proofs are about all.      *)
EXTENDS RecentIds

CONSTANTS alice, m1, m2, m3

MCMessages == {m1, m2, m3}
MCSender == [m \in MCMessages |-> alice]
MCStamp == [m \in MCMessages |-> CASE m = m1 -> 1 [] m = m2 -> 2 [] OTHER -> 3]
=============================================================================
