------------------------------ MODULE MCOutbox ------------------------------
(* Small instances of Outbox: two statuses of one key, and two messages    *)
(* without a key.                                                          *)
EXTENDS Outbox, TLC

CONSTANTS s1, s2, r, d

MCItems == {s1, s2, r, d}
MCSize == [m \in Items |-> IF m \in {d, s2} THEN 2 ELSE 1]
MCKey  == [m \in Items |-> IF m \in {s1, s2} THEN "status.update" ELSE NoKey]
=============================================================================
