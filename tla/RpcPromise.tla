------------------------------ MODULE RpcPromise ------------------------------
(***************************************************************************)
(* What link.rpc() promises: a call settles once, as fulfilled only after  *)
(* its handler has returned, and its handler runs at most once.  A call    *)
(* may fail at any time, and its handler may run although it has failed.   *)
(***************************************************************************)
CONSTANT Calls

VARIABLES
    outcome,    \* of the promise: "new", "pending", "fulfilled", "rejected"
    handler     \* "none", "running", "returned"

promise == <<outcome, handler>>

PromiseInit ==
    /\ outcome = [c \in Calls |-> "new"]
    /\ handler = [c \in Calls |-> "none"]

Make(c) ==
    /\ outcome[c] = "new"
    /\ outcome' = [outcome EXCEPT ![c] = "pending"]
    /\ UNCHANGED handler

\* A call that was not even sent fails at once; a lost link fails them all.
Fail(failed) ==
    /\ \A c \in failed : outcome[c] \in {"new", "pending"}
    /\ outcome' = [c \in Calls |-> IF c \in failed THEN "rejected" ELSE outcome[c]]
    /\ UNCHANGED handler

Fulfil(c) ==
    /\ outcome[c] = "pending" /\ handler[c] = "returned"
    /\ outcome' = [outcome EXCEPT ![c] = "fulfilled"]
    /\ UNCHANGED handler

Run(c) ==
    /\ outcome[c] # "new" /\ handler[c] = "none"
    /\ handler' = [handler EXCEPT ![c] = "running"]
    /\ UNCHANGED outcome

Return(c) ==
    /\ handler[c] = "running"
    /\ handler' = [handler EXCEPT ![c] = "returned"]
    /\ UNCHANGED outcome

PromiseNext ==
    \/ \E c \in Calls : Make(c) \/ Fulfil(c) \/ Run(c) \/ Return(c)
    \/ \E failed \in SUBSET Calls : Fail(failed)

PromiseSpec == PromiseInit /\ [][PromiseNext]_promise
=============================================================================
