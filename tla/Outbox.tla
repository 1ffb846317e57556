------------------------------- MODULE Outbox -------------------------------
(***************************************************************************)
(* What a durable webhook queue promises its user about each message,      *)
(* without log, schedule or endpoints: a message accepted is waiting until *)
(* one attempt delivers it, which is final, or until it is set aside as    *)
(* dead, by using up its attempts or by a cancellation; a dead message may *)
(* be queued again with all its attempts.                                  *)
(***************************************************************************)
EXTENDS Naturals

CONSTANT Ids

VARIABLES
    status,   \* per id: "none", "pending", "delivered" or "dead"
    fails,    \* per id: failed attempts since it was last queued
    budget    \* attempts a message gets each time it is queued

vars == <<status, fails, budget>>

Init ==
    /\ status = [id \in Ids |-> "none"]
    /\ fails = [id \in Ids |-> 0]
    /\ budget \in Nat \ {0}

Accept(id) ==
    /\ status[id] = "none"
    /\ status' = [status EXCEPT ![id] = "pending"]
    /\ UNCHANGED <<fails, budget>>

Deliver(id) ==
    /\ status[id] = "pending"
    /\ status' = [status EXCEPT ![id] = "delivered"]
    /\ fails' = [fails EXCEPT ![id] = 0]
    /\ UNCHANGED budget

Fail(id) ==
    /\ status[id] = "pending"
    /\ fails' = [fails EXCEPT ![id] = fails[id] + 1]
    /\ status' = [status EXCEPT ![id] =
                    IF fails[id] + 1 < budget THEN "pending" ELSE "dead"]
    /\ UNCHANGED budget

Cancel(set) ==
    /\ \A id \in set : status[id] = "pending"
    /\ status' = [id \in Ids |-> IF id \in set THEN "dead" ELSE status[id]]
    /\ UNCHANGED <<fails, budget>>

Requeue(set) ==
    /\ \A id \in set : status[id] = "dead"
    /\ status' = [id \in Ids |-> IF id \in set THEN "pending" ELSE status[id]]
    /\ fails' = [id \in Ids |-> IF id \in set THEN 0 ELSE fails[id]]
    /\ UNCHANGED budget

Next ==
    \/ \E id \in Ids : Accept(id) \/ Deliver(id) \/ Fail(id)
    \/ \E set \in SUBSET Ids : Cancel(set) \/ Requeue(set)

Spec == Init /\ [][Next]_vars
=============================================================================
