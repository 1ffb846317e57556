----------------------------- MODULE DurableLog -----------------------------
(***************************************************************************)
(* What a write-ahead log promises the commands above it.  An operation is *)
(* written once, then acknowledged; whatever a crash takes away, it is     *)
(* never an acknowledged operation, nor one that a surviving operation was *)
(* written after.                                                          *)
(***************************************************************************)
CONSTANT Ops

VARIABLES
    written,   \* the operations a reopen would replay
    acked,     \* the operations reported as done
    base       \* per operation: what was in the log when it was written

vars == <<written, acked, base>>

Init ==
    /\ written = {}
    /\ acked = {}
    /\ base = [op \in Ops |-> {}]

Write(op) ==
    /\ op \notin written
    /\ written' = written \cup {op}
    /\ base' = [base EXCEPT ![op] = written]
    /\ UNCHANGED acked

\* A write that never reaches the log at all.
Miss(op) ==
    /\ op \notin written
    /\ base' = [base EXCEPT ![op] = written]
    /\ UNCHANGED <<written, acked>>

Ack(op) ==
    /\ op \in written
    /\ acked' = acked \cup {op}
    /\ UNCHANGED <<written, base>>

Lose(left) ==
    /\ acked \subseteq left
    /\ \A op \in left : base[op] \subseteq left
    /\ written' = left
    /\ UNCHANGED <<acked, base>>

Next ==
    \/ \E op \in Ops : Write(op) \/ Miss(op) \/ Ack(op)
    \/ \E left \in SUBSET written : Lose(left)

Spec == Init /\ [][Next]_vars
=============================================================================
