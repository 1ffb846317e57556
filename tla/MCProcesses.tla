----------------------------- MODULE MCProcesses -----------------------------
(* Small instances of Processes. *)
EXTENDS Processes, TLC

Free == [turns |-> FALSE, torn |-> FALSE, ops |-> 4, rewrites |-> 0, cuts |-> 0]

\* Appends that overlap; the same with all that a kill and a half-done read can do;
\* that again, and compactions, for a user who is careful.
MCUses ==
    {Free,
     [Free EXCEPT !.torn = TRUE, !.ops = 3, !.cuts = 1],
     [Free EXCEPT !.turns = TRUE, !.torn = TRUE, !.cuts = 1],
     [Free EXCEPT !.turns = TRUE, !.rewrites = 2]}

MCFree == {Free}

Symmetry ==
    Permutations(Appenders) \cup Permutations(Compacters) \cup Permutations(Readers)
=============================================================================
