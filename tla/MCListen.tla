------------------------------- MODULE MCListen -------------------------------
(* Small instances of Listen. *)
EXTENDS Listen, TLC

Symmetry == Permutations(Genuine) \cup Permutations(Requests \ Genuine)
=============================================================================
