------------------------------- MODULE MCStore -------------------------------
(* Small instances of Store. *)
EXTENDS Store

\* No retry, or one after a minute and one after an hour.
MCSchedules == {<<>>, <<60, 3600>>}

\* The view of the runs about messages: their properties read st only, and no
\* step of st depends on the log while MaxLog is out of reach.
Memory == st

\* Sets whose elements are interchangeable.
Symmetry == Permutations(Ids) \cup Permutations(Names) \cup Permutations(Secrets)
=============================================================================
