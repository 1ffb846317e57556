------------------------------ MODULE MCDeliver ------------------------------
(* Small instances of Deliver. *)
EXTENDS Deliver

\* No retry; retries at once only; a retry at once and one later.
MCSchedules == {<<>>, <<0, 0>>, <<0, 1>>}
=============================================================================
