------------------------------ MODULE MCExchange ------------------------------
(* Small instances of Exchange. *)
EXTENDS Exchange

\* A success, a redirect that is not followed, one of either kind, a refusal.
MCCodes == {204, 304, 302, 307, 410}
=============================================================================
