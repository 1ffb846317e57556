------------------------------ MODULE Signature ------------------------------
(***************************************************************************)
(* internal/signature: what is signed, the header that carries the         *)
(* signatures, and the receiver's check.  Operators only.                  *)
(*                                                                         *)
(* A text is the sequence of the pieces between its dots, so that joining  *)
(* texts with a dot is joining the sequences; a timestamp in decimal is    *)
(* one piece.  An HMAC is the record of what it was computed over: two are *)
(* equal when the secret and the signed content are.  Header entries that  *)
(* are not "v1=" and base64 are one value, Malformed.  Timestamps and      *)
(* their difference are 64-bit integers in the code; here they run from    *)
(* -MaxInt - 1 to MaxInt.                                                  *)
(***************************************************************************)
EXTENDS Integers, Sequences

CONSTANTS
    MaxInt,             \* the largest timestamp
    DefaultTolerance    \* seconds

ASSUME IntAssumption == MaxInt \in Nat /\ DefaultTolerance \in 0..MaxInt

Malformed == [mac |-> FALSE]

\* id "." ts "." body.  Where the id ends is not part of it: another id, timestamp
\* and body can have the same content.
SignedContent(id, ts, body) == id \o <<ts>> \o body

Sign(secret, id, ts, body) ==
    [mac |-> TRUE, secret |-> secret, content |-> SignedContent(id, ts, body)]

\* A mistake: only the newest secret signs.
SignNewest(secrets, id, ts, body) == <<Sign(secrets[1], id, ts, body)>>

SignAll(secrets, id, ts, body) ==
    [i \in 1..Len(secrets) |-> Sign(secrets[i], id, ts, body)]

\* A mistake: only the first entry of the header is compared.
MatchesFirst(secrets, id, ts, header, body) ==
    \E i \in 1..Len(secrets) : header[1] = Sign(secrets[i], id, ts, body)

\* Some entry of the header was made with one of the secrets over this content.
Matches(secrets, id, ts, header, body) ==
    \E i \in 1..Len(secrets), j \in 1..Len(header) :
        header[j] = Sign(secrets[i], id, ts, body)

\* Verify returns nil.  One malformed entry refuses the whole header.
Verify(secrets, id, ts, header, body) ==
    /\ header # <<>>
    /\ \A j \in 1..Len(header) : header[j] # Malformed
    /\ Matches(secrets, id, ts, header, body)

\* The value of n, at most one subtraction or negation outside the range, in the
\* machine's arithmetic.
Wrap(n) ==
    IF n > MaxInt THEN n - 2 * (MaxInt + 1)
    ELSE IF n < -MaxInt - 1 THEN n + 2 * (MaxInt + 1)
    ELSE n

\* A mistake: a timestamp ahead of the receiver's clock counts as no skew.
SkewOfThePast(now, ts) == Wrap(now - ts)

Skew(now, ts) ==
    LET skew == Wrap(now - ts)
    IN  IF skew < 0 THEN Wrap(-skew) ELSE skew

\* A tolerance that is not positive selects the default.
Tolerance(tolerance) == IF tolerance <= 0 THEN DefaultTolerance ELSE tolerance

\* VerifyAt returns nil.
VerifyAt(secrets, id, ts, header, body, now, tolerance) ==
    /\ Skew(now, ts) <= Tolerance(tolerance)
    /\ Verify(secrets, id, ts, header, body)
=============================================================================
