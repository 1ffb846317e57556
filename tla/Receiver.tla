------------------------------- MODULE Receiver -------------------------------
(***************************************************************************)
(* The verify package and the sign and verify commands: one request that   *)
(* somebody signed, as it arrives, and what the handler or the command     *)
(* makes of it.                                                            *)
(*                                                                         *)
(* A header may be absent and a timestamp may not be a number; a body may  *)
(* exceed what the receiver reads.  The signer is the engine or the sign   *)
(* command; what arrives may differ from what was signed in any fields, as *)
(* an intermediary may leave it.  Ids and bodies are texts, in pieces: an  *)
(* id that newMessageID drew has one piece, an id that arrives may have    *)
(* more.                                                                   *)
(***************************************************************************)
EXTENDS Signature

CONSTANTS
    Secrets,     \* signing secrets
    Pieces,      \* what can stand between two dots
    Ids,         \* what a request may name as its message
    Bodies,      \* request bodies
    TooLong,     \* those beyond the receiver's limit
    None,        \* an absent header
    NotANumber,  \* a timestamp header that does not parse
    Times,       \* readings of the receiver's clock, in seconds
    Stamps,      \* timestamps
    Tolerances   \* what Options.Tolerance or --tolerance may be

\* What is absent or no number is not an id or a timestamp.
ASSUME HeaderAssumption == None \notin Ids /\ {None, NotANumber} \cap Stamps = {}

ASSUME TextAssumption == Ids \cup Bodies \subseteq Seq(Pieces)

\* ParseTimestamp refuses what is not an int64, and a tolerance is one.
ASSUME RangeAssumption == Times \cup Stamps \cup Tolerances \subseteq -MaxInt - 1..MaxInt

VARIABLES
    sent,       \* the request as it was signed
    request,    \* the request as it arrives
    known,      \* the secrets the receiver accepts, its own first
    tolerance,
    clock,      \* the receiver's, at the check
    verdict     \* what became of it

receiverVars == <<sent, request, known, tolerance, clock, verdict>>

Request(id, ts, header, body) == [id |-> id, ts |-> ts, header |-> header, body |-> body]

SecretLists == {<<a>> : a \in Secrets} \cup {<<a, b>> : a \in Secrets, b \in Secrets}

Signed(secrets, id, ts, body) == Request(id, ts, SignAll(secrets, id, ts, body), body)

\* The engine signs with all the endpoint's secrets, the command with one.
ReceiverInit ==
    /\ \E secrets \in SecretLists, id \in Ids, ts \in Stamps, body \in Bodies :
          sent = Signed(secrets, id, ts, body)
    /\ request = sent
    /\ known \in SecretLists
    /\ tolerance \in Tolerances
    /\ clock \in Times
    /\ verdict = "none"

-----------------------------------------------------------------------------
\* What arrives has any id, timestamp and body, together with what was signed, with
\* less of it or with more.
Arrivals ==
    [id : Ids \cup {None}, ts : Stamps \cup {None, NotANumber},
     header : {<<>>, <<sent.header[1]>>, sent.header, Append(sent.header, Malformed)},
     body : Bodies]

Arrive ==
    /\ verdict = "none" /\ request = sent
    /\ request' \in Arrivals
    /\ UNCHANGED <<sent, known, tolerance, clock, verdict>>

\* verify.Request: every header there, the timestamp a number, the body in full.
Complete == request.id # None /\ request.ts \notin {None, NotANumber} /\ request.header # <<>>

Authentic(secrets, r, now) ==
    VerifyAt(secrets, r.id, r.ts, r.header, r.body, now, tolerance)

\* Handler: next runs for what Request accepts, the rest is answered 401.
Handle ==
    /\ verdict = "none"
    /\ verdict' = IF Complete /\ request.body \notin TooLong /\ Authentic(known, request, clock)
                  THEN "handled" ELSE "unauthorized"
    /\ UNCHANGED <<sent, request, known, tolerance, clock>>

\* `hookmill verify` with one secret and a tolerance; what it cannot use as an
\* argument is a usage error, what it cannot read a runtime error.
VerifyCommand ==
    /\ verdict = "none" /\ Len(known) = 1
    /\ verdict' =
          IF ~Complete THEN "exit 2"
          ELSE IF request.body \in TooLong THEN "exit 3"
          ELSE IF Authentic(known, request, clock) THEN "exit 0" ELSE "exit 1"
    /\ UNCHANGED <<sent, request, known, tolerance, clock>>

\* --tolerance none.
VerifyUntimed ==
    /\ verdict = "none" /\ Len(known) = 1
    /\ Complete /\ request.body \notin TooLong
    /\ verdict' =
          IF Verify(known, request.id, request.ts, request.header, request.body)
          THEN "untimed 0" ELSE "untimed 1"
    /\ UNCHANGED <<sent, request, known, tolerance, clock>>

ReceiverNext == Arrive \/ Handle \/ VerifyCommand \/ VerifyUntimed

ReceiverSpec == ReceiverInit /\ [][ReceiverNext]_receiverVars

-----------------------------------------------------------------------------
Distance(a, b) == IF a > b THEN a - b ELSE b - a

InTime == Distance(clock, request.ts) <= Tolerance(tolerance)

\* The two times are further apart than an int64 holds.
Overflows == Distance(clock, request.ts) > MaxInt

Content(r) == SignedContent(r.id, r.ts, r.body)

SharedSecret ==
    \E i \in 1..Len(known), j \in 1..Len(sent.header) : sent.header[j].secret = known[i]

Accepted == verdict \in {"handled", "exit 0"}

(***************************************************************************)
(* Whatever the receiver accepts has the content that was signed, with a   *)
(* secret it knows.  signature.go and signing.md say that a body cannot be *)
(* replayed under a different id or at a different time: so it is where    *)
(* the id that arrives has as many dots as the one that was signed (the    *)
(* engine's have none); the receiver does not look.  What is accepted with *)
(* a tolerance has a timestamp within it, or one so far off that the       *)
(* distance is no int64.                                                   *)
(***************************************************************************)
AcceptedWasSent ==
    Accepted \/ verdict = "untimed 0" =>
        /\ SharedSecret
        /\ Content(request) = Content(sent)
        /\ Len(request.id) = Len(sent.id) => [request EXCEPT !.header = sent.header] = sent
        /\ verdict # "untimed 0" => InTime \/ Overflows

(***************************************************************************)
(* What arrives as it was signed is accepted when it is in time and one    *)
(* of its secrets is known, in either half of a rotation; the verify       *)
(* command and the handler agree on it.                                    *)
(***************************************************************************)
SentIsAccepted ==
    request = sent /\ sent.body \notin TooLong /\ SharedSecret /\ InTime
        => verdict \notin {"unauthorized", "exit 1", "exit 2", "exit 3", "untimed 1"}
=============================================================================
