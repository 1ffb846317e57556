------------------------------- MODULE Exchange -------------------------------
(***************************************************************************)
(* One attempt of the engine on the wire: the POST, the redirects that     *)
(* cmdDeliver's http.Client follows, its timeout, which runs until the     *)
(* answer's body is read, and the verdict attempt makes of it.             *)
(*                                                                         *)
(* A server may answer anything, or never; nothing is assumed of it.       *)
(***************************************************************************)
EXTENDS Integers

CONSTANTS
    Urls,
    Endpoint,       \* the URL the operator configured
    NoUrl,          \* an answer without a Location
    Codes,          \* the statuses servers answer with
    MaxRequests     \* how many requests the client makes before it gives up

ASSUME ExchangeAssumption ==
    /\ Endpoint \in Urls /\ NoUrl \notin Urls
    /\ Codes \subseteq 100..599
    /\ MaxRequests \in Nat \ {0}

VARIABLES
    pc,
    method, url,    \* the request under way
    requests,       \* made so far
    direct,         \* what the endpoint answered the POST, 0 while it has not
    status, doErr,  \* of the attempt
    outcome

exchangeVars == <<pc, method, url, requests, direct, status, doErr, outcome>>

ExchangeInit ==
    /\ pc = "asking"
    /\ method = "POST" /\ url = Endpoint /\ requests = 1
    /\ direct = 0 /\ status = 0 /\ doErr = FALSE
    /\ outcome = "none"

-----------------------------------------------------------------------------
SeeOther == {301, 302, 303}

SameAgain == {307, 308}

Redirected(code, location) == code \in SeeOther \cup SameAgain /\ location # NoUrl

SawAnswer(code) == direct' = IF requests = 1 THEN code ELSE direct

Follow(code, location) ==
    /\ pc = "asking"
    /\ Redirected(code, location)
    /\ requests < MaxRequests
    /\ requests' = requests + 1
    /\ url' = location
    /\ method' = IF code \in SeeOther THEN "GET" ELSE method
    /\ SawAnswer(code)
    /\ UNCHANGED <<pc, status, doErr, outcome>>

Give(err) == pc' = "record" /\ doErr' = err

TooManyRedirects(code, location) ==
    /\ pc = "asking"
    /\ Redirected(code, location)
    /\ requests = MaxRequests
    /\ Give(TRUE)
    /\ SawAnswer(code)
    /\ UNCHANGED <<method, url, requests, status, outcome>>

Answer(code, location) ==
    /\ pc = "asking"
    /\ ~Redirected(code, location)
    /\ status' = code
    /\ pc' = "draining"
    /\ SawAnswer(code)
    /\ UNCHANGED <<method, url, requests, doErr, outcome>>

\* No connection, a connection that breaks before the answer, a bad Location.
Break ==
    /\ pc = "asking"
    /\ Give(TRUE)
    /\ UNCHANGED <<method, url, requests, direct, status, outcome>>

\* The body ends, breaks off or is longer than maxResponseBody.
Drained ==
    /\ pc = "draining"
    /\ Give(FALSE)
    /\ UNCHANGED <<method, url, requests, direct, status, outcome>>

\* A mistake: the timeout ends with the answer's header.
ExpireBeforeAnswer ==
    /\ pc = "asking"
    /\ Give(TRUE)
    /\ UNCHANGED <<method, url, requests, direct, status, outcome>>

\* A mistake: an answer whose body stalls is an error.
ExpireFails ==
    /\ pc \in {"asking", "draining"}
    /\ Give(TRUE)
    /\ UNCHANGED <<method, url, requests, direct, status, outcome>>

\* --timeout, more than zero: an error to Do, and nothing to attempt once Do has
\* returned and the body is being read.
Expire ==
    /\ pc \in {"asking", "draining"}
    /\ Give(pc = "asking")
    /\ UNCHANGED <<method, url, requests, direct, status, outcome>>

Accepted == ~doErr /\ status \in 200..299

Record ==
    /\ pc = "record"
    /\ pc' = "recorded"
    /\ outcome' = IF Accepted THEN "delivered" ELSE "failed"
    /\ UNCHANGED <<method, url, requests, direct, status, doErr>>

Server ==
    \/ \E code \in Codes, location \in Urls \cup {NoUrl} :
          \/ Follow(code, location) \/ TooManyRedirects(code, location)
          \/ Answer(code, location)
    \/ Break \/ Drained

ExchangeNext == Server \/ Expire \/ Record

\* The timer fires and the engine goes on; the servers need not.
ExchangeFairness == WF_exchangeVars(Expire) /\ WF_exchangeVars(Record)

ExchangeSpec == ExchangeInit /\ [][ExchangeNext]_exchangeVars /\ ExchangeFairness

-----------------------------------------------------------------------------
(***************************************************************************)
(* An attempt ends whatever the servers do: one that never answers, an     *)
(* answer whose body never ends, redirects in a circle.                    *)
(***************************************************************************)
AttemptEnds == <>(outcome # "none")

(***************************************************************************)
(* An attempt is recorded as delivered exactly when the answer that ended  *)
(* it was 2xx: a body that stalls or breaks off afterwards does not turn   *)
(* it into a retry, and what a redirect answered before does not count.    *)
(***************************************************************************)
AnswerStands ==
    outcome # "none" => (outcome = "delivered" <=> status \in 200..299)

(***************************************************************************)
(* docs/signing.md, what hookmill expects of a receiver: "Anything else    *)
(* (including 3xx) makes hookmill retry on its backoff schedule."          *)
(***************************************************************************)
RedirectRetried == direct \in 300..399 => outcome # "delivered"
=============================================================================
