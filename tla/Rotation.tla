------------------------------- MODULE Rotation -------------------------------
(***************************************************************************)
(* A secret rotation: the endpoint's secrets in the store, deliver runs    *)
(* that sign one message with the secrets they opened the store with, the  *)
(* operator, and Receiver, which checks with what it was configured with   *)
(* and answers 2xx to what it accepts.  Receiver's properties, Accepted-   *)
(* WasSent and SentIsAccepted, are properties of every request here.       *)
(*                                                                         *)
(* The operator does what `endpoint rotate` prints: switch the receiver to *)
(* the new secret, then rotate again.  A rotation can end after its record *)
(* is in the log and before the secret is printed, by a failed fsync or a  *)
(* kill; the operator then looks the secret up before the next.  Commands  *)
(* that write take turns: a rotation waits for the run to end, or finds it *)
(* killed, its request still on the way (Processes has what comes of       *)
(* writers that overlap).  Every request is signed at SentAt: time is      *)
(* counted from the signature of the request under way.                    *)
(***************************************************************************)
EXTENDS Receiver, SequencesExt

CONSTANTS
    Names, Name,  \* endpoints, and the one whose secret is rotated
    Id, Body,     \* the message
    First,        \* the endpoint's first secret
    SentAt,       \* the timestamp of a request
    Offsets,      \* what the receiver's clock may be ahead of the sender's
    MaxDelays,    \* bound: seconds requests spend under way, in all
    MaxChanges,   \* bound: requests changed on the way
    MaxKills      \* bound: runs killed

ASSUME MessageAssumption ==
    Name \in Names /\ First \in Secrets /\ Id \in Ids /\ Body \in Bodies \ TooLong

\* Times has every reading of the receiver's clock.
ASSUME ClockAssumption ==
    /\ SentAt \in Stamps /\ Offsets \subseteq Int /\ MaxDelays \in Nat
    /\ \A ahead \in Offsets, delay \in 0..MaxDelays : SentAt + ahead + delay \in Times

VARIABLES
    st,           \* the store
    drawn,        \* secrets drawn so far
    printed,      \* the last secret the operator was shown
    unprinted,    \* has a rotation since then failed
    held,         \* the secrets of the deliver run under way; <<>> when none is
    delivered,    \* has an attempt been recorded as delivered
    offset,       \* the receiver's clock less the sender's
    delays, changes, kills

Store == INSTANCE StoreState

operatorVars == <<st, drawn, printed, unprinted>>
bounded == <<delays, changes, kills>>
vars == <<operatorVars, held, delivered, offset, receiverVars, bounded>>

NoRequest == Request(None, None, <<>>, None)

UnderWay == sent # NoRequest

EndpointSecrets == st.endpoints[Name]

Init ==
    /\ st = Store!Apply(Store!NewStore, Store!EndpointAddRec(Name, First))
    /\ drawn = {First} /\ printed = First /\ unprinted = FALSE
    /\ held = <<>> /\ delivered = FALSE
    /\ sent = NoRequest /\ request = NoRequest /\ verdict = "none"
    /\ known = <<First>> /\ tolerance \in Tolerances
    /\ offset \in Offsets /\ clock = SentAt + offset
    /\ delays = 0 /\ changes = 0 /\ kills = 0

-----------------------------------------------------------------------------
(***************************************************************************)
(* The operator.                                                           *)
(***************************************************************************)
Switched == known[1] = printed

RotateRecord(secret) ==
    /\ held = <<>>
    /\ Switched /\ ~unprinted
    /\ secret \notin drawn
    /\ drawn' = drawn \cup {secret}
    /\ st' = Store!Apply(st, Store!EndpointRotateRec(Name, secret))
    /\ UNCHANGED <<held, delivered, offset, receiverVars, bounded>>

Rotate(secret) == RotateRecord(secret) /\ printed' = secret /\ UNCHANGED unprinted

RotateUnprinted(secret) == RotateRecord(secret) /\ unprinted' = TRUE /\ UNCHANGED printed

\* `endpoint list --show-secrets`
ListSecrets ==
    /\ unprinted
    /\ printed' = EndpointSecrets[1] /\ unprinted' = FALSE
    /\ UNCHANGED <<st, drawn, held, delivered, offset, receiverVars, bounded>>

\* Options.Secrets keeps the old secret, or the receiver knows one only.  A check
\* is done with the one configuration or the other.
Switch ==
    /\ ~Switched /\ verdict = "none"
    /\ known' \in {<<printed>>, <<printed, known[1]>>}
    /\ UNCHANGED <<operatorVars, held, delivered, offset, bounded>>
    /\ UNCHANGED <<sent, request, tolerance, clock, verdict>>

-----------------------------------------------------------------------------
(***************************************************************************)
(* The run and its request.                                                *)
(***************************************************************************)
\* deliver opens the store; the run signs with what it found.  What a killed run
\* left on the way arrives first: one request at a time is enough.
Start ==
    /\ held = <<>> /\ ~UnderWay
    /\ ~delivered
    /\ held' = EndpointSecrets
    /\ UNCHANGED <<operatorVars, delivered, offset, receiverVars, bounded>>

Send ==
    /\ held # <<>> /\ ~UnderWay
    /\ sent' = Signed(held, Id, SentAt, Body)
    /\ request' = sent'
    /\ UNCHANGED <<operatorVars, held, delivered, offset, bounded>>
    /\ UNCHANGED <<known, tolerance, clock, verdict>>

Delay ==
    /\ UnderWay /\ verdict = "none"
    /\ delays < MaxDelays
    /\ delays' = delays + 1
    /\ clock' = clock + 1
    /\ UNCHANGED <<operatorVars, held, delivered, offset, changes, kills>>
    /\ UNCHANGED <<sent, request, known, tolerance, verdict>>

Change ==
    /\ UnderWay
    /\ changes < MaxChanges
    /\ changes' = changes + 1
    /\ Arrive
    /\ UNCHANGED <<operatorVars, held, delivered, offset, delays, kills>>

Check ==
    /\ UnderWay
    /\ Handle \/ VerifyCommand \/ VerifyUntimed
    /\ UNCHANGED <<operatorVars, held, delivered, offset, bounded>>

\* The answer: the run records it, and an answer to a killed run is lost.
Record ==
    /\ verdict # "none"
    /\ delivered' = (delivered \/ (held # <<>> /\ verdict \in {"handled", "exit 0", "untimed 0"}))
    /\ held' = <<>>
    /\ sent' = NoRequest /\ request' = NoRequest /\ verdict' = "none"
    /\ clock' = SentAt + offset
    /\ UNCHANGED <<operatorVars, offset, known, tolerance, bounded>>

Kill ==
    /\ held # <<>>
    /\ kills < MaxKills
    /\ kills' = kills + 1
    /\ held' = <<>>
    /\ UNCHANGED <<operatorVars, delivered, offset, receiverVars, delays, changes>>

Next ==
    \/ \E secret \in Secrets : Rotate(secret) \/ RotateUnprinted(secret)
    \/ ListSecrets \/ Switch
    \/ Start \/ Send \/ Delay \/ Change \/ Check \/ Record \/ Kill

\* deliver is run again and again, a request ends and so does its run.
Fairness == WF_vars(Start) /\ WF_vars(Send) /\ WF_vars(Check) /\ WF_vars(Record)

Spec == Init /\ [][Next]_vars /\ Fairness

-----------------------------------------------------------------------------
(***************************************************************************)
(* The receiver's own secret is one the endpoint signs with, from the      *)
(* rotation to the switch and after it: the engine keeps the secret before *)
(* the newest, and the operator's next rotation comes after the switch.    *)
(***************************************************************************)
ReceiverCovered == known[1] \in ToSet(EndpointSecrets)

(***************************************************************************)
(* What the receiver refuses came late or changed, or is what a killed run *)
(* left on the way: it is never the rotation that costs an attempt.        *)
(***************************************************************************)
Refused == verdict \in {"unauthorized", "exit 1", "exit 2", "exit 3", "untimed 1"}

RefusalExplained == Refused => request # sent \/ held = <<>> \/ ~InTime

(***************************************************************************)
(* Wherever the operator and the receiver are in the rotation, or stop,    *)
(* the message is delivered in the end, by a receiver whose clock is       *)
(* within its tolerance: what is refused is signed again, with the secrets *)
(* of the moment.                                                          *)
(***************************************************************************)
ClockRight == Distance(offset, 0) <= Tolerance(tolerance)

EventuallyDelivered == ClockRight => <>delivered
=============================================================================
