----------------------------- MODULE StoreState -----------------------------
(***************************************************************************)
(* The state internal/store materializes from its write-ahead log, and     *)
(* apply, the one function that turns a log record into a state change,    *)
(* live and on replay.  Nothing here is a step: Store and the modules that *)
(* compose it with the log and the delivery engine take these operators.   *)
(*                                                                         *)
(* A store state has the retry schedule, the endpoints and messages (two   *)
(* functions over the names and ids present) and the two creation orders.  *)
(* URLs, bodies, event types and the times shown to users are left out; an *)
(* attempt keeps only whether the receiver accepted it.                    *)
(*                                                                         *)
(* A definition that a comment calls a mistake is the one after it with a  *)
(* plausible bug, and no specification uses it: the properties of Store    *)
(* and Deliver are checked to notice it.                                   *)
(***************************************************************************)
EXTENDS Backoff, SequencesExt

CONSTANTS
    Ids,        \* message ids newMessageID can draw
    Names,      \* endpoint names
    Secrets     \* signing secrets

MaxSecrets == 2

States == {"pending", "delivered", "dead"}

Verdicts == {"accepted", "failed"}

Outcomes == {"delivered", "retry", "dead"}

Reasons == {"none", "endpoint_removed", "schedule_exhausted"}

Message ==
    [endpoint : Names, state : States, nextDue : Nat, failStreak : Nat,
     attempts : Seq(Verdicts), deadReason : Reasons]

NewStore ==
    [schedule |-> Default, endpoints |-> <<>>, epOrder |-> <<>>,
     messages |-> <<>>, msgOrder |-> <<>>]

Has(map, key) == key \in DOMAIN map

Put(map, key, value) ==
    [k \in DOMAIN map \cup {key} |-> IF k = key THEN value ELSE map[k]]

\* A mistake: removing leaves the name listed.
WithoutNothing(list, v) == list

\* S as a sequence in the order `before`, a set of pairs.
Arranged(S, before) ==
    CHOOSE f \in [1..Cardinality(S) -> S] :
        \A j, k \in 1..Cardinality(S) : j < k => <<f[j], f[k]>> \in before

\* What list has at the given indices, in the order `before`.
Listing(list, indices, before) ==
    LET order == Arranged(indices, before)
    IN  [k \in 1..Cardinality(indices) |-> list[order[k]]]

\* What list has at the given indices, in its own order.
Sublist(list, indices) ==
    Listing(list, indices, {p \in indices \X indices : p[1] < p[2]})

Without(list, v) == Sublist(list, {i \in 1..Len(list) : list[i] # v})

-----------------------------------------------------------------------------
(***************************************************************************)
(* The log's records, by the type each carries.                            *)
(***************************************************************************)
ConfigRec(schedule) == [type |-> "config", schedule |-> ScheduleText(schedule)]

EndpointAddRec(name, secret) ==
    [type |-> "endpoint_add", name |-> name, secret |-> secret]

EndpointRemoveRec(name) == [type |-> "endpoint_remove", name |-> name]

EndpointRotateRec(name, secret) ==
    [type |-> "endpoint_rotate", name |-> name, secret |-> secret]

EnqueueRec(id, endpoint, at) ==
    [type |-> "enqueue", id |-> id, endpoint |-> endpoint, at |-> at]

AttemptRec(id, verdict, outcome, nextDue) ==
    [type |-> "attempt", id |-> id, verdict |-> verdict,
     outcome |-> outcome, nextDue |-> nextDue]

RequeueRec(id, at) == [type |-> "requeue", id |-> id, at |-> at]

\* A mistake: a snapshot takes the active secret only.
EndpointListActive(s) ==
    [i \in 1..Len(s.epOrder) |->
        [name |-> s.epOrder[i], secrets |-> <<s.endpoints[s.epOrder[i]][1]>>]]

\* EndpointList and MessageList, each with the key the record carries.
EndpointList(s) ==
    [i \in 1..Len(s.epOrder) |->
        [name |-> s.epOrder[i], secrets |-> s.endpoints[s.epOrder[i]]]]

MessageList(s) ==
    [i \in 1..Len(s.msgOrder) |->
        [id |-> s.msgOrder[i], message |-> s.messages[s.msgOrder[i]]]]

SnapshotRec(s) ==
    [type |-> "snapshot", schedule |-> ScheduleText(s.schedule),
     endpoints |-> EndpointList(s), messages |-> MessageList(s)]

-----------------------------------------------------------------------------
(***************************************************************************)
(* apply, one operator per record type.                                    *)
(***************************************************************************)
ApplyConfig(s, r) == [s EXCEPT !.schedule = ParseSchedule(r.schedule)]

ApplyEndpointAdd(s, r) ==
    [s EXCEPT !.endpoints = Put(s.endpoints, r.name, <<r.secret>>),
              !.epOrder = Append(s.epOrder, r.name)]

\* A mistake: removal leaves the messages that wait for the endpoint.
DeadLetteredNone(s, name) == {}

\* The loop walks msgOrder, so it reaches the messages that are listed there.
DeadLettered(s, name) ==
    {id \in DOMAIN s.messages :
        /\ id \in ToSet(s.msgOrder)
        /\ s.messages[id].endpoint = name
        /\ s.messages[id].state = "pending"}

\* A mistake: the due time stays.
OrphanedStillDue(m) == [m EXCEPT !.state = "dead", !.deadReason = "endpoint_removed"]

Orphaned(m) ==
    [m EXCEPT !.state = "dead", !.deadReason = "endpoint_removed", !.nextDue = NoTime]

ApplyEndpointRemove(s, r) ==
    [s EXCEPT !.endpoints = [n \in DOMAIN s.endpoints \ {r.name} |-> s.endpoints[n]],
              !.epOrder = Without(s.epOrder, r.name),
              !.messages = [id \in DOMAIN s.messages |->
                  IF id \in DeadLettered(s, r.name)
                  THEN Orphaned(s.messages[id])
                  ELSE s.messages[id]]]

\* A mistake: an endpoint keeps every secret it ever had.
RotateKeepingAll(s, r) ==
    [s EXCEPT !.endpoints =
        [s.endpoints EXCEPT ![r.name] = <<r.secret>> \o s.endpoints[r.name]]]

\* A mistake: the secret before the newest goes at once.
RotateKeepingNewest(s, r) ==
    [s EXCEPT !.endpoints = [s.endpoints EXCEPT ![r.name] = <<r.secret>>]]

ApplyEndpointRotate(s, r) ==
    LET secrets == <<r.secret>> \o s.endpoints[r.name]
        kept == IF Len(secrets) > MaxSecrets THEN SubSeq(secrets, 1, MaxSecrets)
                ELSE secrets
    IN  [s EXCEPT !.endpoints = [s.endpoints EXCEPT ![r.name] = kept]]

NewMessage(endpoint, at) ==
    [endpoint |-> endpoint, state |-> "pending", nextDue |-> at,
     failStreak |-> 0, attempts |-> <<>>, deadReason |-> "none"]

ApplyEnqueue(s, r) ==
    [s EXCEPT !.messages = Put(s.messages, r.id, NewMessage(r.endpoint, r.at)),
              !.msgOrder = Append(s.msgOrder, r.id)]

\* A mistake: the streak of the failures before stays.
DeliveredKeepingStreak(m) == [m EXCEPT !.state = "delivered", !.nextDue = NoTime]

DeliveredNow(m) == [m EXCEPT !.state = "delivered", !.failStreak = 0, !.nextDue = NoTime]

\* A mistake: a failure that will be retried is not counted.
RetriedUncounted(m, nextDue) == [m EXCEPT !.nextDue = nextDue]

RetriedAt(m, nextDue) == [m EXCEPT !.failStreak = m.failStreak + 1, !.nextDue = nextDue]

Exhausted(m) ==
    [m EXCEPT !.state = "dead", !.failStreak = m.failStreak + 1,
              !.deadReason = "schedule_exhausted", !.nextDue = NoTime]

\* One recorded try: the history grows, then the outcome decides the rest.
Attempted(m, r) ==
    LET tried == [m EXCEPT !.attempts = Append(m.attempts, r.verdict)]
    IN  CASE r.outcome = "delivered" -> DeliveredNow(tried)
          [] r.outcome = "retry" -> RetriedAt(tried, r.nextDue)
          [] r.outcome = "dead" -> Exhausted(tried)

ApplyAttempt(s, r) ==
    [s EXCEPT !.messages = [s.messages EXCEPT ![r.id] = Attempted(s.messages[r.id], r)]]

\* Two mistakes: the spent attempts stay spent, or the history starts anew.
RequeuedSpent(m, at) ==
    [m EXCEPT !.state = "pending", !.deadReason = "none", !.nextDue = at]

RequeuedAnew(m, at) ==
    [m EXCEPT !.state = "pending", !.failStreak = 0, !.deadReason = "none",
              !.nextDue = at, !.attempts = <<>>]

Requeued(m, at) ==
    [m EXCEPT !.state = "pending", !.failStreak = 0, !.deadReason = "none", !.nextDue = at]

\* A mistake: the endpoint is not asked for.
CanRequeueAny(s, id) == Has(s.messages, id) /\ s.messages[id].state = "dead"

\* Requeue's conditions: dead, and with an endpoint to go to.
CanRequeue(s, id) ==
    /\ Has(s.messages, id)
    /\ s.messages[id].state = "dead"
    /\ Has(s.endpoints, s.messages[id].endpoint)

ApplyRequeue(s, r) ==
    [s EXCEPT !.messages = [s.messages EXCEPT ![r.id] = Requeued(s.messages[r.id], r.at)]]

\* A key listed twice keeps its last entry, as assigning to a Go map does.
LastOf(list, indices) == list[CHOOSE i \in indices : \A j \in indices : j <= i]

ApplySnapshot(s, r) ==
    LET names == [i \in 1..Len(r.endpoints) |-> r.endpoints[i].name]
        ids == [i \in 1..Len(r.messages) |-> r.messages[i].id]
        At(list, key) == {i \in 1..Len(list) : list[i] = key}
    IN  [schedule |-> ParseSchedule(r.schedule),
         endpoints |-> [n \in ToSet(names) |-> LastOf(r.endpoints, At(names, n)).secrets],
         epOrder |-> names,
         messages |-> [id \in ToSet(ids) |-> LastOf(r.messages, At(ids, id)).message],
         msgOrder |-> ids]

Apply(s, r) ==
    CASE r.type = "config" -> ApplyConfig(s, r)
      [] r.type = "endpoint_add" -> ApplyEndpointAdd(s, r)
      [] r.type = "endpoint_remove" -> ApplyEndpointRemove(s, r)
      [] r.type = "endpoint_rotate" -> ApplyEndpointRotate(s, r)
      [] r.type = "enqueue" -> ApplyEnqueue(s, r)
      [] r.type = "attempt" -> ApplyAttempt(s, r)
      [] r.type = "requeue" -> ApplyRequeue(s, r)
      [] r.type = "snapshot" -> ApplySnapshot(s, r)

\* The records apply does not return an error for.
Applies(s, r) ==
    /\ r.type \in {"config", "snapshot"} => Parses(r.schedule)
    /\ r.type = "endpoint_rotate" => Has(s.endpoints, r.name)
    /\ r.type \in {"attempt", "requeue"} => Has(s.messages, r.id)
    /\ r.type = "attempt" => r.outcome \in Outcomes

(***************************************************************************)
(* Open: every record in turn, from the empty store.  Open fails at the    *)
(* first record that does not apply.                                       *)
(***************************************************************************)
Replay(records) ==
    LET after[n \in 0..Len(records)] ==
            IF n = 0 THEN NewStore ELSE Apply(after[n - 1], records[n])
    IN  after[Len(records)]

Replayable(records) ==
    \A i \in 1..Len(records) : Applies(Replay(SubSeq(records, 1, i - 1)), records[i])

\* A store: its fields have their types, and each order lists the keys of its
\* map, each once.
IsMap(map, keys, values) ==
    DOMAIN map \subseteq keys /\ map \in [DOMAIN map -> values]

IsStore(s) ==
    /\ s = [schedule |-> s.schedule, endpoints |-> s.endpoints, epOrder |-> s.epOrder,
            messages |-> s.messages, msgOrder |-> s.msgOrder]
    /\ s.schedule \in Schedule
    /\ IsMap(s.endpoints, Names, Seq(Secrets)) /\ IsMap(s.messages, Ids, Message)
    /\ s.epOrder \in Seq(Names) /\ s.msgOrder \in Seq(Ids)
    /\ ToSet(s.epOrder) = DOMAIN s.endpoints /\ IsInjective(s.epOrder)
    /\ ToSet(s.msgOrder) = DOMAIN s.messages /\ IsInjective(s.msgOrder)

-----------------------------------------------------------------------------
\* Two mistakes: what is settled counts as due, or the list is not sorted.
DueSettledToo(s, now) ==
    SelectSeq(s.msgOrder, LAMBDA id : s.messages[id].nextDue <= now)

DueUnsorted(s, now) ==
    SelectSeq(s.msgOrder,
        LAMBDA id : s.messages[id].state = "pending" /\ s.messages[id].nextDue <= now)

(***************************************************************************)
(* Due: the pending messages that are due, soonest first and in enqueue    *)
(* order among equals.                                                     *)
(***************************************************************************)
Due(s, now) ==
    LET due == {i \in 1..Len(s.msgOrder) :
                   LET m == s.messages[s.msgOrder[i]]
                   IN  m.state = "pending" /\ m.nextDue <= now}
        When(i) == s.messages[s.msgOrder[i]].nextDue
        before == {p \in due \X due :
                      \/ When(p[1]) < When(p[2])
                      \/ When(p[1]) = When(p[2]) /\ p[1] < p[2]}
    IN  Listing(s.msgOrder, due, before)

InState(s, state) == {id \in DOMAIN s.messages : s.messages[id].state = state}

\* A mistake: the due times of settled messages, which are zero, count as well.
SoonerOfAny(shown, m) == IF shown = NoTime \/ m.nextDue < shown THEN m.nextDue ELSE shown

\* A due time is taken when it is earlier, or when there is none yet: zero.
Sooner(shown, m) ==
    IF m.state = "pending" /\ (shown = NoTime \/ m.nextDue < shown) THEN m.nextDue ELSE shown

\* The loop over the messages, in the order the map yields them: any.
EarliestDue(s, order) ==
    LET shown[n \in 0..Len(order)] ==
            IF n = 0 THEN NoTime ELSE Sooner(shown[n - 1], s.messages[order[n]])
    IN  shown[Len(order)]

\* Counts: what status shows of the queue.
Counts(s, order) ==
    [pending |-> Cardinality(InState(s, "pending")),
     delivered |-> Cardinality(InState(s, "delivered")),
     dead |-> Cardinality(InState(s, "dead")),
     nextDue |-> EarliestDue(s, order)]

\* A mistake: the failure at hand is not counted against the schedule.
OutcomeOffByOne(s, id, verdict) ==
    IF verdict = "accepted" THEN "delivered"
    ELSE IF HasRetry(s.schedule, s.messages[id].failStreak) THEN "retry"
    ELSE "dead"

\* What the engine makes of an answer: 2xx delivers, anything else is retried
\* while the schedule has a wait left.
Outcome(s, id, verdict) ==
    IF verdict = "accepted" THEN "delivered"
    ELSE IF HasRetry(s.schedule, s.messages[id].failStreak + 1) THEN "retry"
    ELSE "dead"

\* A mistake: the wait is that of the failure before.
RetryAtPreviousWait(s, id, verdict, end) ==
    IF Outcome(s, id, verdict) = "retry"
    THEN NextDue(s.schedule, s.messages[id].failStreak, end)
    ELSE NoTime

RetryAt(s, id, verdict, end) ==
    IF Outcome(s, id, verdict) = "retry"
    THEN NextDue(s.schedule, s.messages[id].failStreak + 1, end)
    ELSE NoTime

\* What a store says of each message, on one that it does not have included.
Status(s) == [id \in Ids |-> IF Has(s.messages, id) THEN s.messages[id].state ELSE "none"]

Streaks(s) == [id \in Ids |-> IF Has(s.messages, id) THEN s.messages[id].failStreak ELSE 0]
=============================================================================
