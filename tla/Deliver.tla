------------------------------- MODULE Deliver -------------------------------
(***************************************************************************)
(* internal/deliver over the store: runs of `hookmill deliver`, the clock, *)
(* the receivers' answers, and a kill or a failed log write at any step of *)
(* a run.  Other commands run between two deliver runs, as a cron job that *)
(* owns the data directory has it; several processes at once are another   *)
(* matter.                                                                 *)
(*                                                                         *)
(* The store's state is StoreState's.  Its log is left out: what is        *)
(* applied has been appended and synced, so a killed run loses only what   *)
(* it had not recorded.                                                    *)
(***************************************************************************)
EXTENDS StoreState

CONSTANTS
    Schedules,     \* the schedules init may be given
    Limits,        \* what --limit may be; 0 for none
    MaxRounds,     \* maxDrainRounds
    MaxTime,       \* bound: after it the clock moves on only to a due time
    MaxKills,      \* bound: runs cut short
    MaxHistory     \* bound: attempts a message to be requeued may have

ASSUME DeliverAssumption ==
    /\ Schedules \subseteq Schedule
    /\ Limits \subseteq Nat
    /\ MaxRounds \in Nat \ {0}

VARIABLES
    st,          \* the store
    now,         \* the clock
    pc,          \* where the run is; "idle" or "exceeded" when none is
    drain,       \* --drain
    limit,       \* --limit
    round,       \* rounds begun in this run
    tried,       \* the messages attempted in this run
    due,         \* the messages of this round still to be attempted
    verdict,     \* what the engine made of the answer it holds
    known,       \* per id: acceptances that a run or the log knows of
    lastEnd,     \* per id: end of the last attempt recorded as to be retried
    kills        \* runs cut short

runVars == <<drain, limit, round, tried, due, verdict>>
vars == <<st, now, pc, runVars, known, lastEnd, kills>>

Zero == [id \in Ids |-> 0]

Init ==
    /\ st \in {Apply(NewStore, ConfigRec(schedule)) : schedule \in Schedules}
    /\ now = 1
    /\ pc = "idle" /\ drain = FALSE /\ limit = 0 /\ round = 0 /\ tried = {}
    /\ due = <<>> /\ verdict = "failed"
    /\ known = Zero
    /\ lastEnd = [id \in Ids |-> NoTime]
    /\ kills = 0

-----------------------------------------------------------------------------
(***************************************************************************)
(* The clock, and the commands that run while no deliver does.             *)
(***************************************************************************)
SomePending == \E id \in DOMAIN st.messages : st.messages[id].state = "pending"

Tick ==
    /\ now < MaxTime \/ (SomePending /\ Due(st, now) = <<>>)
    /\ now' = now + 1
    /\ UNCHANGED <<st, pc, runVars, known, lastEnd, kills>>

Idle == pc \in {"idle", "exceeded"}

Command(record) ==
    /\ Idle
    /\ st' = Apply(st, record)
    /\ UNCHANGED <<now, pc, runVars, known, kills>>

AddEndpoint(name, secret) ==
    /\ ~Has(st.endpoints, name)
    /\ Command(EndpointAddRec(name, secret))
    /\ UNCHANGED lastEnd

RemoveEndpoint(name) ==
    /\ Has(st.endpoints, name)
    /\ Command(EndpointRemoveRec(name))
    /\ UNCHANGED lastEnd

Enqueue(id, endpoint) ==
    /\ Has(st.endpoints, endpoint)
    /\ ~Has(st.messages, id)
    /\ Command(EnqueueRec(id, endpoint, now))
    /\ UNCHANGED lastEnd

Requeue(id) ==
    /\ CanRequeue(st, id)
    /\ Len(st.messages[id].attempts) <= MaxHistory
    /\ Command(RequeueRec(id, now))
    /\ lastEnd' = [lastEnd EXCEPT ![id] = NoTime]

-----------------------------------------------------------------------------
(***************************************************************************)
(* A run: RunOnce, or Drain's rounds until one attempts nothing.           *)
(***************************************************************************)
Start ==
    /\ Idle
    /\ pc' = "round"
    /\ drain' \in BOOLEAN /\ limit' \in Limits
    /\ UNCHANGED <<st, now, round, tried, due, verdict, known, lastEnd, kills>>

\* The run is over, and its variables with it.
Ended(how) ==
    /\ pc' = how
    /\ drain' = FALSE /\ limit' = 0 /\ round' = 0 /\ tried' = {}
    /\ due' = <<>> /\ verdict' = "failed"

\* The messages a round takes: the list is made once, when the round begins.
Cut(list) == IF limit > 0 /\ Len(list) > limit THEN SubSeq(list, 1, limit) ELSE list

Round ==
    /\ pc = "round"
    /\ round < MaxRounds
    /\ LET list == Cut(Due(st, now))
       IN  \/ list = <<>> /\ Ended("idle")
           \/ /\ list # <<>>
              /\ pc' = "attempt" /\ due' = list /\ round' = round + 1
              /\ UNCHANGED <<drain, limit, tried, verdict>>
    /\ UNCHANGED <<st, now, known, lastEnd, kills>>

Exceeded ==
    /\ pc = "round"
    /\ round = MaxRounds
    /\ Ended("exceeded")
    /\ UNCHANGED <<st, now, known, lastEnd, kills>>

\* The POST and what came of it: an acceptance whose answer is lost or late is a
\* failure to the engine.  An endpoint that is not there would end the run.
Post(id) ==
    /\ pc = "attempt"
    /\ id = Head(due)
    /\ IF Has(st.endpoints, st.messages[id].endpoint)
       THEN /\ pc' = "mark"
            /\ verdict' \in Verdicts
            /\ known' = [known EXCEPT ![id] = @ + IF verdict' = "accepted" THEN 1 ELSE 0]
            /\ UNCHANGED <<drain, limit, round, tried, due>>
       ELSE Ended("idle") /\ UNCHANGED known
    /\ UNCHANGED <<st, now, lastEnd, kills>>

\* A mistake: a round ends after its first attempt.
AfterAttemptEnds(rest) == IF drain THEN "round" ELSE "idle"

AfterAttempt(rest) ==
    IF rest # <<>> THEN "attempt" ELSE IF drain THEN "round" ELSE "idle"

Mark(id) ==
    /\ pc = "mark"
    /\ id = Head(due)
    /\ st.messages[id].state = "pending"
    /\ st' = Apply(st, AttemptRec(id, verdict, Outcome(st, id, verdict),
                                  RetryAt(st, id, verdict, now)))
    /\ lastEnd' = [lastEnd EXCEPT ![id] =
                      IF Outcome(st, id, verdict) = "retry" THEN now ELSE NoTime]
    /\ LET next == AfterAttempt(Tail(due))
       IN  \/ next = "idle" /\ Ended(next)
           \/ /\ next # "idle"
              /\ pc' = next /\ due' = Tail(due)
              /\ tried' = tried \cup {id} /\ verdict' = "failed"
              /\ UNCHANGED <<drain, limit, round>>
    /\ UNCHANGED <<now, known, kills>>

\* The process is killed, or the log refuses the record: the run is over, and
\* what it knew of an acceptance is lost.
Kill ==
    /\ ~Idle
    /\ kills < MaxKills
    /\ kills' = kills + 1
    /\ known' = IF pc = "mark" /\ verdict = "accepted"
                THEN [known EXCEPT ![Head(due)] = @ - 1]
                ELSE known
    /\ Ended("idle")
    /\ UNCHANGED <<st, now, lastEnd>>

Attempt == \E id \in Ids : Post(id) \/ Mark(id)

Next ==
    \/ Tick
    \/ \E name \in Names : RemoveEndpoint(name) \/ \E secret \in Secrets : AddEndpoint(name, secret)
    \/ \E id \in Ids : Requeue(id) \/ \E name \in Names : Enqueue(id, name)
    \/ Start \/ Round \/ Exceeded \/ Attempt \/ Kill

(***************************************************************************)
(* Fairness: the clock goes on, a request ends (the client's --timeout),   *)
(* a run takes its next step unless it is killed, and cron starts deliver  *)
(* again and again.  Nothing makes anyone enqueue, requeue or kill.        *)
(***************************************************************************)
Fairness ==
    /\ WF_vars(Tick)
    /\ WF_vars(Start) /\ WF_vars(Round) /\ WF_vars(Exceeded) /\ WF_vars(Attempt)

Spec == Init /\ [][Next]_vars /\ Fairness

-----------------------------------------------------------------------------
(***************************************************************************)
(* The run's variables have their types, and a round lists no message      *)
(* twice.                                                                  *)
(***************************************************************************)
TypeOK ==
    /\ now \in Nat \ {NoTime}
    /\ pc \in {"idle", "round", "attempt", "mark", "exceeded"}
    /\ drain \in BOOLEAN /\ limit \in Nat /\ round \in 0..MaxRounds /\ tried \in SUBSET Ids
    /\ due \in Seq(DOMAIN st.messages) /\ IsInjective(due)
    /\ pc \in {"attempt", "mark"} <=> due # <<>>
    /\ verdict \in Verdicts
    /\ known \in [Ids -> Nat]
    /\ lastEnd \in [Ids -> Nat]

(***************************************************************************)
(* A message is recorded as delivered only if its receiver accepted it,    *)
(* and an acceptance that was not lost on the way, in the answer or in a   *)
(* run that ended before its record was in the log, is the last: nothing   *)
(* sends the message again, a requeue included.                            *)
(***************************************************************************)
InFlight(id) == pc = "mark" /\ id = Head(due) /\ verdict = "accepted"

ReceiptsExplained ==
    \A id \in Ids :
        known[id] = IF InFlight(id) \/ (Has(st.messages, id) /\ st.messages[id].state = "delivered")
                    THEN 1 ELSE 0

(***************************************************************************)
(* A message about to be attempted has waited: since its last recorded     *)
(* failure ended, as long as the schedule says for that failure.           *)
(***************************************************************************)
Spaced ==
    \A id \in ToSet(due) :
        LET m == st.messages[id]
        IN  lastEnd[id] # NoTime =>
                /\ m.failStreak \in 1..Len(st.schedule)
                /\ now >= lastEnd[id] + st.schedule[m.failStreak]

(***************************************************************************)
(* A limit cuts the least overdue: no pending message that is left out of  *)
(* a round was due before one that is still to be attempted in it.         *)
(***************************************************************************)
MostOverdueFirst ==
    \A i \in 1..Len(due), id \in DOMAIN st.messages \ ToSet(due) :
        st.messages[id].state = "pending" =>
            st.messages[due[i]].nextDue <= st.messages[id].nextDue

(***************************************************************************)
(* Drain gives up only on a queue that can keep it busy: every round but   *)
(* the last attempts something, so it needs at most one more round than    *)
(* its messages have attempts in all, whatever the waits and the limit.    *)
(***************************************************************************)
DrainSettles ==
    pc = "exceeded" => MaxRounds <= Cardinality(DOMAIN st.messages) * MaxAttempts(st.schedule)

(***************************************************************************)
(* Every queued message is settled in the end: delivered, or dead of its   *)
(* schedule or its endpoint, whatever limit the runs have, however many    *)
(* messages are ahead of it, and whatever a bounded number of kills undid. *)
(***************************************************************************)
Waiting(id) == Has(st.messages, id) /\ st.messages[id].state = "pending"

EveryMessageSettles == \A id \in Ids : Waiting(id) ~> ~Waiting(id)

(***************************************************************************)
(* Rounds, limits, kills at any step and the commands between runs do to a *)
(* message's life only what Outbox promises: an attempt that a kill undoes *)
(* never happened to it, and none it has left is lost with the run.        *)
(***************************************************************************)
Promise == INSTANCE Outbox WITH
    status <- Status(st), fails <- Streaks(st), budget <- MaxAttempts(st.schedule)

ImplementsOutbox == Promise!Spec

(***************************************************************************)
(* The help of --limit says "max messages to attempt this run".            *)
(***************************************************************************)
RunHonorsLimit == limit > 0 => Cardinality(tried) <= limit
=============================================================================
