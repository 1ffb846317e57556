-------------------------------- MODULE Store --------------------------------
(***************************************************************************)
(* internal/store as the commands drive it: one open Store, whose every    *)
(* mutation appends one record to the log and then applies it.  The log    *)
(* here is the sequence of records a reopen would replay; how it survives  *)
(* crashes is Wal's subject.                                               *)
(*                                                                         *)
(* Init is the state after `hookmill init` with one of Schedules.  Times   *)
(* are the clock readings a call may be given: the store only stores them, *)
(* and nothing orders one command's clock after another's.                 *)
(***************************************************************************)
EXTENDS StoreState

CONSTANTS
    Schedules,   \* the schedules init may be given
    Times,       \* clock readings
    MaxLog,      \* bound: records in the log
    MaxHistory   \* bound: attempts of one message

ASSUME SchedulesAssumption == Schedules \subseteq Schedule

ASSUME TimesAssumption == Times \subseteq Nat \ {NoTime}

VARIABLES
    st,    \* Schedule, endpoints, epOrder, messages and msgOrder
    log    \* the records in wal.log

vars == <<st, log>>

Init ==
    \E schedule \in Schedules :
        /\ log = <<ConfigRec(schedule)>>
        /\ st = Apply(NewStore, ConfigRec(schedule))

-----------------------------------------------------------------------------
\* commit: the record is on disk before memory changes.
Commit(record) ==
    /\ Len(log) < MaxLog
    /\ log' = Append(log, record)
    /\ st' = Apply(st, record)

AddEndpoint(name, secret) ==
    /\ ~Has(st.endpoints, name)
    /\ Commit(EndpointAddRec(name, secret))

RemoveEndpoint(name) ==
    /\ Has(st.endpoints, name)
    /\ Commit(EndpointRemoveRec(name))

\* The new secret is freshly drawn, so the endpoint does not hold it yet.
RotateSecret(name, secret) ==
    /\ Has(st.endpoints, name)
    /\ secret \notin ToSet(st.endpoints[name])
    /\ Commit(EndpointRotateRec(name, secret))

\* newMessageID draws an id no message has.
Enqueue(id, endpoint, now) ==
    /\ Has(st.endpoints, endpoint)
    /\ ~Has(st.messages, id)
    /\ Commit(EnqueueRec(id, endpoint, now))

\* MarkAttempt with the outcome and due time the engine passes it.
MarkAttempt(id, verdict, end) ==
    /\ Has(st.messages, id)
    /\ st.messages[id].state = "pending"
    /\ Len(st.messages[id].attempts) < MaxHistory
    /\ Commit(AttemptRec(id, verdict, Outcome(st, id, verdict),
                         RetryAt(st, id, verdict, end)))

Requeue(id, now) ==
    /\ CanRequeue(st, id)
    /\ Commit(RequeueRec(id, now))

\* `requeue --all` takes the dead messages in enqueue order and ends at the
\* first one that Requeue refuses: a message is reached when nothing dead up
\* to and including it is refused.
ReachedByAll(s) ==
    {s.msgOrder[i] : i \in {i \in 1..Len(s.msgOrder) :
        /\ s.messages[s.msgOrder[i]].state = "dead"
        /\ \A j \in 1..i : s.messages[s.msgOrder[j]].state = "dead" =>
                            CanRequeue(s, s.msgOrder[j])}}

Readings == [Ids -> Times]

Reached(s) ==
    Sublist(s.msgOrder, {i \in 1..Len(s.msgOrder) : s.msgOrder[i] \in ReachedByAll(s)})

\* Every call reads the clock: at[id] is what it shows at the call for id.
RequeueAll(at) ==
    LET reached == Reached(st)
    IN  /\ Len(log) + Len(reached) <= MaxLog
        /\ log' = log \o [i \in 1..Len(reached) |-> RequeueRec(reached[i], at[reached[i]])]
        /\ st' = [st EXCEPT !.messages =
                     [id \in DOMAIN st.messages |->
                         IF id \in ReachedByAll(st)
                         THEN Requeued(st.messages[id], at[id])
                         ELSE st.messages[id]]]

\* Memory stays; the log becomes its one-record snapshot.
Compact ==
    /\ log' = <<SnapshotRec(st)>>
    /\ UNCHANGED st

Next ==
    \/ \E name \in Names, secret \in Secrets :
          AddEndpoint(name, secret) \/ RotateSecret(name, secret)
    \/ \E name \in Names : RemoveEndpoint(name)
    \/ \E id \in Ids, now \in Times :
          \/ \E name \in Names : Enqueue(id, name, now)
          \/ \E verdict \in Verdicts : MarkAttempt(id, verdict, now)
          \/ Requeue(id, now)
    \/ \E at \in Readings : RequeueAll(at)
    \/ Compact

Spec == Init /\ [][Next]_vars

-----------------------------------------------------------------------------
(***************************************************************************)
(* The state has its type; in particular an endpoint signs with one or two *)
(* secrets, never none.                                                    *)
(***************************************************************************)
Fields == {"schedule", "endpoints", "epOrder", "messages", "msgOrder"}

TypeOK ==
    /\ DOMAIN st = Fields
    /\ st.schedule \in Schedule
    /\ \A name \in DOMAIN st.endpoints :
          /\ name \in Names
          /\ st.endpoints[name] \in Seq(Secrets)
          /\ Len(st.endpoints[name]) \in 1..MaxSecrets
    /\ \A id \in DOMAIN st.messages : id \in Ids /\ st.messages[id] \in Message
    /\ st.msgOrder \in Seq(Ids)

(***************************************************************************)
(* A pending message's endpoint is registered, so the engine's guard       *)
(* against an unknown endpoint "cannot happen": removal dead-letters what  *)
(* is pending, and nothing brings back a message whose endpoint is gone.   *)
(***************************************************************************)
PendingHasEndpoint ==
    \A id \in DOMAIN st.messages :
        st.messages[id].state = "pending" => Has(st.endpoints, st.messages[id].endpoint)

(***************************************************************************)
(* The zero time marks exactly the messages that are not waiting: Counts   *)
(* tells the earliest due time apart from "none" by IsZero.                *)
(***************************************************************************)
DueTimeHonest(m) == m.state = "pending" <=> m.nextDue # NoTime

DueIffPending == \A id \in DOMAIN st.messages : DueTimeHonest(st.messages[id])

(***************************************************************************)
(* Each order lists every key of its map once: MessageList, EndpointList   *)
(* and the snapshot dereference what the order lists and lose what it does *)
(* not.                                                                    *)
(***************************************************************************)
Lists(order, map) == ToSet(order) = DOMAIN map /\ IsInjective(order)

MessagesListed == Lists(st.msgOrder, st.messages)

OrderMatchesMap == MessagesListed /\ Lists(st.epOrder, st.endpoints)

(***************************************************************************)
(* What status says and what deliver does agree: at any time, and in       *)
(* whatever order the messages are counted, there is a message to attempt  *)
(* exactly when the next due time shown has come.                          *)
(***************************************************************************)
StatusAgreesWithDue ==
    \A order \in SetToSeqs(DOMAIN st.messages),
       now \in Times \cup {st.messages[id].nextDue : id \in DOMAIN st.messages} :
        LET shown == Counts(st, order)
        IN  Due(st, now) # <<>> <=> shown.pending > 0 /\ shown.nextDue <= now

(***************************************************************************)
(* The history tells what happened: a delivered message was accepted by    *)
(* its last attempt, no other attempt of any message was accepted, and the *)
(* fail streak is a tail of the history that holds only failures.          *)
(***************************************************************************)
TellsItsHistory(m) ==
    LET n == Len(m.attempts)
    IN  /\ m.state = "delivered" <=> \E i \in 1..n : m.attempts[i] = "accepted"
        /\ \A i \in 1..n - 1 : m.attempts[i] = "failed"
        /\ m.failStreak <= n
        /\ \A i \in n - m.failStreak + 1..n : m.attempts[i] = "failed"

HistoryHonest == \A id \in DOMAIN st.messages : TellsItsHistory(st.messages[id])

(***************************************************************************)
(* Every message gets the attempts the schedule promises since it was last *)
(* queued, and no more: it is dead of exhaustion exactly when its streak   *)
(* has used them all, and a message that still waits, or that died with    *)
(* its endpoint, has at least one left.                                    *)
(***************************************************************************)
WithinBudget(m, schedule) ==
    /\ m.failStreak <= MaxAttempts(schedule)
    /\ m.failStreak = MaxAttempts(schedule) <=>
           m.deadReason = "schedule_exhausted"
    /\ m.state = "dead" <=> m.deadReason # "none"

RetryBudget ==
    \A id \in DOMAIN st.messages : WithinBudget(st.messages[id], st.schedule)

(***************************************************************************)
(* What happened to a message is never rewritten: it stays in the store,   *)
(* attempts are only added, and delivered is final.                        *)
(***************************************************************************)
HistoryKept ==
    [][\A id \in DOMAIN st.messages :
          /\ Has(st'.messages, id)
          /\ IsPrefix(st.messages[id].attempts, st'.messages[id].attempts)
          /\ st.messages[id].state = "delivered" => st'.messages[id] = st.messages[id]
      ]_vars

(***************************************************************************)
(* A message's life is the one Outbox promises: what the log and the       *)
(* schedule do to it is one of Outbox's steps, on the messages' states and *)
(* fail streaks.                                                           *)
(***************************************************************************)
Promise == INSTANCE Outbox WITH
    status <- Status(st), fails <- Streaks(st), budget <- MaxAttempts(st.schedule)

ImplementsOutbox == Promise!Spec

(***************************************************************************)
(* The help of `requeue --all` says "requeue every dead message": each     *)
(* dead message whose endpoint is registered is pending after it.          *)
(***************************************************************************)
RequeueAllRequeues ==
    [][\A at \in Readings :
          RequeueAll(at) =>
              \A id \in DOMAIN st.messages :
                  CanRequeue(st, id) => st'.messages[id].state = "pending"]_vars
=============================================================================
