----------------------------- MODULE StoreProofs -----------------------------
(***************************************************************************)
(* Theorems about Store.  The argument: every step leaves the schedule     *)
(* alone and treats each message in one of five ways (MessageSteps); the   *)
(* facts about a single message follow from those five, and only the       *)
(* invariants that tie messages to endpoints or to the enqueue order look  *)
(* at the actions again.                                                   *)
(***************************************************************************)
EXTENDS Store, StoreStateProofs, TLAPS

LEMMA RetryAtType ==
    ASSUME TypeOK, NEW id \in DOMAIN st.messages, NEW verdict \in Verdicts,
           NEW end \in Times
    PROVE  /\ RetryAt(st, id, verdict, end) \in Nat
           /\ Outcome(st, id, verdict) = "retry" =>
                  RetryAt(st, id, verdict, end) # NoTime
<1>1. st.messages[id].failStreak \in Nat /\ st.schedule \in Seq(Nat)
    BY DEF TypeOK, Message, Schedule
<1>2. end \in Nat /\ end > 0
    BY TimesAssumption DEF NoTime
<1>3. ASSUME HasRetry(st.schedule, st.messages[id].failStreak + 1)
      PROVE  st.schedule[st.messages[id].failStreak + 1] \in Nat
    BY <1>1, <1>3 DEF HasRetry
<1>4. HasRetry(st.schedule, st.messages[id].failStreak + 1) =>
          /\ NextDue(st.schedule, st.messages[id].failStreak + 1, end) \in Nat
          /\ NextDue(st.schedule, st.messages[id].failStreak + 1, end) # NoTime
    BY <1>2, <1>3 DEF NextDue, NoTime
<1>5. Outcome(st, id, verdict) = "retry" => HasRetry(st.schedule, st.messages[id].failStreak + 1)
    BY DEF Outcome
<1>6. QED
    BY <1>4, <1>5 DEF RetryAt, NoTime

-----------------------------------------------------------------------------
(***************************************************************************)
(* What each action does to the fields of st.                              *)
(***************************************************************************)
SameShape == DOMAIN st' = Fields /\ st'.schedule = st.schedule

LEMMA AddEndpointStep ==
    ASSUME TypeOK, NEW name \in Names, NEW secret \in Secrets,
           AddEndpoint(name, secret)
    PROVE  /\ SameShape
           /\ name \notin DOMAIN st.endpoints
           /\ st'.endpoints = Put(st.endpoints, name, <<secret>>)
           /\ st'.epOrder = Append(st.epOrder, name)
           /\ UNCHANGED <<st.messages, st.msgOrder>>
<1>1. st' = ApplyEndpointAdd(st, EndpointAddRec(name, secret))
    BY DEF AddEndpoint, Commit, Apply, EndpointAddRec
<1>2. QED
    BY <1>1 DEF TypeOK, Fields, SameShape, ApplyEndpointAdd, EndpointAddRec, AddEndpoint, Has

LEMMA RotateSecretStep ==
    ASSUME TypeOK, NEW name \in Names, NEW secret \in Secrets,
           RotateSecret(name, secret)
    PROVE  /\ SameShape
           /\ name \in DOMAIN st.endpoints
           /\ DOMAIN st'.endpoints = DOMAIN st.endpoints
           /\ \A n \in DOMAIN st.endpoints \ {name} :
                  st'.endpoints[n] = st.endpoints[n]
           /\ st'.endpoints[name] \in Seq(Secrets)
           /\ Len(st'.endpoints[name]) \in 1..MaxSecrets
           /\ UNCHANGED <<st.messages, st.msgOrder, st.epOrder>>
<1> DEFINE r == EndpointRotateRec(name, secret)
           secrets == <<secret>> \o st.endpoints[name]
           kept == IF Len(secrets) > MaxSecrets THEN SubSeq(secrets, 1, MaxSecrets)
                   ELSE secrets
<1>1. st' = ApplyEndpointRotate(st, r)
    BY DEF RotateSecret, Commit, Apply, EndpointRotateRec
<1>2. name \in DOMAIN st.endpoints
    BY DEF RotateSecret, Has
<1>3. st' = [st EXCEPT !.endpoints = [st.endpoints EXCEPT ![name] = kept]]
    BY <1>1 DEF ApplyEndpointRotate, EndpointRotateRec
<1>4. kept \in Seq(Secrets) /\ Len(kept) \in 1..MaxSecrets
  <2>1. st.endpoints[name] \in Seq(Secrets) /\ Len(st.endpoints[name]) \in 1..2
      BY <1>2 DEF TypeOK, MaxSecrets
  <2>2. secrets \in Seq(Secrets) /\ Len(secrets) = 1 + Len(st.endpoints[name])
      BY <2>1
  <2>3. QED
      BY <2>1, <2>2 DEF MaxSecrets
<1>5. QED
    BY <1>2, <1>3, <1>4 DEF TypeOK, Fields, SameShape

LEMMA RemoveEndpointStep ==
    ASSUME TypeOK, NEW name \in Names, RemoveEndpoint(name)
    PROVE  /\ SameShape
           /\ DOMAIN st'.endpoints = DOMAIN st.endpoints \ {name}
           /\ st'.epOrder = Without(st.epOrder, name)
           /\ \A n \in DOMAIN st'.endpoints : st'.endpoints[n] = st.endpoints[n]
           /\ DOMAIN st'.messages = DOMAIN st.messages
           /\ \A id \in DOMAIN st.messages :
                  st'.messages[id] =
                      IF id \in DeadLettered(st, name)
                      THEN Orphaned(st.messages[id])
                      ELSE st.messages[id]
           /\ UNCHANGED st.msgOrder
<1>1. st' = ApplyEndpointRemove(st, EndpointRemoveRec(name))
    BY DEF RemoveEndpoint, Commit, Apply, EndpointRemoveRec
<1>2. QED
    BY <1>1 DEF TypeOK, Fields, SameShape, ApplyEndpointRemove, EndpointRemoveRec

LEMMA EnqueueStep ==
    ASSUME TypeOK, NEW id \in Ids, NEW name \in Names, NEW now \in Times,
           Enqueue(id, name, now)
    PROVE  /\ SameShape
           /\ id \notin DOMAIN st.messages
           /\ name \in DOMAIN st.endpoints
           /\ st'.messages = Put(st.messages, id, NewMessage(name, now))
           /\ st'.msgOrder = Append(st.msgOrder, id)
           /\ UNCHANGED <<st.endpoints, st.epOrder>>
<1>1. st' = ApplyEnqueue(st, EnqueueRec(id, name, now))
    BY DEF Enqueue, Commit, Apply, EnqueueRec
<1>2. QED
    BY <1>1 DEF TypeOK, Fields, SameShape, Enqueue, Has, ApplyEnqueue, EnqueueRec

LEMMA MarkAttemptStep ==
    ASSUME TypeOK, NEW id \in Ids, NEW verdict \in Verdicts, NEW end \in Times,
           MarkAttempt(id, verdict, end)
    PROVE  /\ SameShape
           /\ id \in DOMAIN st.messages
           /\ st.messages[id].state = "pending"
           /\ DOMAIN st'.messages = DOMAIN st.messages
           /\ \A i \in DOMAIN st.messages \ {id} : st'.messages[i] = st.messages[i]
           /\ st'.messages[id] =
                  Attempted(st.messages[id],
                            AttemptRec(id, verdict, Outcome(st, id, verdict),
                                       RetryAt(st, id, verdict, end)))
           /\ UNCHANGED <<st.endpoints, st.epOrder, st.msgOrder>>
<1> DEFINE r == AttemptRec(id, verdict, Outcome(st, id, verdict),
                           RetryAt(st, id, verdict, end))
<1>1. st' = ApplyAttempt(st, r)
    BY DEF MarkAttempt, Commit, Apply, AttemptRec
<1>2. r.id = id
    BY DEF AttemptRec
<1>3. st' = [st EXCEPT !.messages =
                [st.messages EXCEPT ![id] = Attempted(st.messages[id], r)]]
    BY <1>1, <1>2 DEF ApplyAttempt
<1>4. QED
    BY <1>3 DEF TypeOK, Fields, SameShape, MarkAttempt, Has

LEMMA RequeueStep ==
    ASSUME TypeOK, NEW id \in Ids, NEW now \in Times, Requeue(id, now)
    PROVE  /\ SameShape
           /\ CanRequeue(st, id)
           /\ DOMAIN st'.messages = DOMAIN st.messages
           /\ \A i \in DOMAIN st.messages :
                  st'.messages[i] = IF i = id THEN Requeued(st.messages[i], now)
                                    ELSE st.messages[i]
           /\ UNCHANGED <<st.endpoints, st.epOrder, st.msgOrder>>
<1>1. st' = ApplyRequeue(st, RequeueRec(id, now))
    BY DEF Requeue, Commit, Apply, RequeueRec
<1>2. st' = [st EXCEPT !.messages =
                [st.messages EXCEPT ![id] = Requeued(st.messages[id], now)]]
    BY <1>1 DEF ApplyRequeue, RequeueRec
<1>3. QED
    BY <1>2 DEF TypeOK, Fields, SameShape, Requeue

LEMMA ReachedCanBeRequeued ==
    ASSUME TypeOK, NEW id \in ReachedByAll(st)
    PROVE  CanRequeue(st, id)
    BY DEF TypeOK, ReachedByAll

LEMMA RequeueAllStep ==
    ASSUME TypeOK, NEW at \in Readings, RequeueAll(at)
    PROVE  /\ SameShape
           /\ DOMAIN st'.messages = DOMAIN st.messages
           /\ \A id \in DOMAIN st.messages :
                  st'.messages[id] = IF id \in ReachedByAll(st)
                                     THEN Requeued(st.messages[id], at[id])
                                     ELSE st.messages[id]
           /\ UNCHANGED <<st.endpoints, st.epOrder, st.msgOrder>>
    BY DEF TypeOK, Fields, SameShape, RequeueAll

-----------------------------------------------------------------------------
(***************************************************************************)
(* The five ways a step treats a message.                                  *)
(***************************************************************************)
Kept(id) == id \in DOMAIN st.messages /\ st'.messages[id] = st.messages[id]

Created(id) ==
    /\ id \in Ids \ DOMAIN st.messages
    /\ \E name \in Names, now \in Times : st'.messages[id] = NewMessage(name, now)

Tried(id) ==
    /\ id \in DOMAIN st.messages
    /\ st.messages[id].state = "pending"
    /\ \E verdict \in Verdicts, end \in Times :
          st'.messages[id] =
              Attempted(st.messages[id],
                        AttemptRec(id, verdict, Outcome(st, id, verdict),
                                   RetryAt(st, id, verdict, end)))

Cancelled(id) ==
    /\ id \in DOMAIN st.messages
    /\ st.messages[id].state = "pending"
    /\ st'.messages[id] = Orphaned(st.messages[id])

Revived(id) ==
    /\ id \in DOMAIN st.messages
    /\ st.messages[id].state = "dead"
    /\ \E now \in Times : st'.messages[id] = Requeued(st.messages[id], now)

MessageStep ==
    /\ SameShape
    /\ DOMAIN st.messages \subseteq DOMAIN st'.messages
    /\ \A id \in DOMAIN st'.messages :
          Kept(id) \/ Created(id) \/ Tried(id) \/ Cancelled(id) \/ Revived(id)

LEMMA MessageSteps ==
    ASSUME TypeOK, [Next]_vars
    PROVE  MessageStep
<1>1. CASE st' = st
    BY <1>1 DEF TypeOK, SameShape, MessageStep, Kept
<1>2. ASSUME NEW name \in Names, NEW secret \in Secrets, AddEndpoint(name, secret)
      PROVE  MessageStep
    BY <1>2, AddEndpointStep DEF MessageStep, Kept
<1>3. ASSUME NEW name \in Names, NEW secret \in Secrets, RotateSecret(name, secret)
      PROVE  MessageStep
    BY <1>3, RotateSecretStep DEF MessageStep, Kept
<1>4. ASSUME NEW name \in Names, RemoveEndpoint(name)
      PROVE  MessageStep
  <2>1. ASSUME NEW id \in DOMAIN st.messages
        PROVE  Kept(id) \/ Cancelled(id)
      BY <1>4, <2>1, RemoveEndpointStep DEF Kept, Cancelled, DeadLettered
  <2>2. QED
      BY <1>4, <2>1, RemoveEndpointStep DEF MessageStep
<1>5. ASSUME NEW id \in Ids, NEW name \in Names, NEW now \in Times, Enqueue(id, name, now)
      PROVE  MessageStep
  <2>1. /\ SameShape
        /\ id \in Ids \ DOMAIN st.messages
        /\ st'.messages = Put(st.messages, id, NewMessage(name, now))
      BY <1>5, EnqueueStep
  <2>2. /\ DOMAIN st'.messages = DOMAIN st.messages \cup {id}
        /\ st'.messages[id] = NewMessage(name, now)
        /\ \A i \in DOMAIN st.messages : st'.messages[i] = st.messages[i]
      BY <2>1 DEF Put
  <2>3. Created(id)
      BY <2>1, <2>2 DEF Created
  <2>4. QED
      BY <2>1, <2>2, <2>3 DEF MessageStep, Kept
<1>6. ASSUME NEW id \in Ids, NEW verdict \in Verdicts, NEW end \in Times,
             MarkAttempt(id, verdict, end)
      PROVE  MessageStep
  <2>1. Tried(id)
      BY <1>6, MarkAttemptStep DEF Tried
  <2>2. \A i \in DOMAIN st.messages \ {id} : Kept(i)
      BY <1>6, MarkAttemptStep DEF Kept
  <2>3. SameShape /\ DOMAIN st'.messages = DOMAIN st.messages
      BY <1>6, MarkAttemptStep
  <2>4. QED
      BY <2>1, <2>2, <2>3 DEF MessageStep
<1>7. ASSUME NEW id \in Ids, NEW now \in Times, Requeue(id, now)
      PROVE  MessageStep
  <2>1. ASSUME NEW i \in DOMAIN st.messages
        PROVE  Kept(i) \/ Revived(i)
      BY <1>7, <2>1, RequeueStep DEF Kept, Revived, CanRequeue
  <2>2. QED
      BY <1>7, <2>1, RequeueStep DEF MessageStep
<1>8. ASSUME NEW at \in Readings, RequeueAll(at)
      PROVE  MessageStep
  <2>1. ASSUME NEW i \in DOMAIN st.messages
        PROVE  Kept(i) \/ Revived(i)
      BY <1>8, <2>1, RequeueAllStep, ReachedCanBeRequeued DEF Kept, Revived, CanRequeue, Readings, TypeOK
  <2>2. QED
      BY <1>8, <2>1, RequeueAllStep DEF MessageStep
<1>9. QED
    BY <1>1, <1>2, <1>3, <1>4, <1>5, <1>6, <1>7, <1>8 DEF Next, Compact, vars

-----------------------------------------------------------------------------
LEMMA MessageType ==
    ASSUME TypeOK, MessageStep, NEW id \in DOMAIN st'.messages
    PROVE  id \in Ids /\ st'.messages[id] \in Message
<1>1. CASE Kept(id)
    BY <1>1 DEF Kept, TypeOK
<1>2. CASE Created(id)
    BY <1>2, NewMessageType, TimesAssumption DEF Created
<1>3. CASE Tried(id)
  <2>1. id \in DOMAIN st.messages /\ id \in Ids /\ st.messages[id] \in Message
      BY <1>3 DEF Tried, TypeOK
  <2>2. PICK verdict \in Verdicts, end \in Times :
            st'.messages[id] =
                Attempted(st.messages[id],
                          AttemptRec(id, verdict, Outcome(st, id, verdict),
                                     RetryAt(st, id, verdict, end)))
      BY <1>3 DEF Tried
  <2>3. RetryAt(st, id, verdict, end) \in Nat
      BY <2>1, RetryAtType
  <2>4. Outcome(st, id, verdict) \in Outcomes
      BY DEF Outcome, Outcomes
  <2>5. QED
      BY <2>1, <2>2, <2>3, <2>4, AttemptedType DEF AttemptRec
<1>4. CASE Cancelled(id)
    BY <1>4, OrphanedType DEF Cancelled, TypeOK
<1>5. CASE Revived(id)
    BY <1>5, RequeuedType, TimesAssumption DEF Revived, TypeOK
<1>6. QED
    BY <1>1, <1>2, <1>3, <1>4, <1>5 DEF MessageStep

LEMMA InitTypeOK == Init => TypeOK
<1> SUFFICES ASSUME Init PROVE TypeOK
    OBVIOUS
<1>1. PICK schedule \in Schedules : st = Apply(NewStore, ConfigRec(schedule))
    BY DEF Init
<1>2. schedule \in Schedule
    BY SchedulesAssumption
<1>3. st = [NewStore EXCEPT !.schedule = schedule]
    BY <1>1, <1>2, ScheduleRoundTrip DEF Apply, ConfigRec, ApplyConfig
<1>4. QED
    BY <1>2, <1>3 DEF NewStore, TypeOK, Fields

LEMMA NextTypeOK == TypeOK /\ [Next]_vars => TypeOK'
<1> SUFFICES ASSUME TypeOK, [Next]_vars PROVE TypeOK'
    OBVIOUS
<1>1. MessageStep
    BY MessageSteps
<1>2. \A id \in DOMAIN st'.messages : id \in Ids /\ st'.messages[id] \in Message
    BY <1>1, MessageType
<1>3. DOMAIN st' = Fields /\ st'.schedule \in Schedule
    BY <1>1 DEF MessageStep, SameShape, TypeOK
<1> DEFINE Rest == /\ \A name \in DOMAIN st'.endpoints :
                         /\ name \in Names
                         /\ st'.endpoints[name] \in Seq(Secrets)
                         /\ Len(st'.endpoints[name]) \in 1..MaxSecrets
                   /\ st'.msgOrder \in Seq(Ids)
<1>4. Rest
  <2>1. CASE UNCHANGED <<st.endpoints, st.msgOrder>>
      BY <2>1 DEF TypeOK
  <2>2. ASSUME NEW name \in Names, NEW secret \in Secrets, AddEndpoint(name, secret)
        PROVE  Rest
    <3>1. /\ st'.endpoints = Put(st.endpoints, name, <<secret>>)
          /\ st'.msgOrder = st.msgOrder
        BY <2>2, AddEndpointStep
    <3>2. <<secret>> \in Seq(Secrets) /\ Len(<<secret>>) \in 1..MaxSecrets
        BY DEF MaxSecrets
    <3>3. QED
        BY <3>1, <3>2 DEF TypeOK, Put
  <2>3. ASSUME NEW name \in Names, NEW secret \in Secrets, RotateSecret(name, secret)
        PROVE  Rest
      BY <2>3, RotateSecretStep DEF TypeOK
  <2>4. ASSUME NEW name \in Names, RemoveEndpoint(name)
        PROVE  Rest
      BY <2>4, RemoveEndpointStep DEF TypeOK
  <2>5. ASSUME NEW id \in Ids, NEW name \in Names, NEW now \in Times,
               Enqueue(id, name, now)
        PROVE  Rest
    <3>1. st'.endpoints = st.endpoints /\ st'.msgOrder = Append(st.msgOrder, id)
        BY <2>5, EnqueueStep
    <3>2. QED
        BY <3>1 DEF TypeOK
  <2>6. ASSUME NEW id \in Ids, NEW verdict \in Verdicts, NEW end \in Times,
               MarkAttempt(id, verdict, end)
        PROVE  Rest
      BY <2>1, <2>6, MarkAttemptStep
  <2>7. ASSUME NEW id \in Ids, NEW now \in Times, Requeue(id, now)
        PROVE  Rest
      BY <2>1, <2>7, RequeueStep
  <2>8. ASSUME NEW at \in Readings, RequeueAll(at)
        PROVE  Rest
      BY <2>1, <2>8, RequeueAllStep
  <2>9. QED
      BY <2>1, <2>2, <2>3, <2>4, <2>5, <2>6, <2>7, <2>8 DEF Next, Compact, vars
<1>5. QED
    BY <1>2, <1>3, <1>4 DEF TypeOK

(***************************************************************************)
(* The store's state keeps its type, whatever the schedule, the endpoints  *)
(* and the clock readings.                                                 *)
(***************************************************************************)
THEOREM TypeCorrect == Spec => []TypeOK
    BY InitTypeOK, NextTypeOK, PTL DEF Spec

-----------------------------------------------------------------------------
(***************************************************************************)
(* The facts about a single message, and what each treatment does to them. *)
(***************************************************************************)
Honest(m, schedule) ==
    DueTimeHonest(m) /\ TellsItsHistory(m) /\ WithinBudget(m, schedule)

LEMMA NewMessageHonest ==
    ASSUME NEW schedule \in Schedule, NEW name \in Names, NEW now \in Nat \ {NoTime}
    PROVE  Honest(NewMessage(name, now), schedule)
<1> SUFFICES ASSUME NEW m, m = NewMessage(name, now) PROVE Honest(m, schedule)
    OBVIOUS
<1>1. /\ m.state = "pending" /\ m.nextDue = now /\ m.failStreak = 0
      /\ m.attempts = <<>> /\ m.deadReason = "none"
    BY DEF NewMessage
<1>2. Len(schedule) \in Nat
    BY DEF Schedule
<1>3. QED
    BY <1>1, <1>2
    DEF Honest, DueTimeHonest, TellsItsHistory, WithinBudget, MaxAttempts

LEMMA RequeuedHonest ==
    ASSUME NEW schedule \in Schedule, NEW m \in Message, NEW now \in Nat \ {NoTime},
           m.state = "dead", Honest(m, schedule)
    PROVE  Honest(Requeued(m, now), schedule)
<1> SUFFICES ASSUME NEW n, n = Requeued(m, now) PROVE Honest(n, schedule)
    OBVIOUS
<1>1. /\ n.state = "pending" /\ n.nextDue = now /\ n.failStreak = 0
      /\ n.attempts = m.attempts /\ n.deadReason = "none"
    BY DEF Requeued, Message
<1>2. Len(schedule) \in Nat /\ Len(n.attempts) \in Nat
    BY <1>1 DEF Schedule, Message
<1>3. QED
    BY <1>1, <1>2
    DEF Honest, DueTimeHonest, TellsItsHistory, WithinBudget, MaxAttempts

LEMMA OrphanedHonest ==
    ASSUME NEW schedule \in Schedule, NEW m \in Message,
           m.state = "pending", Honest(m, schedule)
    PROVE  Honest(Orphaned(m), schedule)
<1> SUFFICES ASSUME NEW n, n = Orphaned(m) PROVE Honest(n, schedule)
    OBVIOUS
<1>1. /\ n.state = "dead" /\ n.nextDue = NoTime /\ n.failStreak = m.failStreak
      /\ n.attempts = m.attempts /\ n.deadReason = "endpoint_removed"
    BY DEF Orphaned, Message
<1>2. QED
    BY <1>1 DEF Honest, DueTimeHonest, TellsItsHistory, WithinBudget

LEMMA AttemptedHonest ==
    ASSUME NEW schedule \in Schedule, NEW m \in Message,
           m.state = "pending", Honest(m, schedule),
           NEW r, r.verdict \in Verdicts,
           r.outcome = IF r.verdict = "accepted" THEN "delivered"
                       ELSE IF HasRetry(schedule, m.failStreak + 1) THEN "retry"
                       ELSE "dead",
           r.outcome = "retry" => r.nextDue # NoTime
    PROVE  Honest(Attempted(m, r), schedule)
<1> SUFFICES ASSUME NEW n, n = Attempted(m, r) PROVE Honest(n, schedule)
    OBVIOUS
<1> DEFINE k == Len(m.attempts)
           budget == Len(schedule)
<1>1. k \in Nat /\ m.failStreak \in Nat /\ budget \in Nat /\ m.attempts \in Seq(Verdicts)
    BY DEF Message, Schedule
<1>2. m.failStreak <= k /\ \A i \in 1..k : m.attempts[i] = "failed"
  <2>1. \A i \in 1..k : m.attempts[i] \in Verdicts /\ m.attempts[i] # "accepted"
      BY <1>1 DEF Honest, TellsItsHistory
  <2>2. QED
      BY <2>1 DEF Honest, TellsItsHistory, Verdicts
<1>3. m.deadReason = "none" /\ m.failStreak <= budget
    BY <1>1 DEF Honest, WithinBudget, MaxAttempts
<1>4. n.attempts = Append(m.attempts, r.verdict)
    BY DEF Attempted, DeliveredNow, RetriedAt, Exhausted, Message
<1>5. /\ Len(n.attempts) = k + 1
      /\ \A i \in 1..k : n.attempts[i] = "failed"
      /\ n.attempts[k + 1] = r.verdict
    BY <1>1, <1>2, <1>4
<1>6. CASE r.verdict = "accepted"
  <2>1. /\ n.state = "delivered" /\ n.failStreak = 0 /\ n.nextDue = NoTime
        /\ n.deadReason = "none"
      BY <1>3, <1>6 DEF Attempted, DeliveredNow, RetriedAt, Exhausted, Message
  <2>2. QED
      BY <1>1, <1>5, <1>6, <2>1
      DEF Honest, DueTimeHonest, TellsItsHistory, WithinBudget, MaxAttempts
<1>7. CASE r.verdict = "failed" /\ HasRetry(schedule, m.failStreak + 1)
  <2>1. /\ n.state = "pending" /\ n.failStreak = m.failStreak + 1
        /\ n.nextDue = r.nextDue /\ n.nextDue # NoTime /\ n.deadReason = "none"
      BY <1>3, <1>7 DEF Attempted, DeliveredNow, RetriedAt, Exhausted, Message
  <2>2. m.failStreak + 1 <= budget
      BY <1>1, <1>7 DEF HasRetry
  <2>3. TellsItsHistory(n)
    <3>1. n.failStreak \in Nat /\ n.failStreak <= k + 1
        BY <1>1, <1>2, <2>1
    <3>2. \A i \in 1..k + 1 : n.attempts[i] = "failed"
        BY <1>1, <1>5, <1>7
    <3>3. Len(n.attempts) = k + 1 /\ n.state # "delivered"
        BY <1>5, <2>1
    <3>4. \A i \in 1..k + 1 : n.attempts[i] # "accepted"
        BY <3>2
    <3>5. \A i \in Len(n.attempts) - n.failStreak + 1..Len(n.attempts) : n.attempts[i] = "failed"
        BY <1>1, <3>1, <3>2, <3>3
    <3>6. \A i \in 1..Len(n.attempts) - 1 : n.attempts[i] = "failed"
        BY <1>1, <3>2, <3>3
    <3>7. QED
        BY <3>1, <3>3, <3>4, <3>5, <3>6 DEF TellsItsHistory
  <2>4. WithinBudget(n, schedule)
      BY <1>1, <2>1, <2>2 DEF WithinBudget, MaxAttempts
  <2>5. QED
      BY <2>1, <2>3, <2>4 DEF Honest, DueTimeHonest
<1>8. CASE r.verdict = "failed" /\ ~HasRetry(schedule, m.failStreak + 1)
  <2>1. /\ n.state = "dead" /\ n.failStreak = m.failStreak + 1 /\ n.nextDue = NoTime
        /\ n.deadReason = "schedule_exhausted"
      BY <1>8 DEF Attempted, DeliveredNow, RetriedAt, Exhausted, Message
  <2>2. m.failStreak = budget
      BY <1>1, <1>3, <1>8 DEF HasRetry
  <2>3. TellsItsHistory(n)
    <3>1. n.failStreak \in Nat /\ n.failStreak <= k + 1
        BY <1>1, <1>2, <2>1
    <3>2. \A i \in 1..k + 1 : n.attempts[i] = "failed"
        BY <1>1, <1>5, <1>8
    <3>3. Len(n.attempts) = k + 1 /\ n.state # "delivered"
        BY <1>5, <2>1
    <3>4. \A i \in 1..k + 1 : n.attempts[i] # "accepted"
        BY <3>2
    <3>5. \A i \in Len(n.attempts) - n.failStreak + 1..Len(n.attempts) : n.attempts[i] = "failed"
        BY <1>1, <3>1, <3>2, <3>3
    <3>6. \A i \in 1..Len(n.attempts) - 1 : n.attempts[i] = "failed"
        BY <1>1, <3>2, <3>3
    <3>7. QED
        BY <3>1, <3>3, <3>4, <3>5, <3>6 DEF TellsItsHistory
  <2>4. WithinBudget(n, schedule)
      BY <1>1, <2>1, <2>2 DEF WithinBudget, MaxAttempts
  <2>5. QED
      BY <2>1, <2>3, <2>4 DEF Honest, DueTimeHonest
<1>9. QED
    BY <1>6, <1>7, <1>8 DEF Verdicts

MessageFacts ==
    \A id \in DOMAIN st.messages : Honest(st.messages[id], st.schedule)

LEMMA InitMessageFacts == Init => MessageFacts
<1> SUFFICES ASSUME Init PROVE MessageFacts
    OBVIOUS
<1>1. PICK schedule \in Schedules : st = ApplyConfig(NewStore, ConfigRec(schedule))
    BY DEF Init, Apply, ConfigRec
<1>2. DOMAIN st.messages = {}
    BY <1>1 DEF NewStore, ApplyConfig
<1>3. QED
    BY <1>2 DEF MessageFacts

LEMMA NextMessageFacts == TypeOK /\ MessageFacts /\ [Next]_vars => MessageFacts'
<1> SUFFICES ASSUME TypeOK, MessageFacts, [Next]_vars,
                    NEW id \in DOMAIN st'.messages
             PROVE  Honest(st'.messages[id], st'.schedule)
    BY DEF MessageFacts
<1>1. /\ st'.schedule = st.schedule
      /\ Kept(id) \/ Created(id) \/ Tried(id) \/ Cancelled(id) \/ Revived(id)
    BY MessageSteps DEF MessageStep, SameShape
<1>2. st.schedule \in Schedule
    BY DEF TypeOK
<1>3. ASSUME id \in DOMAIN st.messages
      PROVE  st.messages[id] \in Message /\ Honest(st.messages[id], st.schedule)
    BY <1>3 DEF TypeOK, MessageFacts
<1>4. CASE Kept(id)
    BY <1>1, <1>3, <1>4 DEF Kept
<1>5. CASE Created(id)
    BY <1>1, <1>2, <1>5, NewMessageHonest, TimesAssumption DEF Created
<1>6. CASE Tried(id)
  <2>1. id \in DOMAIN st.messages /\ st.messages[id].state = "pending"
      BY <1>6 DEF Tried
  <2>2. PICK verdict \in Verdicts, end \in Times :
            st'.messages[id] =
                Attempted(st.messages[id],
                          AttemptRec(id, verdict, Outcome(st, id, verdict),
                                     RetryAt(st, id, verdict, end)))
      BY <1>6 DEF Tried
  <2>3. Outcome(st, id, verdict) = "retry" => RetryAt(st, id, verdict, end) # NoTime
      BY <2>1, RetryAtType
  <2> DEFINE r == AttemptRec(id, verdict, Outcome(st, id, verdict),
                             RetryAt(st, id, verdict, end))
  <2>4. /\ r.verdict = verdict
        /\ r.outcome = Outcome(st, id, verdict)
        /\ r.outcome = "retry" => r.nextDue # NoTime
      BY <2>3 DEF AttemptRec
  <2> HIDE DEF r
  <2>5. Honest(Attempted(st.messages[id], r), st.schedule)
      BY <1>2, <1>3, <2>1, <2>4, AttemptedHonest DEF Outcome
  <2>6. QED
      BY <1>1, <2>2, <2>5 DEF r
<1>7. CASE Cancelled(id)
    BY <1>1, <1>2, <1>3, <1>7, OrphanedHonest DEF Cancelled
<1>8. CASE Revived(id)
    BY <1>1, <1>2, <1>3, <1>8, RequeuedHonest, TimesAssumption DEF Revived
<1>9. QED
    BY <1>1, <1>4, <1>5, <1>6, <1>7, <1>8

LEMMA MessagesHonest == Spec => [](TypeOK /\ MessageFacts)
<1>1. Init => TypeOK /\ MessageFacts
    BY InitTypeOK, InitMessageFacts
<1>2. (TypeOK /\ MessageFacts) /\ [Next]_vars => (TypeOK /\ MessageFacts)'
    BY NextTypeOK, NextMessageFacts
<1>3. QED
    BY <1>1, <1>2, PTL DEF Spec

(***************************************************************************)
(* A message's history tells which attempt delivered it, and its fail      *)
(* streak is a run of failures at the end of it.                           *)
(***************************************************************************)
THEOREM HistoriesTold == Spec => []HistoryHonest
<1>1. MessageFacts => HistoryHonest
    BY DEF MessageFacts, Honest, HistoryHonest
<1>2. QED
    BY <1>1, MessagesHonest, PTL

(***************************************************************************)
(* No message is given up before its schedule is used up, and none is      *)
(* tried again after it.                                                   *)
(***************************************************************************)
THEOREM BudgetsKept == Spec => []RetryBudget
<1>1. MessageFacts => RetryBudget
    BY DEF MessageFacts, Honest, RetryBudget
<1>2. QED
    BY <1>1, MessagesHonest, PTL

(***************************************************************************)
(* A due time other than the zero one marks what waits, and nothing else.  *)
(***************************************************************************)
THEOREM DueTimesHonest == Spec => []DueIffPending
<1>1. MessageFacts => DueIffPending
    BY DEF MessageFacts, Honest, DueIffPending
<1>2. QED
    BY <1>1, MessagesHonest, PTL

(***************************************************************************)
(* Nothing that happened to a message is rewritten, and delivered is final.*)
(***************************************************************************)
THEOREM HistoryIsKept == Spec => HistoryKept
<1> DEFINE Keeps == \A id \in DOMAIN st.messages :
              /\ Has(st'.messages, id)
              /\ IsPrefix(st.messages[id].attempts, st'.messages[id].attempts)
              /\ st.messages[id].state = "delivered" =>
                     st'.messages[id] = st.messages[id]
<1>1. TypeOK /\ [Next]_vars => [Keeps]_vars
  <2> SUFFICES ASSUME TypeOK, [Next]_vars, NEW id \in DOMAIN st.messages
               PROVE  /\ Has(st'.messages, id)
                      /\ IsPrefix(st.messages[id].attempts, st'.messages[id].attempts)
                      /\ st.messages[id].state = "delivered" =>
                             st'.messages[id] = st.messages[id]
      OBVIOUS
  <2> DEFINE m == st.messages[id]
             n == st'.messages[id]
  <2>1. /\ id \in DOMAIN st'.messages
        /\ Kept(id) \/ Tried(id) \/ Cancelled(id) \/ Revived(id)
      BY MessageSteps DEF MessageStep, Created
  <2>2. m \in Message /\ m.attempts \in Seq(Verdicts)
      BY DEF TypeOK, Message
  <2>3. CASE Kept(id)
      BY <2>1, <2>2, <2>3 DEF Kept, Has, IsPrefix
  <2>4. CASE Tried(id)
    <3>1. PICK verdict \in Verdicts, end \in Times :
              n = Attempted(m, AttemptRec(id, verdict, Outcome(st, id, verdict),
                                          RetryAt(st, id, verdict, end)))
        BY <2>4 DEF Tried
    <3>2. PICK r : n = Attempted(m, r) /\ r.verdict = verdict /\ r.outcome \in Outcomes
        BY <3>1 DEF AttemptRec, Outcome, Outcomes
    <3>3. n.attempts = Append(m.attempts, verdict)
        BY <2>2, <3>2 DEF Attempted, DeliveredNow, RetriedAt, Exhausted, Message, Outcomes
    <3>4. IsPrefix(m.attempts, n.attempts)
        BY <2>2, <3>3 DEF IsPrefix
    <3>5. QED
        BY <2>1, <2>4, <3>4 DEF Tried, Has
  <2>5. CASE Cancelled(id)
    <3>1. n.attempts = m.attempts
        BY <2>2, <2>5 DEF Cancelled, Orphaned, Message
    <3>2. QED
        BY <2>1, <2>2, <2>5, <3>1 DEF Cancelled, Has, IsPrefix
  <2>6. CASE Revived(id)
    <3>1. n.attempts = m.attempts
        BY <2>2, <2>6 DEF Revived, Requeued, Message
    <3>2. QED
        BY <2>1, <2>2, <2>6, <3>1 DEF Revived, Has, IsPrefix
  <2>7. QED
      BY <2>1, <2>3, <2>4, <2>5, <2>6
<1>2. QED
    BY <1>1, TypeCorrect, PTL DEF Spec, HistoryKept

-----------------------------------------------------------------------------
(***************************************************************************)
(* Messages and endpoints.  Removing an endpoint dead-letters the messages *)
(* it finds in msgOrder, so that every message is listed there is part of  *)
(* the invariant.                                                          *)
(***************************************************************************)
Tied == MessagesListed /\ PendingHasEndpoint

LEMMA InitTied == Init => Tied
<1> SUFFICES ASSUME Init PROVE Tied
    OBVIOUS
<1>1. PICK schedule \in Schedules : st = ApplyConfig(NewStore, ConfigRec(schedule))
    BY DEF Init, Apply, ConfigRec
<1>2. st.messages = <<>> /\ st.msgOrder = <<>>
    BY <1>1 DEF NewStore, ApplyConfig
<1>3. QED
    BY <1>2 DEF Tied, MessagesListed, Lists, PendingHasEndpoint, ToSet, IsInjective

LEMMA AppendLists ==
    ASSUME NEW X, NEW order \in Seq(X), NEW map, Lists(order, map),
           NEW id \in X, id \notin DOMAIN map, NEW value
    PROVE  Lists(Append(order, id), Put(map, id, value))
<1>1. ToSet(order) = DOMAIN map /\ IsInjective(order)
    BY DEF Lists
<1>2. ListsAlso(Append(order, id), order, id)
    BY <1>1, ListedAppend
<1>3. QED
    BY <1>1, <1>2 DEF Lists, ListsAlso, Put

LEMMA NextListed == TypeOK /\ MessagesListed /\ [Next]_vars => MessagesListed'
<1> SUFFICES ASSUME TypeOK, MessagesListed, [Next]_vars PROVE MessagesListed'
    OBVIOUS
<1>1. CASE DOMAIN st'.messages = DOMAIN st.messages /\ st'.msgOrder = st.msgOrder
    BY <1>1 DEF MessagesListed, Lists
<1>2. ASSUME NEW id \in Ids, NEW name \in Names, NEW now \in Times, Enqueue(id, name, now)
      PROVE  MessagesListed'
  <2>1. /\ id \notin DOMAIN st.messages
        /\ st'.messages = Put(st.messages, id, NewMessage(name, now))
        /\ st'.msgOrder = Append(st.msgOrder, id)
      BY <1>2, EnqueueStep
  <2>2. QED
      BY <2>1, AppendLists DEF MessagesListed, TypeOK
<1>3. ASSUME NEW name \in Names, NEW secret \in Secrets,
             AddEndpoint(name, secret) \/ RotateSecret(name, secret)
      PROVE  MessagesListed'
    BY <1>1, <1>3, AddEndpointStep, RotateSecretStep
<1>4. ASSUME NEW name \in Names, RemoveEndpoint(name)
      PROVE  MessagesListed'
    BY <1>1, <1>4, RemoveEndpointStep
<1>5. ASSUME NEW id \in Ids, NEW verdict \in Verdicts, NEW end \in Times,
             MarkAttempt(id, verdict, end)
      PROVE  MessagesListed'
    BY <1>1, <1>5, MarkAttemptStep
<1>6. ASSUME NEW id \in Ids, NEW now \in Times, Requeue(id, now)
      PROVE  MessagesListed'
    BY <1>1, <1>6, RequeueStep
<1>7. ASSUME NEW at \in Readings, RequeueAll(at)
      PROVE  MessagesListed'
    BY <1>1, <1>7, RequeueAllStep
<1>8. CASE st' = st
    BY <1>1, <1>8
<1>9. QED
    BY <1>2, <1>3, <1>4, <1>5, <1>6, <1>7, <1>8 DEF Next, Compact, vars

LEMMA NextPendingHasEndpoint ==
    TypeOK /\ Tied /\ [Next]_vars => PendingHasEndpoint'
<1> SUFFICES ASSUME TypeOK, Tied, [Next]_vars, NEW id \in DOMAIN st'.messages,
                    st'.messages[id].state = "pending"
             PROVE  st'.messages[id].endpoint \in DOMAIN st'.endpoints
    BY DEF PendingHasEndpoint, Has
<1> DEFINE Goal == st'.messages[id].endpoint \in DOMAIN st'.endpoints
<1>1. ASSUME id \in DOMAIN st.messages, st.messages[id].state = "pending"
      PROVE  st.messages[id].endpoint \in DOMAIN st.endpoints
    BY <1>1 DEF Tied, PendingHasEndpoint, Has
<1>2. ASSUME NEW name \in Names, NEW secret \in Secrets,
             AddEndpoint(name, secret) \/ RotateSecret(name, secret)
      PROVE  Goal
  <2>1. st'.messages = st.messages /\ DOMAIN st.endpoints \subseteq DOMAIN st'.endpoints
      BY <1>2, AddEndpointStep, RotateSecretStep DEF Put
  <2>2. QED
      BY <1>1, <2>1
<1>3. ASSUME NEW name \in Names, RemoveEndpoint(name)
      PROVE  Goal
  <2>1. /\ id \in DOMAIN st.messages
        /\ DOMAIN st'.endpoints = DOMAIN st.endpoints \ {name}
        /\ st'.messages[id] = IF id \in DeadLettered(st, name)
                              THEN Orphaned(st.messages[id])
                              ELSE st.messages[id]
      BY <1>3, RemoveEndpointStep
  <2>2. st.messages[id] \in Message
      BY <2>1 DEF TypeOK
  <2>3. id \notin DeadLettered(st, name)
      BY <2>1, <2>2 DEF Orphaned, Message
  <2>4. id \in ToSet(st.msgOrder)
      BY <2>1 DEF Tied, MessagesListed, Lists
  <2>5. st.messages[id].state = "pending" /\ st.messages[id].endpoint # name
      BY <2>1, <2>3, <2>4 DEF DeadLettered
  <2>6. QED
      BY <1>1, <2>1, <2>3, <2>5
<1>4. ASSUME NEW i \in Ids, NEW name \in Names, NEW now \in Times, Enqueue(i, name, now)
      PROVE  Goal
  <2>1. /\ name \in DOMAIN st.endpoints
        /\ st'.endpoints = st.endpoints
        /\ st'.messages = Put(st.messages, i, NewMessage(name, now))
      BY <1>4, EnqueueStep
  <2>2. CASE id = i
      BY <2>1, <2>2 DEF Put, NewMessage
  <2>3. CASE id # i
      BY <1>1, <2>1, <2>3 DEF Put
  <2>4. QED
      BY <2>2, <2>3
<1>5. ASSUME NEW i \in Ids, NEW verdict \in Verdicts, NEW end \in Times,
             MarkAttempt(i, verdict, end)
      PROVE  Goal
  <2>1. /\ id \in DOMAIN st.messages
        /\ st'.endpoints = st.endpoints
        /\ i \in DOMAIN st.messages
        /\ st.messages[i].state = "pending"
        /\ id # i => st'.messages[id] = st.messages[id]
        /\ st'.messages[i] =
               Attempted(st.messages[i],
                         AttemptRec(i, verdict, Outcome(st, i, verdict),
                                    RetryAt(st, i, verdict, end)))
      BY <1>5, MarkAttemptStep
  <2>2. st'.messages[i].endpoint = st.messages[i].endpoint
      BY <2>1 DEF Attempted, DeliveredNow, RetriedAt, Exhausted, AttemptRec, Outcome, TypeOK, Message
  <2>3. QED
      BY <1>1, <2>1, <2>2
<1>6. ASSUME NEW i \in Ids, NEW now \in Times, Requeue(i, now)
      PROVE  Goal
  <2>1. /\ id \in DOMAIN st.messages
        /\ st'.endpoints = st.endpoints
        /\ CanRequeue(st, i)
        /\ st'.messages[id] = IF id = i THEN Requeued(st.messages[id], now)
                              ELSE st.messages[id]
      BY <1>6, RequeueStep
  <2>2. QED
      BY <1>1, <2>1 DEF CanRequeue, Has, Requeued, TypeOK, Message
<1>7. ASSUME NEW at \in Readings, RequeueAll(at)
      PROVE  Goal
  <2>1. /\ id \in DOMAIN st.messages
        /\ st'.endpoints = st.endpoints
        /\ st'.messages[id] = IF id \in ReachedByAll(st)
                              THEN Requeued(st.messages[id], at[id])
                              ELSE st.messages[id]
      BY <1>7, RequeueAllStep
  <2>2. id \in ReachedByAll(st) => CanRequeue(st, id)
      BY ReachedCanBeRequeued
  <2>3. QED
      BY <1>1, <2>1, <2>2 DEF CanRequeue, Has, Requeued, TypeOK, Message
<1>8. CASE st' = st
    BY <1>1, <1>8
<1>9. QED
    BY <1>2, <1>3, <1>4, <1>5, <1>6, <1>7, <1>8 DEF Next, Compact, vars

(***************************************************************************)
(* The engine never meets a due message without an endpoint, and the       *)
(* enqueue order lists every message exactly once.                         *)
(***************************************************************************)
THEOREM PendingAlwaysDeliverable == Spec => [](PendingHasEndpoint /\ MessagesListed)
<1>1. Init => TypeOK /\ Tied
    BY InitTypeOK, InitTied
<1>2. (TypeOK /\ Tied) /\ [Next]_vars => (TypeOK /\ Tied)'
    BY NextTypeOK, NextListed, NextPendingHasEndpoint DEF Tied
<1>3. Tied => PendingHasEndpoint /\ MessagesListed
    BY DEF Tied
<1>4. QED
    BY <1>1, <1>2, <1>3, PTL DEF Spec

-----------------------------------------------------------------------------
(***************************************************************************)
(* The endpoints' order: a name is added when its endpoint is, and taken   *)
(* out of the list when its endpoint goes.                                 *)
(***************************************************************************)
EndpointsListed == st.epOrder \in Seq(Names) /\ Lists(st.epOrder, st.endpoints)

LEMMA InitEndpointsListed == Init => EndpointsListed
<1> SUFFICES ASSUME Init PROVE EndpointsListed
    OBVIOUS
<1>1. PICK schedule \in Schedules : st = ApplyConfig(NewStore, ConfigRec(schedule))
    BY DEF Init, Apply, ConfigRec
<1>2. st.endpoints = <<>> /\ st.epOrder = <<>>
    BY <1>1 DEF NewStore, ApplyConfig
<1>3. QED
    BY <1>2 DEF EndpointsListed, Lists, ToSet, IsInjective

LEMMA NextEndpointsListed == TypeOK /\ EndpointsListed /\ [Next]_vars => EndpointsListed'
<1> SUFFICES ASSUME TypeOK, EndpointsListed, [Next]_vars PROVE EndpointsListed'
    OBVIOUS
<1>1. CASE DOMAIN st'.endpoints = DOMAIN st.endpoints /\ st'.epOrder = st.epOrder
    BY <1>1 DEF EndpointsListed, Lists
<1>2. ASSUME NEW name \in Names, NEW secret \in Secrets, AddEndpoint(name, secret)
      PROVE  EndpointsListed'
  <2>1. /\ name \notin DOMAIN st.endpoints
        /\ st'.endpoints = Put(st.endpoints, name, <<secret>>)
        /\ st'.epOrder = Append(st.epOrder, name)
      BY <1>2, AddEndpointStep
  <2>2. QED
      BY <2>1, AppendLists DEF EndpointsListed
<1>3. ASSUME NEW name \in Names, RemoveEndpoint(name)
      PROVE  EndpointsListed'
  <2>1. /\ DOMAIN st'.endpoints = DOMAIN st.endpoints \ {name}
        /\ st'.epOrder = Without(st.epOrder, name)
      BY <1>3, RemoveEndpointStep
  <2>2. QED
      BY <2>1, WithoutProperties DEF EndpointsListed, Lists
<1>4. ASSUME NEW name \in Names, NEW secret \in Secrets, RotateSecret(name, secret)
      PROVE  EndpointsListed'
    BY <1>1, <1>4, RotateSecretStep
<1>5. ASSUME NEW id \in Ids, NEW name \in Names, NEW now \in Times, Enqueue(id, name, now)
      PROVE  EndpointsListed'
    BY <1>1, <1>5, EnqueueStep
<1>6. ASSUME NEW id \in Ids, NEW verdict \in Verdicts, NEW end \in Times,
             MarkAttempt(id, verdict, end)
      PROVE  EndpointsListed'
    BY <1>1, <1>6, MarkAttemptStep
<1>7. ASSUME NEW id \in Ids, NEW now \in Times, Requeue(id, now)
      PROVE  EndpointsListed'
    BY <1>1, <1>7, RequeueStep
<1>8. ASSUME NEW at \in Readings, RequeueAll(at)
      PROVE  EndpointsListed'
    BY <1>1, <1>8, RequeueAllStep
<1>9. CASE st' = st
    BY <1>1, <1>9
<1>10. QED
    BY <1>2, <1>3, <1>4, <1>5, <1>6, <1>7, <1>8, <1>9 DEF Next, Compact, vars

(***************************************************************************)
(* Both orders list what is there, each thing once, whatever is added and  *)
(* removed: a snapshot made from them loses nothing.                       *)
(***************************************************************************)
THEOREM OrdersComplete == Spec => []OrderMatchesMap
<1>1. Init => EndpointsListed
    BY InitEndpointsListed
<1>2. TypeOK /\ EndpointsListed /\ [Next]_vars => EndpointsListed'
    BY NextEndpointsListed
<1>3. MessagesListed /\ EndpointsListed => OrderMatchesMap
    BY DEF EndpointsListed, OrderMatchesMap
<1>4. QED
    BY <1>1, <1>2, <1>3, TypeCorrect, PendingAlwaysDeliverable, PTL DEF Spec

(***************************************************************************)
(* At any time, and in whatever order the map of messages is walked,       *)
(* status announces something due exactly when deliver would find          *)
(* something to attempt: no due time of a waiting message is the zero that *)
(* stands for none.                                                        *)
(***************************************************************************)
THEOREM StatusIsTrue == Spec => []StatusAgreesWithDue
<1>1. TypeOK /\ MessagesListed /\ DueIffPending => StatusAgreesWithDue
  <2> SUFFICES ASSUME TypeOK, MessagesListed, DueIffPending,
                      NEW order \in SetToSeqs(DOMAIN st.messages),
                      NEW now \in Times \cup {st.messages[id].nextDue : id \in DOMAIN st.messages}
               PROVE  Due(st, now) # <<>> <=>
                          Counts(st, order).pending > 0 /\ Counts(st, order).nextDue <= now
      BY DEF StatusAgreesWithDue
  <2>1. StoreType(st)
      BY DEF TypeOK, Fields, StoreType, MessagesListed, Lists
  <2>2. now \in Int
    <3>1. \A id \in DOMAIN st.messages : st.messages[id].nextDue \in Nat
        BY DEF TypeOK, Message
    <3>2. Times \subseteq Nat
        BY TimesAssumption
    <3>3. CASE now \in Times
        BY <3>2, <3>3
    <3>4. CASE now \in {st.messages[id].nextDue : id \in DOMAIN st.messages}
      <4>1. PICK id \in DOMAIN st.messages : now = st.messages[id].nextDue
          BY <3>4
      <4>2. QED
          BY <3>1, <4>1
    <3>5. QED
        BY <3>3, <3>4
  <2>3. WaitsHonestly(st)
      BY DEF DueIffPending, DueTimeHonest, WaitsHonestly
  <2>4. QED
      BY <2>1, <2>2, <2>3, CountsAgreeWithDue
<1>2. QED
    BY <1>1, TypeCorrect, PendingAlwaysDeliverable, DueTimesHonest, PTL

-----------------------------------------------------------------------------
(***************************************************************************)
(* Refinement of Outbox.  Seen through Status and Streaks, a step that    *)
(* only keeps messages stutters; the others are one step of Outbox each.   *)
(***************************************************************************)
LEMMA InitImplements == Init => Promise!Init
<1> SUFFICES ASSUME Init PROVE Promise!Init
    OBVIOUS
<1>1. PICK schedule \in Schedules : st = Apply(NewStore, ConfigRec(schedule))
    BY DEF Init
<1>2. schedule \in Schedule
    BY SchedulesAssumption
<1>3. st = [NewStore EXCEPT !.schedule = schedule]
    BY <1>1, <1>2, ScheduleRoundTrip DEF Apply, ConfigRec, ApplyConfig
<1>4. DOMAIN st.messages = {} /\ st.schedule = schedule
    BY <1>3 DEF NewStore
<1>5. MaxAttempts(st.schedule) \in Nat \ {0}
    BY <1>2, <1>4 DEF MaxAttempts, Schedule
<1>6. QED
    BY <1>4, <1>5 DEF Promise!Init, Status, Streaks, Has

LEMMA AllKept ==
    ASSUME SameShape, DOMAIN st'.messages = DOMAIN st.messages,
           \A id \in DOMAIN st.messages : Kept(id)
    PROVE  UNCHANGED Promise!vars
    BY DEF SameShape, Kept, Promise!vars, Status, Streaks, Has

LEMMA NextImplements ==
    TypeOK /\ MessageFacts /\ [Next]_vars => [Promise!Next]_(Promise!vars)
<1> SUFFICES ASSUME TypeOK, MessageFacts, [Next]_vars
             PROVE  [Promise!Next]_(Promise!vars)
    OBVIOUS
<1>1. SameShape
    BY MessageSteps DEF MessageStep
<1>2. MaxAttempts(st'.schedule) = MaxAttempts(st.schedule)
    BY <1>1 DEF SameShape
<1>3. CASE st'.messages = st.messages
    BY <1>1, <1>3, AllKept DEF Kept
<1>4. ASSUME NEW name \in Names, NEW secret \in Secrets,
             AddEndpoint(name, secret) \/ RotateSecret(name, secret)
      PROVE  [Promise!Next]_(Promise!vars)
    BY <1>3, <1>4, AddEndpointStep, RotateSecretStep
<1>5. ASSUME NEW name \in Names, RemoveEndpoint(name)
      PROVE  [Promise!Next]_(Promise!vars)
  <2> DEFINE set == DeadLettered(st, name)
  <2>1. /\ set \subseteq DOMAIN st.messages
        /\ set \subseteq Ids
        /\ \A id \in set : st.messages[id].state = "pending"
      BY DEF DeadLettered, TypeOK
  <2>2. /\ DOMAIN st'.messages = DOMAIN st.messages
        /\ \A id \in DOMAIN st.messages :
               st'.messages[id] = IF id \in set THEN Orphaned(st.messages[id])
                                  ELSE st.messages[id]
      BY <1>5, RemoveEndpointStep
  <2>3. \A id \in DOMAIN st.messages :
            /\ st'.messages[id].state = IF id \in set THEN "dead"
                                       ELSE st.messages[id].state
            /\ st'.messages[id].failStreak = st.messages[id].failStreak
      BY <2>2 DEF Orphaned, TypeOK, Message
  <2> HIDE DEF set
  <2>4. \A id \in set : Status(st)[id] = "pending"
      BY <2>1 DEF Status, Has
  <2>5. Status(st)' = [id \in Ids |-> IF id \in set THEN "dead" ELSE Status(st)[id]]
      BY <2>1, <2>2, <2>3 DEF Status, Has
  <2>6. Streaks(st)' = Streaks(st)
      BY <2>2, <2>3 DEF Streaks, Has
  <2>7. Promise!Cancel(set)
      BY <1>2, <2>4, <2>5, <2>6 DEF Promise!Cancel
  <2>8. QED
      BY <2>1, <2>7 DEF Promise!Next
<1>6. ASSUME NEW id \in Ids, NEW name \in Names, NEW now \in Times, Enqueue(id, name, now)
      PROVE  [Promise!Next]_(Promise!vars)
  <2>1. /\ id \notin DOMAIN st.messages
        /\ st'.messages = Put(st.messages, id, NewMessage(name, now))
      BY <1>6, EnqueueStep
  <2>2. /\ DOMAIN st'.messages = DOMAIN st.messages \cup {id}
        /\ st'.messages[id].state = "pending" /\ st'.messages[id].failStreak = 0
        /\ \A i \in DOMAIN st.messages : st'.messages[i] = st.messages[i]
      BY <2>1 DEF Put, NewMessage
  <2>3. Status(st)[id] = "none" /\ Status(st)' = [Status(st) EXCEPT ![id] = "pending"]
      BY <2>1, <2>2 DEF Status, Has
  <2>4. Streaks(st)' = Streaks(st)
      BY <2>1, <2>2 DEF Streaks, Has
  <2>5. Promise!Accept(id)
      BY <1>2, <2>3, <2>4 DEF Promise!Accept
  <2>6. QED
      BY <2>5 DEF Promise!Next
<1>7. ASSUME NEW id \in Ids, NEW verdict \in Verdicts, NEW end \in Times,
             MarkAttempt(id, verdict, end)
      PROVE  [Promise!Next]_(Promise!vars)
  <2> DEFINE m == st.messages[id]
             n == st'.messages[id]
             budget == MaxAttempts(st.schedule)
  <2>1. /\ id \in DOMAIN st.messages
        /\ m.state = "pending"
        /\ DOMAIN st'.messages = DOMAIN st.messages
        /\ \A i \in DOMAIN st.messages \ {id} : st'.messages[i] = st.messages[i]
        /\ n = Attempted(m, AttemptRec(id, verdict, Outcome(st, id, verdict),
                                       RetryAt(st, id, verdict, end)))
      BY <1>7, MarkAttemptStep
  <2>2. m \in Message /\ Honest(m, st.schedule) /\ Len(st.schedule) \in Nat
      BY <2>1 DEF TypeOK, MessageFacts, Schedule
  <2>3. Status(st)[id] = "pending" /\ Streaks(st)[id] = m.failStreak
      BY <2>1 DEF Status, Streaks, Has
  <2>4. /\ Status(st)' = [Status(st) EXCEPT ![id] = n.state]
        /\ Streaks(st)' = [Streaks(st) EXCEPT ![id] = n.failStreak]
      BY <2>1 DEF Status, Streaks, Has
  <2>5. CASE verdict = "accepted"
    <3>1. n.state = "delivered" /\ n.failStreak = 0
        BY <2>1, <2>2, <2>5 DEF Attempted, DeliveredNow, RetriedAt, Exhausted, AttemptRec, Outcome, Message
    <3>2. Promise!Deliver(id)
        BY <1>2, <2>3, <2>4, <3>1 DEF Promise!Deliver
    <3>3. QED
        BY <3>2 DEF Promise!Next
  <2>6. CASE verdict = "failed"
    <3>1. m.failStreak \in Nat /\ budget = Len(st.schedule) + 1
        BY <2>2 DEF Message, MaxAttempts
    <3>2. HasRetry(st.schedule, m.failStreak + 1) <=> m.failStreak + 1 < budget
        BY <2>2, <3>1 DEF HasRetry
    <3>3. /\ n.failStreak = m.failStreak + 1
          /\ n.state = IF m.failStreak + 1 < budget THEN "pending" ELSE "dead"
        BY <2>1, <2>2, <2>6, <3>2 DEF Attempted, DeliveredNow, RetriedAt, Exhausted, AttemptRec, Outcome, Message
    <3>4. Promise!Fail(id)
        BY <1>2, <2>3, <2>4, <3>3 DEF Promise!Fail
    <3>5. QED
        BY <3>4 DEF Promise!Next
  <2>7. QED
      BY <2>5, <2>6 DEF Verdicts
<1>8. ASSUME NEW set, NEW at,
             \A id \in set : CanRequeue(st, id),
             DOMAIN st'.messages = DOMAIN st.messages,
             \A id \in DOMAIN st.messages :
                st'.messages[id] = IF id \in set THEN Requeued(st.messages[id], at[id])
                                   ELSE st.messages[id]
      PROVE  [Promise!Next]_(Promise!vars)
  <2>1. \A id \in set : id \in DOMAIN st.messages /\ st.messages[id].state = "dead"
      BY <1>8 DEF CanRequeue, Has
  <2>2. \A id \in DOMAIN st.messages :
            /\ st'.messages[id].state = IF id \in set THEN "pending"
                                       ELSE st.messages[id].state
            /\ st'.messages[id].failStreak = IF id \in set THEN 0
                                            ELSE st.messages[id].failStreak
      BY <1>8 DEF Requeued, TypeOK, Message
  <2>3. set \in SUBSET Ids /\ \A id \in set : Status(st)[id] = "dead"
      BY <2>1 DEF Status, Has, TypeOK
  <2>4. Status(st)' = [id \in Ids |-> IF id \in set THEN "pending" ELSE Status(st)[id]]
      BY <1>8, <2>1, <2>2 DEF Status, Has
  <2>5. Streaks(st)' = [id \in Ids |-> IF id \in set THEN 0 ELSE Streaks(st)[id]]
      BY <1>8, <2>1, <2>2 DEF Streaks, Has
  <2>6. Promise!Requeue(set)
      BY <1>2, <2>3, <2>4, <2>5 DEF Promise!Requeue
  <2>7. QED
      BY <2>3, <2>6 DEF Promise!Next
<1>9. ASSUME NEW id \in Ids, NEW now \in Times, Requeue(id, now)
      PROVE  [Promise!Next]_(Promise!vars)
  <2>1. /\ CanRequeue(st, id)
        /\ DOMAIN st'.messages = DOMAIN st.messages
        /\ \A i \in DOMAIN st.messages :
               st'.messages[i] = IF i = id THEN Requeued(st.messages[i], now)
                                 ELSE st.messages[i]
      BY <1>9, RequeueStep
  <2>2. \A i \in {id} : CanRequeue(st, i)
      BY <2>1
  <2>3. \A i \in DOMAIN st.messages :
            st'.messages[i] = IF i \in {id} THEN Requeued(st.messages[i], [j \in Ids |-> now][i])
                              ELSE st.messages[i]
      BY <2>1 DEF TypeOK
  <2>4. QED
      BY <1>8, <2>1, <2>2, <2>3
<1>10. ASSUME NEW at \in Readings, RequeueAll(at)
       PROVE  [Promise!Next]_(Promise!vars)
  <2>1. /\ DOMAIN st'.messages = DOMAIN st.messages
        /\ \A i \in DOMAIN st.messages :
               st'.messages[i] = IF i \in ReachedByAll(st)
                                 THEN Requeued(st.messages[i], at[i])
                                 ELSE st.messages[i]
      BY <1>10, RequeueAllStep
  <2>2. \A i \in ReachedByAll(st) : CanRequeue(st, i)
      BY ReachedCanBeRequeued
  <2>3. QED
      BY <1>8, <2>1, <2>2
<1>11. CASE st' = st
    BY <1>3, <1>11
<1>12. QED
    BY <1>4, <1>5, <1>6, <1>7, <1>9, <1>10, <1>11 DEF Next, Compact, vars

(***************************************************************************)
(* The store implements Outbox: commands, retries, dead-lettering and      *)
(* compaction together never do to a message what Outbox does not allow.   *)
(***************************************************************************)
THEOREM StoreImplementsOutbox == Spec => ImplementsOutbox
<1>1. Init => TypeOK /\ MessageFacts
    BY InitTypeOK, InitMessageFacts
<1>2. (TypeOK /\ MessageFacts) /\ [Next]_vars => (TypeOK /\ MessageFacts)'
    BY NextTypeOK, NextMessageFacts
<1>3. QED
    BY <1>1, <1>2, InitImplements, NextImplements, PTL
    DEF Spec, ImplementsOutbox, Promise!Spec
-----------------------------------------------------------------------------
(***************************************************************************)
(* requeue --all.  RequeueAll takes its whole loop in one step; it is the  *)
(* loop: one Requeue after another, each allowed by the state that the one *)
(* before it left.                                                         *)
(***************************************************************************)
RequeuedUpTo(s, ids, k, at) ==
    [s EXCEPT !.messages = [id \in DOMAIN s.messages |-> IF id \in {ids[i] : i \in 1..k}
                                                         THEN Requeued(s.messages[id], at[id])
                                                         ELSE s.messages[id]]]

LEMMA RequeuedNone ==
    ASSUME NEW s, IsStore(s), NEW ids, NEW at
    PROVE  RequeuedUpTo(s, ids, 0, at) = s
<1>1. {ids[i] : i \in 1..0} = {}
    OBVIOUS
<1>2. s.messages = [id \in DOMAIN s.messages |-> s.messages[id]]
    BY DEF IsStore, IsMap
<1>3. [id \in DOMAIN s.messages |-> IF id \in {} THEN Requeued(s.messages[id], at[id])
                                    ELSE s.messages[id]] = s.messages
    BY <1>2
<1>4. QED
    BY <1>1, <1>3 DEF RequeuedUpTo, IsStore

LEMMA RequeuedOneMore ==
    ASSUME NEW s, IsStore(s), NEW ids \in Seq(DOMAIN s.messages), IsInjective(ids),
           NEW k \in 1..Len(ids), NEW at \in [Ids -> Nat], CanRequeue(s, ids[k])
    PROVE  LET before == RequeuedUpTo(s, ids, k - 1, at)
           IN  /\ IsStore(before)
               /\ CanRequeue(before, ids[k])
               /\ Applies(before, RequeueRec(ids[k], at[ids[k]]))
               /\ Apply(before, RequeueRec(ids[k], at[ids[k]])) = RequeuedUpTo(s, ids, k, at)
<1> DEFINE before == RequeuedUpTo(s, ids, k - 1, at)
           id == ids[k]
           earlier == {ids[i] : i \in 1..k - 1}
<1>1. k \in Nat /\ k \in DOMAIN ids /\ id \in DOMAIN s.messages
    OBVIOUS
<1>2. id \notin earlier /\ {ids[i] : i \in 1..k} = earlier \cup {id}
    BY <1>1 DEF IsInjective
<1> DEFINE messages == [i \in DOMAIN s.messages |-> IF i \in earlier
                                                    THEN Requeued(s.messages[i], at[i])
                                                    ELSE s.messages[i]]
<1>3. before = [s EXCEPT !.messages = messages]
    BY DEF RequeuedUpTo
<1>4. \A i \in DOMAIN s.messages : i \in Ids /\ s.messages[i] \in Message
    BY DEF IsStore, IsMap
<1>5. IsMap(messages, Ids, Message) /\ DOMAIN messages = DOMAIN s.messages
    BY <1>4, RequeuedType DEF IsMap
<1>6. messages[id] = s.messages[id]
    BY <1>1, <1>2
<1>7. [messages EXCEPT ![id] = Requeued(messages[id], at[id])]
          = [i \in DOMAIN s.messages |-> IF i \in earlier \cup {id}
                                         THEN Requeued(s.messages[i], at[i])
                                         ELSE s.messages[i]]
    BY <1>1, <1>2, <1>6
<1> HIDE DEF earlier, messages, before
<1>8. IsStore(before) /\ before.messages = messages /\ before.endpoints = s.endpoints
    BY <1>3, <1>5 DEF IsStore
<1>9. CanRequeue(before, id) /\ Applies(before, RequeueRec(id, at[id]))
    BY <1>1, <1>5, <1>6, <1>8 DEF CanRequeue, Has, Applies, RequeueRec
<1>10. Apply(before, RequeueRec(id, at[id]))
           = [before EXCEPT !.messages = [before.messages EXCEPT ![id] = Requeued(before.messages[id], at[id])]]
    BY DEF Apply, ApplyRequeue, RequeueRec
<1>11. RequeuedUpTo(s, ids, k, at)
           = [s EXCEPT !.messages = [messages EXCEPT ![id] = Requeued(messages[id], at[id])]]
    BY <1>2, <1>7 DEF RequeuedUpTo
<1>12. Apply(before, RequeueRec(id, at[id])) = RequeuedUpTo(s, ids, k, at)
    BY <1>3, <1>8, <1>10, <1>11 DEF IsStore
<1>13. QED
    BY <1>8, <1>9, <1>12 DEF before

LEMMA ReachedProperties ==
    ASSUME IsStore(st)
    PROVE  /\ Reached(st) \in Seq(DOMAIN st.messages)
           /\ IsInjective(Reached(st))
           /\ ToSet(Reached(st)) = ReachedByAll(st)
           /\ \A k \in 1..Len(Reached(st)) : CanRequeue(st, Reached(st)[k])
<1> DEFINE indices == {i \in 1..Len(st.msgOrder) : st.msgOrder[i] \in ReachedByAll(st)}
<1>1. /\ st.msgOrder \in Seq(DOMAIN st.messages) /\ IsInjective(st.msgOrder)
    BY DEF IsStore, ToSet
<1>2. {st.msgOrder[i] : i \in indices} = ReachedByAll(st)
    BY DEF ReachedByAll
<1>3. indices \in SUBSET (1..Len(st.msgOrder)) /\ Reached(st) = Sublist(st.msgOrder, indices)
    BY DEF Reached
<1> HIDE DEF indices
<1>4. /\ Reached(st) \in Seq(DOMAIN st.messages) /\ IsInjective(Reached(st))
      /\ ToSet(Reached(st)) = ReachedByAll(st)
    BY <1>1, <1>2, <1>3, SublistProperties
<1>5. \A id \in ReachedByAll(st) : CanRequeue(st, id)
    BY <1>1 DEF ReachedByAll
<1>6. \A k \in 1..Len(Reached(st)) : Reached(st)[k] \in ToSet(Reached(st))
    BY <1>4 DEF ToSet
<1>7. QED
    BY <1>4, <1>5, <1>6

LEMMA RequeueAllUpTo ==
    ASSUME IsStore(st), NEW at \in Readings, RequeueAll(at)
    PROVE  st' = RequeuedUpTo(st, Reached(st), Len(Reached(st)), at)
<1>1. ReachedByAll(st) = {Reached(st)[i] : i \in 1..Len(Reached(st))}
    BY ReachedProperties DEF ToSet
<1>2. QED
    BY <1>1 DEF RequeueAll, RequeuedUpTo

\* The step as a sequence of calls of Requeue: each is one that Requeue allows at
\* that point, and what could still be requeued after them is behind a dead
\* message that could not.
RequeuesInTurn(at) ==
    \E ids \in Seq(DOMAIN st.messages) : \E after :
        /\ after[0] = st /\ after[Len(ids)] = st'
        /\ log' = log \o [k \in 1..Len(ids) |-> RequeueRec(ids[k], at[ids[k]])]
        /\ \A k \in 1..Len(ids) :
              /\ CanRequeue(after[k - 1], ids[k])
              /\ after[k] = Apply(after[k - 1], RequeueRec(ids[k], at[ids[k]]))
        /\ \A i \in 1..Len(st'.msgOrder) :
              CanRequeue(st', st'.msgOrder[i]) =>
                  \E j \in 1..i : /\ st'.messages[st'.msgOrder[j]].state = "dead"
                                  /\ ~CanRequeue(st', st'.msgOrder[j])

LEMMA RequeueAllTakesTurns ==
    ASSUME IsStore(st), NEW at \in Readings, RequeueAll(at)
    PROVE  RequeuesInTurn(at)
<1> DEFINE ids == Reached(st)
           n == Len(ids)
           after == [k \in 0..n |-> RequeuedUpTo(st, ids, k, at)]
<1>1. /\ ids \in Seq(DOMAIN st.messages) /\ IsInjective(ids) /\ n \in Nat
      /\ ToSet(ids) = ReachedByAll(st)
      /\ \A k \in 1..n : CanRequeue(st, ids[k])
    BY ReachedProperties
<1>2. at \in [Ids -> Nat]
    BY TimesAssumption DEF Readings
<1>3. st' = RequeuedUpTo(st, ids, n, at) /\ RequeuedUpTo(st, ids, 0, at) = st
    BY RequeueAllUpTo, RequeuedNone
<1>4. log' = log \o [k \in 1..n |-> RequeueRec(ids[k], at[ids[k]])]
    BY DEF RequeueAll
<1>5. ASSUME NEW k \in 1..n
      PROVE  /\ CanRequeue(after[k - 1], ids[k])
             /\ after[k] = Apply(after[k - 1], RequeueRec(ids[k], at[ids[k]]))
  <2>1. CanRequeue(st, ids[k])
      BY <1>1
  <2>2. /\ CanRequeue(RequeuedUpTo(st, ids, k - 1, at), ids[k])
        /\ Apply(RequeuedUpTo(st, ids, k - 1, at), RequeueRec(ids[k], at[ids[k]]))
               = RequeuedUpTo(st, ids, k, at)
      BY <1>1, <1>2, <2>1, RequeuedOneMore
  <2>3. k \in 0..n /\ k - 1 \in 0..n
      BY <1>1
  <2> HIDE DEF ids, n
  <2>4. QED
      BY <2>2, <2>3
<1>6. ASSUME NEW i \in 1..Len(st'.msgOrder), CanRequeue(st', st'.msgOrder[i])
      PROVE  \E j \in 1..i : /\ st'.messages[st'.msgOrder[j]].state = "dead"
                             /\ ~CanRequeue(st', st'.msgOrder[j])
  <2> DEFINE id(j) == st.msgOrder[j]
  <2>1. /\ st'.msgOrder = st.msgOrder /\ st'.endpoints = st.endpoints
        /\ DOMAIN st'.messages = DOMAIN st.messages
        /\ \A m \in DOMAIN st.messages :
              st'.messages[m] = IF m \in ReachedByAll(st) THEN Requeued(st.messages[m], at[m])
                                ELSE st.messages[m]
      BY DEF IsStore, RequeueAll
  <2>2. /\ Len(st.msgOrder) \in Nat /\ i \in 1..Len(st.msgOrder)
        /\ \A j \in 1..i : j \in 1..Len(st.msgOrder) /\ id(j) \in DOMAIN st.messages
        /\ \A m \in DOMAIN st.messages : st.messages[m] \in Message
      BY <2>1 DEF IsStore, IsMap, ToSet
  <2>3. ASSUME NEW m \in ReachedByAll(st), m \in DOMAIN st.messages
        PROVE  st'.messages[m].state = "pending"
    <3>1. Requeued(st.messages[m], at[m]).state = "pending"
        BY <2>2, <2>3 DEF Requeued, Message
    <3>2. st'.messages[m] = Requeued(st.messages[m], at[m])
        BY <2>1, <2>3
    <3>3. QED
        BY <3>1, <3>2
  <2>4. id(i) \notin ReachedByAll(st)
      BY <1>6, <2>1, <2>2, <2>3 DEF CanRequeue
  <2>5. st.messages[id(i)].state = "dead"
      BY <1>6, <2>1, <2>2, <2>4 DEF CanRequeue
  <2>6. PICK j \in 1..i : st.messages[id(j)].state = "dead" /\ ~CanRequeue(st, id(j))
      BY <2>2, <2>4, <2>5 DEF ReachedByAll
  <2>7. id(j) \notin ReachedByAll(st)
    <3>1. \A m \in ReachedByAll(st) : CanRequeue(st, m)
        BY <1>1 DEF ToSet
    <3>2. QED
        BY <2>6, <3>1
  <2>8. st'.messages[id(j)] = st.messages[id(j)]
      BY <2>1, <2>2, <2>6, <2>7
  <2>9. QED
      BY <2>1, <2>2, <2>6, <2>8 DEF CanRequeue, Has
<1>7. after[0] = st /\ after[n] = st'
  <2>1. 0 \in 0..n /\ n \in 0..n
      BY <1>1
  <2> HIDE DEF ids, n
  <2>2. QED
      BY <1>3, <2>1
<1> HIDE DEF ids, after
<1>8. QED
    BY <1>1, <1>4, <1>5, <1>6, <1>7 DEF RequeuesInTurn

-----------------------------------------------------------------------------
(***************************************************************************)
(* Replay.  The log is one that Open takes, and Open makes of it exactly   *)
(* what is in memory.                                                      *)
(***************************************************************************)
Reproduced ==
    /\ IsStore(st)
    /\ \E X : log \in Seq(X)
    /\ Replayable(log) /\ Replay(log) = st

\* One more record, applied to memory and appended.
LEMMA AppendReproduced ==
    ASSUME NEW X, NEW records \in Seq(X), NEW s, IsStore(s),
           Replayable(records), Replay(records) = s,
           NEW r, Applies(s, r)
    PROVE  /\ \E Y : Append(records, r) \in Seq(Y)
           /\ Replayable(Append(records, r)) /\ Replay(Append(records, r)) = Apply(s, r)
<1>1. records \in Seq(X \cup {r})
    OBVIOUS
<1>2. Append(records, r) \in Seq(X \cup {r})
    BY <1>1
<1>3. QED
    BY <1>2, ReplayAppend, ReplayableAppend

LEMMA CommitReproduced ==
    ASSUME Reproduced, NEW r, Applies(st, r), IsStore(Apply(st, r)), Commit(r)
    PROVE  Reproduced'
<1>1. PICK X : log \in Seq(X)
    BY DEF Reproduced
<1>2. log' = Append(log, r) /\ st' = Apply(st, r)
    BY DEF Commit
<1>3. QED
    BY <1>1, <1>2, AppendReproduced DEF Reproduced

\* The records of a requeue --all, k of them.
LEMMA RequeuesReproduced ==
    ASSUME Reproduced, NEW ids \in Seq(DOMAIN st.messages), IsInjective(ids), NEW at \in [Ids -> Nat],
           \A i \in 1..Len(ids) : CanRequeue(st, ids[i]),
           NEW k \in 0..Len(ids)
    PROVE  LET records == log \o [i \in 1..k |-> RequeueRec(ids[i], at[ids[i]])]
           IN  /\ \E X : records \in Seq(X)
               /\ Replayable(records) /\ Replay(records) = RequeuedUpTo(st, ids, k, at)
<1> DEFINE Records(j) == log \o [i \in 1..j |-> RequeueRec(ids[i], at[ids[i]])]
           Good(j) == /\ \E X : Records(j) \in Seq(X)
                      /\ Replayable(Records(j))
                      /\ Replay(Records(j)) = RequeuedUpTo(st, ids, j, at)
           Bad == {j \in 0..Len(ids) : ~Good(j)}
<1>1. PICK X : log \in Seq(X)
    BY DEF Reproduced
<1>2. Len(ids) \in Nat
    OBVIOUS
<1>3. Good(0)
  <2>1. Records(0) = log
      BY <1>1
  <2>2. RequeuedUpTo(st, ids, 0, at) = st
      BY RequeuedNone DEF Reproduced
  <2> HIDE DEF Records
  <2>3. QED
      BY <1>1, <2>1, <2>2 DEF Reproduced
<1>4. ASSUME NEW j \in 1..Len(ids), Good(j - 1)
      PROVE  Good(j)
  <2> DEFINE r == RequeueRec(ids[j], at[ids[j]])
             s == RequeuedUpTo(st, ids, j - 1, at)
  <2>1. Records(j) = Append(Records(j - 1), r)
    <3> DEFINE Y == X \cup {RequeueRec(ids[i], at[ids[i]]) : i \in 1..Len(ids)}
               fewer == [i \in 1..j - 1 |-> RequeueRec(ids[i], at[ids[i]])]
               more == [i \in 1..j |-> RequeueRec(ids[i], at[ids[i]])]
    <3>1. log \in Seq(Y)
        BY <1>1
    <3>2. j \in Nat /\ j - 1 \in Nat /\ 1..j \subseteq 1..Len(ids)
        BY <1>2
    <3>3. r \in Y /\ \A i \in 1..j : RequeueRec(ids[i], at[ids[i]]) \in Y
        BY <3>2
    <3> HIDE DEF Y, r
    <3>4. /\ fewer \in Seq(Y) /\ Len(fewer) = j - 1
          /\ more \in Seq(Y) /\ Len(more) = j
          /\ \A i \in 1..j - 1 : more[i] = fewer[i]
          /\ more[j] = r
        BY <3>2, <3>3 DEF r
    <3> HIDE DEF fewer, more
    <3>5. more = Append(fewer, r)
      <4> DEFINE longer == Append(fewer, r)
      <4>1. longer \in Seq(Y) /\ Len(longer) = j /\ longer[j] = r
          BY <3>2, <3>3, <3>4
      <4>2. \A i \in 1..j - 1 : longer[i] = fewer[i]
          BY <3>2, <3>3, <3>4
      <4> HIDE DEF longer
      <4>3. ASSUME NEW i \in 1..j PROVE more[i] = longer[i]
        <5>1. CASE i = j
            BY <3>4, <4>1, <5>1
        <5>2. CASE i # j
          <6>1. i \in 1..j - 1
              BY <3>2, <5>2
          <6>2. QED
              BY <3>4, <4>2, <6>1
        <5>3. QED
            BY <5>1, <5>2
      <4>4. QED
          BY <3>4, <4>1, <4>3 DEF longer
    <3>6. log \o more = Append(log \o fewer, r)
        BY <3>1, <3>3, <3>4, <3>5
    <3>7. QED
        BY <3>6 DEF fewer, more, r
  <2>2. IsStore(s) /\ Applies(s, r) /\ Apply(s, r) = RequeuedUpTo(st, ids, j, at)
      BY RequeuedOneMore DEF Reproduced
  <2> HIDE DEF Records, r, s
  <2>3. PICK Y : Records(j - 1) \in Seq(Y)
      BY <1>4
  <2>4. Replayable(Records(j - 1)) /\ Replay(Records(j - 1)) = s
      BY <1>4 DEF s
  <2>5. QED
      BY <2>1, <2>2, <2>3, <2>4, AppendReproduced
<1> HIDE DEF Good
<1>5. Bad = {}
  <2> SUFFICES ASSUME Bad # {} PROVE FALSE
      OBVIOUS
  <2>1. PICK j \in Bad : \A i \in Bad : j <= i
    <3>1. Bad \in SUBSET Nat
        OBVIOUS
    <3>2. QED
        BY <3>1, LeastElement
  <2>2. j \in 1..Len(ids) /\ j - 1 \in 0..Len(ids) /\ ~(j <= j - 1)
      BY <1>2, <1>3, <2>1
  <2>3. Good(j - 1)
      BY <2>1, <2>2
  <2>4. QED
      BY <1>4, <2>1, <2>2, <2>3
<1>6. QED
    BY <1>5 DEF Good

LEMMA InitReproduced == Init => Reproduced
<1> SUFFICES ASSUME Init PROVE Reproduced
    OBVIOUS
<1>1. PICK schedule \in Schedules : /\ log = <<ConfigRec(schedule)>>
                                   /\ st = Apply(NewStore, ConfigRec(schedule))
    BY DEF Init
<1>2. Applies(NewStore, ConfigRec(schedule)) /\ IsStore(st)
    BY <1>1, SchedulesAssumption, NewStoreIsStore, ConfigStored
<1>3. <<ConfigRec(schedule)>> \in Seq({ConfigRec(schedule)})
    OBVIOUS
<1>4. QED
    BY <1>1, <1>2, <1>3, ReplayOne DEF Reproduced

LEMMA NextReproduced == Reproduced /\ [Next]_vars => Reproduced'
<1> SUFFICES ASSUME Reproduced, [Next]_vars PROVE Reproduced'
    OBVIOUS
<1>1. IsStore(st) /\ Times \subseteq Nat
    BY TimesAssumption DEF Reproduced
<1>2. ASSUME NEW name \in Names, NEW secret \in Secrets, AddEndpoint(name, secret)
      PROVE  Reproduced'
  <2>1. name \in Names \ DOMAIN st.endpoints
      BY <1>2 DEF AddEndpoint, Has
  <2>2. QED
      BY <1>1, <1>2, <2>1, EndpointAddStored, CommitReproduced DEF AddEndpoint
<1>3. ASSUME NEW name \in Names, NEW secret \in Secrets, RotateSecret(name, secret)
      PROVE  Reproduced'
    BY <1>1, <1>3, EndpointRotateStored, CommitReproduced DEF RotateSecret, Has
<1>4. ASSUME NEW name \in Names, RemoveEndpoint(name)
      PROVE  Reproduced'
    BY <1>1, <1>4, EndpointRemoveStored, CommitReproduced DEF RemoveEndpoint
<1>5. ASSUME NEW id \in Ids, NEW name \in Names, NEW now \in Times, Enqueue(id, name, now)
      PROVE  Reproduced'
  <2>1. id \in Ids \ DOMAIN st.messages
      BY <1>5 DEF Enqueue, Has
  <2>2. QED
      BY <1>1, <1>5, <2>1, EnqueueStored, CommitReproduced DEF Enqueue
<1>6. ASSUME NEW id \in Ids, NEW verdict \in Verdicts, NEW end \in Times,
             MarkAttempt(id, verdict, end)
      PROVE  Reproduced'
  <2>1. id \in DOMAIN st.messages
      BY <1>6 DEF MarkAttempt, Has
  <2>2. /\ Outcome(st, id, verdict) \in Outcomes
        /\ RetryAt(st, id, verdict, end) \in Nat
      BY <1>1, <2>1, StoreHasType, OutcomeType
  <2>3. QED
      BY <1>1, <1>6, <2>1, <2>2, AttemptStored, CommitReproduced DEF MarkAttempt
<1>7. ASSUME NEW id \in Ids, NEW now \in Times, Requeue(id, now)
      PROVE  Reproduced'
  <2>1. id \in DOMAIN st.messages
      BY <1>7 DEF Requeue, CanRequeue, Has
  <2>2. QED
      BY <1>1, <1>7, <2>1, RequeueStored, CommitReproduced DEF Requeue
<1>8. ASSUME NEW at \in Readings, RequeueAll(at)
      PROVE  Reproduced'
  <2> DEFINE ids == Reached(st)
             n == Len(ids)
  <2>1. /\ ids \in Seq(DOMAIN st.messages) /\ IsInjective(ids)
        /\ \A k \in 1..Len(ids) : CanRequeue(st, ids[k])
        /\ n \in 0..Len(ids)
      BY <1>1, ReachedProperties
  <2> at \in [Ids -> Nat]
      BY <1>1 DEF Readings
  <2>2. /\ log' = log \o [k \in 1..n |-> RequeueRec(ids[k], at[ids[k]])]
        /\ st' = RequeuedUpTo(st, ids, n, at)
      BY <1>1, <1>8, RequeueAllUpTo DEF RequeueAll
  <2>3. IsStore(st')
    <3>1. st' = [st EXCEPT !.messages = st'.messages]
        BY <1>1, <1>8 DEF RequeueAll, IsStore
    <3>2. /\ DOMAIN st'.messages = DOMAIN st.messages
          /\ IsMap(st'.messages, Ids, Message)
        BY <1>1, <1>8, RequeuedType DEF RequeueAll, Readings, IsStore, IsMap
    <3> HIDE DEF ids, n
    <3>3. QED
        BY <1>1, <3>1, <3>2 DEF IsStore
  <2> HIDE DEF ids, n
  <2>4. /\ \E X : log' \in Seq(X)
        /\ Replayable(log') /\ Replay(log') = st'
      BY <2>1, <2>2, RequeuesReproduced
  <2>5. QED
      BY <2>3, <2>4 DEF Reproduced
<1>9. CASE Compact
  <2>1. log' = <<SnapshotRec(st)>> /\ st' = st
      BY <1>9 DEF Compact
  <2>2. Replayable(log') /\ Replay(log') = st'
      BY <1>1, <2>1, SnapshotApplied, ReplayOne
  <2>3. log' \in Seq({SnapshotRec(st)})
      BY <2>1
  <2>4. QED
      BY <1>1, <2>1, <2>2, <2>3 DEF Reproduced
<1>10. CASE UNCHANGED vars
    BY <1>10 DEF vars, Reproduced
<1>11. QED
    BY <1>2, <1>3, <1>4, <1>5, <1>6, <1>7, <1>8, <1>9, <1>10 DEF Next

(***************************************************************************)
(* At every moment, a reopen takes the log and reproduces the state in     *)
(* memory exactly, whatever commands and compactions came before, a        *)
(* `requeue --all` and its many records included.                          *)
(***************************************************************************)
THEOREM ReopenReproduces == Spec => [](Replayable(log) /\ Replay(log) = st)
<1>1. Reproduced => Replayable(log) /\ Replay(log) = st
    BY DEF Reproduced
<1>2. QED
    BY <1>1, InitReproduced, NextReproduced, PTL DEF Spec

(***************************************************************************)
(* `requeue --all` is Requeue, message by message: every call is allowed   *)
(* by the state that the one before it left, and the loop ends early only  *)
(* at a dead message that Requeue refuses.                                 *)
(***************************************************************************)
THEOREM RequeueAllIsTheLoop ==
    Spec => [][\A at \in Readings : RequeueAll(at) => RequeuesInTurn(at)]_vars
<1>1. Reproduced /\ [Next]_vars =>
          [\A at \in Readings : RequeueAll(at) => RequeuesInTurn(at)]_vars
    BY RequeueAllTakesTurns DEF Reproduced
<1>2. QED
    BY <1>1, InitReproduced, NextReproduced, PTL DEF Spec
=============================================================================
