---------------------------- MODULE DeliverProofs ----------------------------
(***************************************************************************)
(* Theorems about Deliver.  The argument: a round's list holds pending     *)
(* messages that are due, and stays right because only the run itself      *)
(* changes messages while it lasts (RoundPending); a message that waits    *)
(* for a retry was given its due time at the end of the attempt that       *)
(* failed (RecordedEnds); and every round is paid for by an attempt that   *)
(* no later round can make again (RoundsPaid).                             *)
(***************************************************************************)
EXTENDS Deliver, StoreStateProofs

\* The list of the round holds what is still to be attempted.
RoundPending == \A id \in ToSet(due) : IsDue(st, id, now)

\* Since its last recorded failure a pending message waits as the schedule says.
RecordedEnds ==
    \A id \in Ids : lastEnd[id] # NoTime =>
        /\ id \in DOMAIN st.messages
        /\ LET m == st.messages[id]
           IN  m.state = "pending" =>
                   /\ m.failStreak \in 1..Len(st.schedule)
                   /\ m.nextDue = lastEnd[id] + st.schedule[m.failStreak]

\* A pending message has an attempt left.
AttemptLeft ==
    \A id \in DOMAIN st.messages :
        st.messages[id].state = "pending" => st.messages[id].failStreak <= Len(st.schedule)

\* The attempts that the messages have in all, and those that are behind them.
Attempts(s) == (DOMAIN s.messages) \X (1..MaxAttempts(s.schedule))

Spent(s) ==
    {a \in Attempts(s) : \/ s.messages[a[1]].state # "pending"
                         \/ a[2] <= s.messages[a[1]].failStreak}

RoundsPaid ==
    /\ Idle => round = 0
    /\ round <= Cardinality(Spent(st)) + (IF due = <<>> THEN 0 ELSE 1)
    /\ pc = "exceeded" => MaxRounds <= Cardinality(Attempts(st))

IInv ==
    /\ StoreType(st) /\ TypeOK
    /\ RoundPending /\ ReceiptsExplained /\ RecordedEnds /\ MostOverdueFirst
    /\ AttemptLeft /\ RoundsPaid

-----------------------------------------------------------------------------
LEMMA AttemptsFinite ==
    ASSUME NEW s, StoreType(s)
    PROVE  /\ IsFiniteSet(Attempts(s)) /\ IsFiniteSet(Spent(s))
           /\ Cardinality(Attempts(s)) \in Nat /\ Cardinality(Spent(s)) \in Nat
           /\ Cardinality(Spent(s)) <= Cardinality(Attempts(s))
           /\ Cardinality(Attempts(s)) =
                  Cardinality(DOMAIN s.messages) * MaxAttempts(s.schedule)
<1>1. IsFiniteSet(DOMAIN s.messages)
  BY MessagesFinite
<1>2. MaxAttempts(s.schedule) \in Nat /\ 1 <= MaxAttempts(s.schedule)
  BY DEF StoreType, Schedule, MaxAttempts
<1>3. /\ IsFiniteSet(1..MaxAttempts(s.schedule))
      /\ Cardinality(1..MaxAttempts(s.schedule)) = MaxAttempts(s.schedule)
  <2> DEFINE k == MaxAttempts(s.schedule)
  <2>1. k \in Nat /\ 1 <= k
    BY <1>2
  <2> HIDE DEF k
  <2>2. IsFiniteSet(1..k) /\ Cardinality(1..k) = IF 1 > k THEN 0 ELSE k - 1 + 1
    BY <2>1, FS_Interval
  <2>3. IsFiniteSet(1..k) /\ Cardinality(1..k) = k
    BY <2>1, <2>2
  <2> QED
    BY <2>3 DEF k
<1>4. /\ IsFiniteSet(Attempts(s))
      /\ Cardinality(Attempts(s)) = Cardinality(DOMAIN s.messages) * MaxAttempts(s.schedule)
  <2> DEFINE D == DOMAIN s.messages
             K == 1..MaxAttempts(s.schedule)
  <2>1. IsFiniteSet(D) /\ IsFiniteSet(K) /\ Cardinality(K) = MaxAttempts(s.schedule)
    BY <1>1, <1>3
  <2>2. Attempts(s) = D \X K
    BY DEF Attempts
  <2> HIDE DEF D, K
  <2>3. IsFiniteSet(D \X K) /\ Cardinality(D \X K) = Cardinality(D) * Cardinality(K)
    BY <2>1, FS_Product
  <2> QED
    BY <2>1, <2>2, <2>3 DEF D
<1>5. Spent(s) \subseteq Attempts(s)
  BY DEF Spent
<1>6. IsFiniteSet(Spent(s)) /\ Cardinality(Spent(s)) <= Cardinality(Attempts(s))
  BY <1>4, <1>5, FS_Subset
<1> QED
  BY <1>4, <1>6, FS_CardinalityType

LEMMA InitIInv == Init => IInv
<1> SUFFICES ASSUME Init PROVE IInv
  OBVIOUS
<1>1. PICK schedule \in Schedules : st = Apply(NewStore, ConfigRec(schedule))
  BY DEF Init
<1>2. schedule \in Schedule
  BY <1>1, DeliverAssumption
<1>3. StoreType(st) /\ st.messages = <<>>
  BY <1>1, <1>2, ConfigApplied
<1>4. TypeOK
  <2>1. /\ due = <<>> /\ pc = "idle" /\ now = 1 /\ limit = 0 /\ round = 0
        /\ drain = FALSE /\ tried = {} /\ verdict = "failed"
        /\ known = Zero /\ lastEnd = [id \in Ids |-> NoTime]
    BY DEF Init
  <2>2. due \in Seq(DOMAIN st.messages) /\ IsInjective(due)
    BY <2>1 DEF IsInjective
  <2>3. round \in 0..MaxRounds
    BY <2>1, DeliverAssumption
  <2> QED
    <3>1. known \in [Ids -> Nat] /\ lastEnd \in [Ids -> Nat]
      BY <2>1 DEF Zero, NoTime
    <3>2. pc \in {"idle"} /\ (pc \in {"attempt", "mark"} <=> due # <<>>)
      BY <2>1
    <3>3. now \in Nat \ {NoTime} /\ limit \in Nat /\ tried \in SUBSET Ids
      BY <2>1 DEF NoTime
    <3>4. drain \in BOOLEAN /\ verdict \in Verdicts
      BY <2>1 DEF Verdicts
    <3> HIDE <2>1
    <3> QED
      BY <2>2, <2>3, <3>1, <3>2, <3>3, <3>4 DEF TypeOK
<1>5. RoundPending /\ MostOverdueFirst /\ AttemptLeft
  BY <1>3 DEF Init, RoundPending, MostOverdueFirst, AttemptLeft, ToSet
<1>6. ReceiptsExplained /\ RecordedEnds
  BY <1>3 DEF Init, ReceiptsExplained, InFlight, Has, RecordedEnds, Zero
<1>7. RoundsPaid
  BY <1>3, AttemptsFinite DEF Init, RoundsPaid, Idle
<1> QED
  BY <1>3, <1>4, <1>5, <1>6, <1>7 DEF IInv

-----------------------------------------------------------------------------
(***************************************************************************)
(* The commands between two runs, by what they do to a message.            *)
(***************************************************************************)
Kept(id) ==
    /\ id \in DOMAIN st.messages
    /\ st'.messages[id] = st.messages[id] /\ lastEnd'[id] = lastEnd[id]

Created(id) ==
    /\ id \notin DOMAIN st.messages
    /\ \E name \in Names : st'.messages[id] = NewMessage(name, now)
    /\ lastEnd'[id] = lastEnd[id]

Cancelled(id) ==
    /\ id \in DOMAIN st.messages
    /\ st.messages[id].state = "pending" /\ st'.messages[id] = Orphaned(st.messages[id])
    /\ lastEnd'[id] = lastEnd[id]

Revived(id) ==
    /\ id \in DOMAIN st.messages
    /\ st.messages[id].state = "dead" /\ st'.messages[id] = Requeued(st.messages[id], now)
    /\ lastEnd'[id] = NoTime

CommandStep ==
    /\ Idle
    /\ StoreType(st') /\ st'.schedule = st.schedule
    /\ DOMAIN st.messages \subseteq DOMAIN st'.messages
    /\ \A id \in DOMAIN st'.messages :
          Kept(id) \/ Created(id) \/ Cancelled(id) \/ Revived(id)
    /\ lastEnd' \in [Ids -> Nat]
    /\ \A id \in Ids \ DOMAIN st'.messages : lastEnd'[id] = lastEnd[id]
    /\ UNCHANGED <<now, pc, runVars, known, kills>>

LEMMA CommandSteps ==
    ASSUME StoreType(st), TypeOK,
           \/ \E name \in Names :
                 RemoveEndpoint(name) \/ \E secret \in Secrets : AddEndpoint(name, secret)
           \/ \E id \in Ids : Requeue(id) \/ \E name \in Names : Enqueue(id, name)
    PROVE  CommandStep
<1>1. \A id \in DOMAIN st.messages : id \in Ids
  BY DEF StoreType
<1>2. now \in Nat /\ lastEnd \in [Ids -> Nat]
  BY DEF TypeOK
<1>3. ASSUME NEW name \in Names, NEW secret \in Secrets, AddEndpoint(name, secret)
      PROVE  CommandStep
  <2>1. /\ Idle /\ st' = Apply(st, EndpointAddRec(name, secret))
        /\ UNCHANGED <<now, pc, runVars, known, kills, lastEnd>>
    BY <1>3 DEF AddEndpoint, Command
  <2>2. StoreType(st') /\ st'.messages = st.messages /\ st'.schedule = st.schedule
    BY <2>1, EndpointAddApplied
  <2> QED
    BY <1>2, <2>1, <2>2 DEF CommandStep, Kept
<1>4. ASSUME NEW name \in Names, RemoveEndpoint(name)
      PROVE  CommandStep
  <2>1. /\ Idle /\ st' = Apply(st, EndpointRemoveRec(name))
        /\ UNCHANGED <<now, pc, runVars, known, kills, lastEnd>>
    BY <1>4 DEF RemoveEndpoint, Command
  <2>2. /\ StoreType(st') /\ st'.schedule = st.schedule
        /\ DOMAIN st'.messages = DOMAIN st.messages
        /\ \A id \in DOMAIN st.messages :
              st'.messages[id] = IF id \in DeadLettered(st, name)
                                 THEN Orphaned(st.messages[id])
                                 ELSE st.messages[id]
    BY <2>1, EndpointRemoveApplied
  <2>3. \A id \in DOMAIN st.messages : Kept(id) \/ Cancelled(id)
    BY <2>1, <2>2 DEF Kept, Cancelled, DeadLettered
  <2> QED
    BY <1>2, <2>1, <2>2, <2>3 DEF CommandStep
<1>5. ASSUME NEW id \in Ids, NEW name \in Names, Enqueue(id, name)
      PROVE  CommandStep
  <2>1. /\ Idle /\ st' = Apply(st, EnqueueRec(id, name, now))
        /\ id \notin DOMAIN st.messages
        /\ UNCHANGED <<now, pc, runVars, known, kills, lastEnd>>
    BY <1>5 DEF Enqueue, Command, Has
  <2>2. /\ StoreType(st') /\ st'.schedule = st.schedule
        /\ st'.messages = Put(st.messages, id, NewMessage(name, now))
    BY <1>2, <2>1, EnqueueApplied
  <2>3. /\ DOMAIN st'.messages = DOMAIN st.messages \cup {id}
        /\ Created(id) /\ \A i \in DOMAIN st.messages : Kept(i)
    BY <2>1, <2>2 DEF Put, Created, Kept
  <2> QED
    BY <1>2, <2>1, <2>2, <2>3 DEF CommandStep
<1>6. ASSUME NEW id \in Ids, Requeue(id)
      PROVE  CommandStep
  <2>1. /\ Idle /\ st' = Apply(st, RequeueRec(id, now))
        /\ id \in DOMAIN st.messages /\ st.messages[id].state = "dead"
        /\ UNCHANGED <<now, pc, runVars, known, kills>>
        /\ lastEnd' = [lastEnd EXCEPT ![id] = NoTime]
    BY <1>6 DEF Requeue, Command, CanRequeue, Has
  <2>2. /\ StoreType(st') /\ st'.schedule = st.schedule
        /\ DOMAIN st'.messages = DOMAIN st.messages
        /\ \A i \in DOMAIN st.messages \ {id} : st'.messages[i] = st.messages[i]
        /\ st'.messages[id] = Requeued(st.messages[id], now)
    BY <1>2, <2>1, RequeueApplied
  <2>3. Revived(id) /\ \A i \in DOMAIN st.messages \ {id} : Kept(i)
    BY <1>1, <1>2, <2>1, <2>2 DEF Revived, Kept
  <2>4. lastEnd' \in [Ids -> Nat] /\ \A i \in Ids \ {id} : lastEnd'[i] = lastEnd[i]
    BY <1>2, <2>1 DEF NoTime
  <2> QED
    BY <2>1, <2>2, <2>3, <2>4 DEF CommandStep
<1> QED
  BY <1>3, <1>4, <1>5, <1>6

LEMMA CommandsKeepIInv ==
    ASSUME IInv, CommandStep
    PROVE  IInv'
<1> USE DEF IInv
<1>1. /\ due = <<>> /\ pc \notin {"attempt", "mark"}
      /\ now \in Nat \ {NoTime} /\ st.schedule \in Seq(Nat)
  BY DEF CommandStep, Idle, TypeOK, StoreType, Schedule
<1>2. /\ due' = due /\ pc' = pc /\ round' = round /\ now' = now /\ known' = known
      /\ st'.schedule = st.schedule /\ StoreType(st')
  BY DEF CommandStep, runVars
\* What becomes of a message, in the fields the invariants look at.
<1>3. ASSUME NEW id \in DOMAIN st'.messages
      PROVE  \/ Kept(id)
             \/ /\ id \notin DOMAIN st.messages
                /\ st'.messages[id].state = "pending" /\ st'.messages[id].failStreak = 0
                /\ lastEnd'[id] = lastEnd[id]
             \/ /\ id \in DOMAIN st.messages /\ st.messages[id].state = "pending"
                /\ st'.messages[id].state = "dead"
                /\ lastEnd'[id] = lastEnd[id]
             \/ /\ id \in DOMAIN st.messages /\ st.messages[id].state = "dead"
                /\ st'.messages[id].state = "pending" /\ st'.messages[id].failStreak = 0
                /\ lastEnd'[id] = NoTime
  <2>1. id \in DOMAIN st.messages => st.messages[id] \in Message
    BY DEF StoreType
  <2>2. CASE Created(id)
    BY <2>2 DEF Created, NewMessage
  <2>3. CASE Cancelled(id)
    BY <2>1, <2>3 DEF Cancelled, Orphaned, Message
  <2>4. CASE Revived(id)
    BY <2>1, <2>4 DEF Revived, Requeued, Message
  <2> QED
    BY <2>2, <2>3, <2>4 DEF CommandStep
<1>4. TypeOK'
  BY <1>1, <1>2 DEF TypeOK, CommandStep, runVars
<1>5. RoundPending' /\ MostOverdueFirst'
  BY <1>1, <1>2 DEF RoundPending, MostOverdueFirst, ToSet
<1>6. ReceiptsExplained'
  <2> SUFFICES ASSUME NEW id \in Ids
               PROVE  known[id] = IF id \in DOMAIN st'.messages /\ st'.messages[id].state = "delivered"
                                  THEN 1 ELSE 0
    BY <1>1, <1>2 DEF ReceiptsExplained, InFlight, Has
  <2>1. known[id] = IF id \in DOMAIN st.messages /\ st.messages[id].state = "delivered"
                    THEN 1 ELSE 0
    BY <1>1 DEF ReceiptsExplained, InFlight, Has
  <2>2. CASE id \in DOMAIN st'.messages
    BY <1>3, <2>1, <2>2 DEF Kept
  <2>3. CASE id \notin DOMAIN st'.messages
    BY <2>1, <2>3 DEF CommandStep
  <2> QED
    BY <2>2, <2>3
<1>7. RecordedEnds'
  <2> SUFFICES ASSUME NEW id \in Ids, lastEnd'[id] # NoTime
               PROVE  /\ id \in DOMAIN st'.messages
                      /\ st'.messages[id].state = "pending" =>
                             /\ st'.messages[id].failStreak \in 1..Len(st'.schedule)
                             /\ st'.messages[id].nextDue =
                                    lastEnd'[id] + st'.schedule[st'.messages[id].failStreak]
    BY DEF RecordedEnds
  <2>1. CASE id \in DOMAIN st'.messages
    BY <1>2, <1>3, <2>1 DEF RecordedEnds, Kept
  <2>2. CASE id \notin DOMAIN st'.messages
    BY <2>2 DEF RecordedEnds, CommandStep
  <2> QED
    BY <2>1, <2>2
<1>8. AttemptLeft'
  BY <1>1, <1>2, <1>3 DEF AttemptLeft, Kept
<1>9. RoundsPaid'
  <2>1. round' = 0 /\ due' = <<>>
    BY <1>1, <1>2 DEF RoundsPaid, CommandStep
  <2>2. Cardinality(Spent(st')) \in Nat /\ Cardinality(Attempts(st)) \in Nat
        /\ IsFiniteSet(Attempts(st')) /\ Cardinality(Attempts(st')) \in Nat
    BY <1>2, AttemptsFinite
  <2>3. Attempts(st) \subseteq Attempts(st')
    BY <1>2 DEF Attempts, CommandStep
  <2>4. Cardinality(Attempts(st)) <= Cardinality(Attempts(st'))
    BY <2>2, <2>3, FS_Subset
  <2>5. MaxRounds \in Nat
    BY DeliverAssumption
  <2> QED
    BY <1>2, <2>1, <2>2, <2>4, <2>5 DEF RoundsPaid, Idle
<1> QED
  BY <1>2, <1>4, <1>5, <1>6, <1>7, <1>8, <1>9
-----------------------------------------------------------------------------
(***************************************************************************)
(* The steps of a run.                                                     *)
(***************************************************************************)
Delivered(id) == id \in DOMAIN st.messages /\ st.messages[id].state = "delivered"

LEMMA EndedKeepsIInv ==
    ASSUME IInv, NEW how \in {"idle", "exceeded"}, Ended(how),
           UNCHANGED <<st, now, lastEnd>>,
           known' = [id \in Ids |-> IF Delivered(id) THEN 1 ELSE 0],
           how = "exceeded" => MaxRounds <= Cardinality(Attempts(st))
    PROVE  IInv'
<1> USE DEF IInv
<1>1. /\ pc' = how /\ drain' = FALSE /\ limit' = 0 /\ round' = 0 /\ tried' = {}
      /\ due' = <<>> /\ verdict' = "failed"
  BY DEF Ended
<1>2. /\ DOMAIN due' = {} /\ Len(due') = 0
      /\ due' \in Seq(DOMAIN st.messages) /\ 0 \in 0..MaxRounds
  BY <1>1, DeliverAssumption
<1>3. TypeOK'
  <2>1. known' \in [Ids -> Nat]
    OBVIOUS
  <2>2. pc' \in {"attempt", "mark"} <=> due' # <<>>
    BY <1>1
  <2>3. limit' \in Nat /\ verdict' \in Verdicts
    BY <1>1 DEF Verdicts
  <2>4. now' \in Nat \ {NoTime} /\ lastEnd' \in [Ids -> Nat]
    BY DEF TypeOK
  <2> QED
    BY <1>1, <1>2, <2>1, <2>2, <2>3, <2>4 DEF TypeOK, IsInjective
<1>4. RoundPending' /\ MostOverdueFirst'
  BY <1>2 DEF RoundPending, MostOverdueFirst, ToSet
<1>5. ReceiptsExplained'
  BY <1>1 DEF ReceiptsExplained, InFlight, Delivered, Has
<1>6. RecordedEnds' /\ AttemptLeft' /\ StoreType(st')
  BY DEF RecordedEnds, AttemptLeft
<1>7. RoundsPaid'
  BY <1>1, AttemptsFinite DEF RoundsPaid
<1> QED
  BY <1>3, <1>4, <1>5, <1>6, <1>7

\* What is known when no answer is held.
LEMMA KnownAtRest ==
    ASSUME IInv, \A id \in Ids : ~InFlight(id)
    PROVE  known = [id \in Ids |-> IF Delivered(id) THEN 1 ELSE 0]
<1>1. known \in [Ids -> Nat]
  BY DEF IInv, TypeOK
<1>2. \A id \in Ids : known[id] = IF Delivered(id) THEN 1 ELSE 0
  BY DEF IInv, ReceiptsExplained, Delivered, Has
<1> QED
  BY <1>1, <1>2

LEMMA ExceededKeepsIInv == IInv /\ Exceeded => IInv'
<1> SUFFICES ASSUME IInv, Exceeded PROVE IInv'
  OBVIOUS
<1>1. pc = "round" /\ round = MaxRounds /\ Ended("exceeded")
      /\ UNCHANGED <<st, now, known, lastEnd>>
  BY DEF Exceeded
<1>2. due = <<>>
  BY <1>1 DEF IInv, TypeOK
<1>3. MaxRounds <= Cardinality(Attempts(st))
  <2>1. /\ Cardinality(Spent(st)) \in Nat /\ Cardinality(Attempts(st)) \in Nat
        /\ Cardinality(Spent(st)) <= Cardinality(Attempts(st))
    BY AttemptsFinite DEF IInv
  <2>2. MaxRounds \in Nat
    BY DeliverAssumption
  <2> QED
    BY <1>1, <1>2, <2>1, <2>2 DEF IInv, RoundsPaid
<1>4. known' = [id \in Ids |-> IF Delivered(id) THEN 1 ELSE 0]
  BY <1>1, KnownAtRest DEF InFlight
<1> QED
  BY <1>1, <1>3, <1>4, EndedKeepsIInv

LEMMA TickKeepsIInv == IInv /\ Tick => IInv'
<1> SUFFICES ASSUME IInv, Tick PROVE IInv'
  OBVIOUS
<1>1. now' = now + 1 /\ UNCHANGED <<st, pc, runVars, known, lastEnd, kills>>
  BY DEF Tick
<1>2. now \in Nat /\ now' \in Nat \ {NoTime}
  BY <1>1 DEF IInv, TypeOK, NoTime
<1>3. TypeOK' /\ AttemptLeft' /\ RoundsPaid' /\ ReceiptsExplained' /\ RecordedEnds'
      /\ MostOverdueFirst' /\ StoreType(st')
  <2> SUFFICES ASSUME TypeOK, AttemptLeft, RoundsPaid, ReceiptsExplained, RecordedEnds,
                      MostOverdueFirst, StoreType(st)
               PROVE  TypeOK' /\ AttemptLeft' /\ RoundsPaid' /\ ReceiptsExplained'
                      /\ RecordedEnds' /\ MostOverdueFirst' /\ StoreType(st')
    BY DEF IInv
  <2>1. TypeOK'
    BY <1>1, <1>2 DEF TypeOK, runVars
  <2>2. AttemptLeft' /\ RoundsPaid' /\ RecordedEnds' /\ StoreType(st')
    BY <1>1 DEF AttemptLeft, RoundsPaid, RecordedEnds, runVars, Idle
  <2>3. ReceiptsExplained' /\ MostOverdueFirst'
    BY <1>1 DEF ReceiptsExplained, MostOverdueFirst, InFlight, runVars
  <2> QED
    BY <2>1, <2>2, <2>3
<1>4. RoundPending'
  <2> SUFFICES ASSUME NEW id \in ToSet(due) PROVE IsDue(st, id, now + 1)
    BY <1>1 DEF RoundPending, runVars
  <2>1. IsDue(st, id, now) /\ id \in DOMAIN st.messages
    BY DEF IInv, RoundPending, TypeOK, ToSet
  <2>2. st.messages[id].nextDue \in Nat
    BY <2>1 DEF IInv, StoreType, Message
  <2> QED
    BY <1>2, <2>1, <2>2 DEF IsDue
<1> QED
  BY <1>3, <1>4 DEF IInv

LEMMA StartKeepsIInv == IInv /\ Start => IInv'
<1> SUFFICES ASSUME IInv, Start PROVE IInv'
  OBVIOUS
<1> USE DEF IInv
<1>1. /\ Idle /\ pc' = "round" /\ drain' \in BOOLEAN /\ limit' \in Nat
      /\ UNCHANGED <<st, now, round, tried, due, verdict, known, lastEnd, kills>>
  BY DeliverAssumption DEF Start
<1>2. due = <<>> /\ round = 0
  BY <1>1 DEF Idle, TypeOK, RoundsPaid
<1>3. TypeOK'
  BY <1>1, <1>2 DEF TypeOK
<1>4. RoundPending' /\ MostOverdueFirst' /\ RecordedEnds' /\ AttemptLeft' /\ StoreType(st')
  BY <1>1 DEF RoundPending, MostOverdueFirst, RecordedEnds, AttemptLeft
<1>5. ReceiptsExplained'
  BY <1>1 DEF ReceiptsExplained, InFlight, Idle
<1>6. RoundsPaid'
  BY <1>1, <1>2 DEF RoundsPaid
<1> QED
  BY <1>3, <1>4, <1>5, <1>6

\* A round takes the most overdue messages, each of them once.
MakesARound(list) ==
    /\ list \in Seq(DOMAIN st.messages) /\ IsInjective(list)
    /\ \A id \in ToSet(list) : IsDue(st, id, now)
    /\ \A i \in 1..Len(list), id \in DOMAIN st.messages \ ToSet(list) :
          st.messages[id].state = "pending" =>
              st.messages[list[i]].nextDue <= st.messages[id].nextDue

LEMMA CutMakesARound ==
    ASSUME StoreType(st), TypeOK
    PROVE  MakesARound(Cut(Due(st, now)))
<1> DEFINE whole == Due(st, now)
           list == Cut(whole)
           When(id) == st.messages[id].nextDue
<1>1. now \in Int /\ limit \in Nat
  BY DEF TypeOK
<1>2. /\ whole \in Seq(DOMAIN st.messages)
      /\ ToSet(whole) = {id \in DOMAIN st.messages : IsDue(st, id, now)}
      /\ IsInjective(whole)
      /\ \A j, k \in 1..Len(whole) : j < k => When(whole[j]) <= When(whole[k])
  BY <1>1, DueProperties
<1>3. \A id \in DOMAIN st.messages : When(id) \in Nat
  BY DEF StoreType, Message
<1> HIDE DEF whole
<1>4. PICK k \in Nat : /\ k <= Len(whole) /\ list \in Seq(DOMAIN st.messages)
                       /\ Len(list) = k
                       /\ \A i \in 1..k : list[i] = whole[i]
  <2>1. CASE limit > 0 /\ Len(whole) > limit
    <3>1. list = SubSeq(whole, 1, limit) /\ limit <= Len(whole) /\ 1 <= limit
      BY <1>1, <1>2, <2>1 DEF Cut
    <3> DEFINE X == DOMAIN st.messages
    <3>2. whole \in Seq(X)
      BY <1>2
    <3> HIDE DEF list, X
    <3>3. list \in Seq(X)
      BY <1>1, <3>1, <3>2
    <3>4. Len(list) = limit
      BY <1>1, <3>1, <3>2
    <3>5. \A i \in 1..limit : list[i] = whole[i]
      BY <1>1, <3>1, <3>2
    <3> QED
      BY <1>1, <3>1, <3>3, <3>4, <3>5 DEF X
  <2>2. CASE ~(limit > 0 /\ Len(whole) > limit)
    BY <1>2, <2>2 DEF Cut
  <2> QED
    BY <2>1, <2>2
<1> HIDE DEF list
<1>5. DOMAIN list = 1..k /\ DOMAIN whole = 1..Len(whole) /\ 1..k \subseteq 1..Len(whole)
  BY <1>2, <1>4
<1>6. IsInjective(list)
  BY <1>2, <1>4, <1>5 DEF IsInjective
<1>7. ToSet(list) \subseteq ToSet(whole)
  BY <1>4, <1>5 DEF ToSet
<1>8. ASSUME NEW i \in 1..Len(list), NEW id \in DOMAIN st.messages \ ToSet(list),
             st.messages[id].state = "pending"
      PROVE  When(list[i]) <= When(id)
  <2>1. i \in 1..k /\ i \in 1..Len(whole) /\ list[i] = whole[i]
    BY <1>4, <1>5
  <2>2. list[i] \in DOMAIN st.messages /\ IsDue(st, list[i], now)
    BY <1>2, <1>5, <1>7, <2>1 DEF ToSet
  <2>3. CASE id \notin ToSet(whole)
    <3>1. ~(When(id) <= now) /\ When(list[i]) <= now
      BY <1>2, <1>8, <2>2, <2>3 DEF IsDue
    <3>2. When(id) \in Nat /\ When(list[i]) \in Nat
      BY <1>3, <2>2
    <3> HIDE DEF When
    <3> QED
      BY <1>1, <3>1, <3>2
  <2>4. CASE id \in ToSet(whole)
    <3>1. PICK j \in 1..Len(whole) : whole[j] = id
      BY <1>5, <2>4 DEF ToSet
    <3>2. j \notin 1..k
      BY <1>4, <1>5, <1>8, <3>1 DEF ToSet
    <3>3. i < j
      BY <1>4, <2>1, <3>1, <3>2
    <3> QED
      BY <1>2, <2>1, <3>1, <3>3
  <2> QED
    BY <2>3, <2>4
<1>9. \A id \in ToSet(list) : IsDue(st, id, now)
  BY <1>2, <1>7
<1> QED
  BY <1>4, <1>6, <1>8, <1>9 DEF MakesARound, list, whole

LEMMA RoundKeepsIInv == IInv /\ Round => IInv'
<1> SUFFICES ASSUME IInv, Round PROVE IInv'
  OBVIOUS
<1> DEFINE list == Cut(Due(st, now))
<1>1. /\ pc = "round" /\ round < MaxRounds /\ UNCHANGED <<st, now, known, lastEnd, kills>>
      /\ \/ list = <<>> /\ Ended("idle")
         \/ /\ list # <<>>
            /\ pc' = "attempt" /\ due' = list /\ round' = round + 1
            /\ UNCHANGED <<drain, limit, tried, verdict>>
  BY DEF Round
<1>2. MakesARound(list)
  BY CutMakesARound DEF IInv
<1> HIDE DEF list
<1>3. CASE Ended("idle")
  <2>1. known' = [id \in Ids |-> IF Delivered(id) THEN 1 ELSE 0]
    BY <1>1, KnownAtRest DEF InFlight
  <2> QED
    BY <1>1, <1>3, <2>1, EndedKeepsIInv
<1>4. CASE /\ list # <<>>
           /\ pc' = "attempt" /\ due' = list /\ round' = round + 1
           /\ UNCHANGED <<drain, limit, tried, verdict>>
  <2> USE DEF IInv
  <2>1. round' \in 0..MaxRounds
    BY <1>1, <1>4, DeliverAssumption DEF TypeOK
  <2>2. list \in Seq(DOMAIN st.messages) /\ IsInjective(list)
    BY <1>2 DEF MakesARound
  <2>3. TypeOK'
    <3> SUFFICES ASSUME TypeOK PROVE TypeOK'
      OBVIOUS
    <3> QED
      BY <1>1, <1>4, <2>1, <2>2 DEF TypeOK
  <2>4. RoundPending' /\ MostOverdueFirst'
    BY <1>1, <1>2, <1>4 DEF RoundPending, MostOverdueFirst, MakesARound
  <2>5. ReceiptsExplained'
    BY <1>1, <1>4 DEF ReceiptsExplained, InFlight
  <2>6. RecordedEnds' /\ AttemptLeft' /\ StoreType(st')
    BY <1>1 DEF RecordedEnds, AttemptLeft
  <2>7. RoundsPaid'
    <3>1. due = <<>> /\ round \in Nat
      BY <1>1, DeliverAssumption DEF TypeOK
    <3>2. Cardinality(Spent(st)) \in Nat
      BY AttemptsFinite
    <3> QED
      BY <1>1, <1>4, <3>1, <3>2 DEF RoundsPaid, Idle
  <2> QED
    BY <2>3, <2>4, <2>5, <2>6, <2>7
<1> QED
  BY <1>1, <1>3, <1>4

\* The message the run is at.
LEMMA FirstOfRound ==
    ASSUME IInv, pc \in {"attempt", "mark"}
    PROVE  /\ due \in Seq(DOMAIN st.messages) /\ due # <<>>
           /\ Head(due) \in DOMAIN st.messages /\ Head(due) \in Ids
           /\ st.messages[Head(due)].state = "pending"
<1>1. due \in Seq(DOMAIN st.messages) /\ due # <<>>
  BY DEF IInv, TypeOK
<1>2. Head(due) \in ToSet(due) /\ Head(due) \in DOMAIN st.messages
  BY <1>1 DEF ToSet
<1> QED
  BY <1>1, <1>2 DEF IInv, RoundPending, IsDue, StoreType

LEMMA PostKeepsIInv ==
    ASSUME IInv, NEW id \in Ids, Post(id)
    PROVE  IInv'
<1>1. /\ pc = "attempt" /\ id = Head(due) /\ UNCHANGED <<st, now, lastEnd, kills>>
      /\ \/ /\ pc' = "mark" /\ verdict' \in Verdicts
            /\ known' = [known EXCEPT ![id] = @ + IF verdict' = "accepted" THEN 1 ELSE 0]
            /\ UNCHANGED <<drain, limit, round, tried, due>>
         \/ Ended("idle") /\ UNCHANGED known
  BY DEF Post
<1>2. /\ due # <<>> /\ id \in DOMAIN st.messages /\ st.messages[id].state = "pending"
  BY <1>1, FirstOfRound
<1>3. CASE Ended("idle") /\ UNCHANGED known
  <2>1. known' = [i \in Ids |-> IF Delivered(i) THEN 1 ELSE 0]
    BY <1>1, <1>3, KnownAtRest DEF InFlight
  <2> QED
    BY <1>1, <1>3, <2>1, EndedKeepsIInv
<1>4. CASE /\ pc' = "mark" /\ verdict' \in Verdicts
           /\ known' = [known EXCEPT ![id] = @ + IF verdict' = "accepted" THEN 1 ELSE 0]
           /\ UNCHANGED <<drain, limit, round, tried, due>>
  <2> USE DEF IInv
  <2>1. known \in [Ids -> Nat] /\ known[id] = 0
    BY <1>1, <1>2 DEF TypeOK, ReceiptsExplained, InFlight
  <2>2. /\ known' \in [Ids -> Nat]
        /\ known'[id] = IF verdict' = "accepted" THEN 1 ELSE 0
        /\ \A i \in Ids \ {id} : known'[i] = known[i]
    BY <1>4, <2>1
  <2>3. TypeOK'
    <3> SUFFICES ASSUME TypeOK PROVE TypeOK'
      OBVIOUS
    <3> QED
      BY <1>1, <1>2, <1>4, <2>2 DEF TypeOK
  <2>4. ReceiptsExplained'
    <3> SUFFICES ASSUME NEW i \in Ids
                 PROVE  known'[i] = IF \/ i = id /\ verdict' = "accepted"
                                       \/ Has(st.messages, i) /\ st.messages[i].state = "delivered"
                                    THEN 1 ELSE 0
      BY <1>1, <1>4 DEF ReceiptsExplained, InFlight
    <3>1. CASE i = id
      BY <1>2, <2>2, <3>1
    <3>2. CASE i # id
      BY <1>1, <2>2, <3>2 DEF ReceiptsExplained, InFlight
    <3> QED
      BY <3>1, <3>2
  <2>5. RoundPending' /\ MostOverdueFirst' /\ RecordedEnds' /\ AttemptLeft' /\ StoreType(st')
    BY <1>1, <1>4 DEF RoundPending, MostOverdueFirst, RecordedEnds, AttemptLeft
  <2>6. RoundsPaid'
    BY <1>1, <1>4 DEF RoundsPaid, Idle
  <2> QED
    BY <2>3, <2>4, <2>5, <2>6
<1> QED
  BY <1>1, <1>3, <1>4

LEMMA KillKeepsIInv == IInv /\ Kill => IInv'
<1> SUFFICES ASSUME IInv, Kill PROVE IInv'
  OBVIOUS
<1>1. /\ Ended("idle") /\ UNCHANGED <<st, now, lastEnd>>
      /\ known' = IF pc = "mark" /\ verdict = "accepted"
                  THEN [known EXCEPT ![Head(due)] = @ - 1] ELSE known
  BY DEF Kill
<1>2. known' = [i \in Ids |-> IF Delivered(i) THEN 1 ELSE 0]
  <2>1. CASE pc = "mark" /\ verdict = "accepted"
    <3>1. /\ Head(due) \in Ids /\ ~Delivered(Head(due))
      BY <2>1, FirstOfRound DEF Delivered
    <3>2. /\ known \in [Ids -> Nat]
          /\ known[Head(due)] = 1
          /\ \A i \in Ids \ {Head(due)} : known[i] = IF Delivered(i) THEN 1 ELSE 0
      BY <2>1, <3>1 DEF IInv, TypeOK, ReceiptsExplained, InFlight, Delivered, Has
    <3>3. known' = [known EXCEPT ![Head(due)] = 0]
      BY <1>1, <2>1, <3>2
    <3> QED
      BY <3>1, <3>2, <3>3
  <2>2. CASE ~(pc = "mark" /\ verdict = "accepted")
    BY <1>1, <2>2, KnownAtRest DEF InFlight
  <2> QED
    BY <2>1, <2>2
<1> QED
  BY <1>1, <1>2, EndedKeepsIInv
-----------------------------------------------------------------------------
(***************************************************************************)
(* Recording an attempt, the step that changes a message in a run.         *)
(***************************************************************************)
\* What the record makes of its message m, which becomes n.
Recorded(m, n, end) ==
    \/ /\ verdict = "accepted" /\ n.state = "delivered" /\ end = NoTime
       /\ n.failStreak = 0
    \/ /\ verdict # "accepted" /\ n.state = "pending" /\ end = now
       /\ n.failStreak = m.failStreak + 1
       /\ n.failStreak \in 1..Len(st.schedule)
       /\ n.nextDue = now + st.schedule[n.failStreak]
    \/ /\ verdict # "accepted" /\ n.state = "dead" /\ end = NoTime
       /\ n.failStreak = m.failStreak + 1 /\ n.failStreak > Len(st.schedule)

MarkStep(id) ==
    /\ pc = "mark" /\ id = Head(due)
    /\ StoreType(st') /\ st'.schedule = st.schedule
    /\ DOMAIN st'.messages = DOMAIN st.messages
    /\ \A i \in DOMAIN st.messages \ {id} : st'.messages[i] = st.messages[i]
    /\ Recorded(st.messages[id], st'.messages[id], lastEnd'[id])
    /\ lastEnd' \in [Ids -> Nat] /\ \A i \in Ids \ {id} : lastEnd'[i] = lastEnd[i]
    /\ due' = Tail(due) /\ UNCHANGED <<now, known>>
    /\ \/ pc' = "idle" /\ Ended("idle")
       \/ /\ pc' = IF due' = <<>> THEN "round" ELSE "attempt"
          /\ tried' = tried \cup {id} /\ verdict' = "failed"
          /\ UNCHANGED <<drain, limit, round>>

LEMMA MarkSteps ==
    ASSUME IInv, NEW id \in Ids, Mark(id)
    PROVE  MarkStep(id)
<1> DEFINE m == st.messages[id]
           outcome == Outcome(st, id, verdict)
           next == RetryAt(st, id, verdict, now)
           r == AttemptRec(id, verdict, outcome, next)
           last == IF outcome = "retry" THEN now ELSE NoTime
<1>1. /\ pc = "mark" /\ id = Head(due) /\ st' = Apply(st, r)
      /\ lastEnd' = [lastEnd EXCEPT ![id] = last]
      /\ UNCHANGED <<now, known>>
      /\ LET then == AfterAttempt(Tail(due))
         IN  \/ then = "idle" /\ Ended(then)
             \/ /\ then # "idle"
                /\ pc' = then /\ due' = Tail(due)
                /\ tried' = tried \cup {id} /\ verdict' = "failed"
                /\ UNCHANGED <<drain, limit, round>>
  BY DEF Mark
<1>2. id \in DOMAIN st.messages /\ m.state = "pending" /\ due # <<>>
  BY <1>1, FirstOfRound
<1>3. /\ now \in Nat \ {NoTime} /\ verdict \in Verdicts /\ lastEnd \in [Ids -> Nat]
      /\ m \in Message /\ m.failStreak \in Nat /\ st.schedule \in Seq(Nat)
  BY <1>2 DEF IInv, TypeOK, StoreType, Message, Schedule
<1>4. outcome \in Outcomes /\ next \in Nat
  BY <1>2, <1>3, OutcomeType DEF IInv
<1> HIDE DEF outcome, next
<1>5. /\ StoreType(st') /\ st'.schedule = st.schedule
      /\ DOMAIN st'.messages = DOMAIN st.messages
      /\ \A i \in DOMAIN st.messages \ {id} : st'.messages[i] = st.messages[i]
      /\ st'.messages[id] = Attempted(m, r)
  BY <1>1, <1>2, <1>3, <1>4, AttemptApplied DEF IInv
<1>6. /\ lastEnd' \in [Ids -> Nat] /\ lastEnd'[id] = last
      /\ \A i \in Ids \ {id} : lastEnd'[i] = lastEnd[i]
  BY <1>1, <1>3 DEF NoTime
<1>7. Recorded(m, st'.messages[id], lastEnd'[id])
  <2> SUFFICES ASSUME NEW n, n = Attempted(m, r) PROVE Recorded(m, n, last)
    BY <1>5, <1>6
  <2>1. r.verdict = verdict /\ r.outcome = outcome /\ r.nextDue = next
    BY DEF AttemptRec
  <2> HIDE DEF r, m
  <2>2. CASE outcome = "delivered"
    <3>1. verdict = "accepted"
      BY <2>2 DEF outcome, Outcome
    <3>2. n.state = "delivered" /\ n.failStreak = 0
      BY <1>3, <2>1, <2>2 DEF Attempted, DeliveredNow, Message
    <3> QED
      BY <2>2, <3>1, <3>2 DEF Recorded
  <2>3. CASE outcome = "retry"
    <3>1. verdict # "accepted" /\ HasRetry(st.schedule, m.failStreak + 1)
      BY <2>3 DEF outcome, Outcome, m
    <3>2. next = now + st.schedule[m.failStreak + 1]
      BY <2>3, <3>1 DEF next, outcome, RetryAt, NextDue, m
    <3>3. n.state = "pending" /\ n.failStreak = m.failStreak + 1 /\ n.nextDue = next
      BY <1>2, <1>3, <2>1, <2>3 DEF Attempted, RetriedAt, Message, m
    <3> QED
      BY <2>3, <3>1, <3>2, <3>3 DEF Recorded, HasRetry
  <2>4. CASE outcome = "dead"
    <3>1. verdict # "accepted" /\ ~HasRetry(st.schedule, m.failStreak + 1)
      BY <2>4 DEF outcome, Outcome, m
    <3>2. n.state = "dead" /\ n.failStreak = m.failStreak + 1
      BY <1>3, <2>1, <2>4 DEF Attempted, Exhausted, Message
    <3>3. n.failStreak > Len(st.schedule)
      BY <1>2, <1>3, <3>1, <3>2 DEF HasRetry, Message, m
    <3> QED
      BY <2>4, <3>1, <3>2, <3>3 DEF Recorded
  <2> QED
    BY <1>4, <2>2, <2>3, <2>4 DEF Outcomes
<1>8. /\ due' = Tail(due)
      /\ \/ pc' = "idle" /\ Ended("idle")
         \/ /\ pc' = IF due' = <<>> THEN "round" ELSE "attempt"
            /\ tried' = tried \cup {id} /\ verdict' = "failed"
            /\ UNCHANGED <<drain, limit, round>>
  <2>1. CASE AfterAttempt(Tail(due)) = "idle"
    BY <1>1, <2>1 DEF AfterAttempt, Ended
  <2>2. CASE AfterAttempt(Tail(due)) # "idle"
    BY <1>1, <2>2 DEF AfterAttempt
  <2> QED
    BY <2>1, <2>2
<1> QED
  BY <1>1, <1>5, <1>6, <1>7, <1>8 DEF MarkStep

\* An attempt that is recorded can be spent no more.
LEMMA MarkSpends ==
    ASSUME IInv, NEW id \in Ids, MarkStep(id)
    PROVE  Cardinality(Spent(st)) + 1 <= Cardinality(Spent(st'))
<1> DEFINE m == st.messages[id]
           attempt == <<id, m.failStreak + 1>>
<1>1. /\ id \in DOMAIN st.messages /\ m.state = "pending"
  BY FirstOfRound DEF MarkStep
<1>2. /\ m.failStreak \in Nat /\ Len(st.schedule) \in Nat
      /\ m.failStreak <= Len(st.schedule)
  BY <1>1 DEF IInv, StoreType, Message, Schedule, AttemptLeft
<1>3. StoreType(st') /\ Attempts(st') = Attempts(st)
  BY DEF MarkStep, Attempts
<1>4. ASSUME NEW a \in Attempts(st)
      PROVE  /\ a[1] \in DOMAIN st.messages /\ a[2] \in Nat
             /\ a[1] # id => st'.messages[a[1]] = st.messages[a[1]]
  <2>1. MaxAttempts(st.schedule) \in Nat
    BY <1>2 DEF MaxAttempts
  <2>2. a[1] \in DOMAIN st.messages /\ a[2] \in 1..MaxAttempts(st.schedule)
    BY DEF Attempts
  <2> QED
    BY <2>1, <2>2 DEF MarkStep
<1>5. st'.messages[id].state # "pending" \/ st'.messages[id].failStreak = m.failStreak + 1
  BY DEF MarkStep, Recorded
<1>6. ASSUME NEW a \in Spent(st)
      PROVE  a \in Spent(st')
  <2>1. a \in Attempts(st)
    BY DEF Spent
  <2>2. CASE a[1] # id
    BY <1>3, <1>4, <2>1, <2>2 DEF Spent
  <2>3. CASE a[1] = id
    <3>1. a[2] \in Nat /\ a[2] <= m.failStreak
      BY <1>1, <1>4, <2>1, <2>3 DEF Spent
    <3>2. a[2] <= m.failStreak + 1
      BY <1>2, <3>1
    <3> QED
      BY <1>3, <1>5, <2>1, <2>3, <3>2 DEF Spent
  <2> QED
    BY <2>2, <2>3
<1>7. attempt \in Attempts(st)
  BY <1>1, <1>2 DEF Attempts, MaxAttempts
<1>8. attempt \notin Spent(st) /\ attempt \in Spent(st')
  BY <1>1, <1>2, <1>3, <1>5, <1>7 DEF Spent
<1>9. /\ IsFiniteSet(Spent(st'))
      /\ Cardinality(Spent(st)) \in Nat /\ Cardinality(Spent(st')) \in Nat
  BY <1>3, AttemptsFinite DEF IInv
<1>10. /\ Cardinality(Spent(st)) <= Cardinality(Spent(st'))
       /\ Cardinality(Spent(st)) # Cardinality(Spent(st'))
  BY <1>6, <1>8, <1>9, FS_Subset
<1> QED
  BY <1>9, <1>10

LEMMA MarkKeepsIInv ==
    ASSUME IInv, NEW id \in Ids, Mark(id)
    PROVE  IInv'
<1>1. MarkStep(id)
  BY MarkSteps
<1>2. /\ pc = "mark" /\ id = Head(due) /\ due # <<>>
      /\ due \in Seq(DOMAIN st.messages) /\ IsInjective(due)
      /\ id \in DOMAIN st.messages /\ st.messages[id].state = "pending"
  BY <1>1, FirstOfRound DEF MarkStep, IInv, TypeOK
<1>3. /\ due' \in Seq(DOMAIN st.messages) /\ IsInjective(due')
      /\ ToSet(due) = ToSet(due') \cup {id} /\ id \notin ToSet(due')
      /\ \A i \in 1..Len(due') : i + 1 \in 1..Len(due) /\ due'[i] = due[i + 1]
  BY <1>1, <1>2, ListedTail DEF MarkStep
<1>4. /\ StoreType(st') /\ st'.schedule = st.schedule /\ now' = now /\ known' = known
      /\ DOMAIN st'.messages = DOMAIN st.messages
      /\ \A i \in DOMAIN st.messages \ {id} : st'.messages[i] = st.messages[i]
      /\ Recorded(st.messages[id], st'.messages[id], lastEnd'[id])
  BY <1>1 DEF MarkStep
<1>5. now \in Nat \ {NoTime} /\ verdict \in Verdicts /\ st.schedule \in Seq(Nat)
  BY DEF IInv, TypeOK, StoreType, Schedule
<1>6. /\ pc' \in {"idle", "attempt", "round"}
      /\ pc' \in {"attempt", "mark"} <=> due' # <<>>
      /\ (pc' = "idle" /\ round' = 0) \/ (pc' # "idle" /\ round' = round)
      /\ drain' \in BOOLEAN /\ limit' \in Nat /\ tried' \in SUBSET Ids /\ verdict' \in Verdicts
  <2>1. drain \in BOOLEAN /\ limit \in Nat /\ tried \in SUBSET Ids
    BY DEF IInv, TypeOK
  <2>2. CASE pc' = "idle" /\ Ended("idle")
    BY <2>2 DEF Ended, Verdicts
  <2>3. CASE /\ pc' = IF due' = <<>> THEN "round" ELSE "attempt"
             /\ tried' = tried \cup {id} /\ verdict' = "failed"
             /\ UNCHANGED <<drain, limit, round>>
    <3>1. pc' \in {"round", "attempt"} /\ (pc' = "attempt" <=> due' # <<>>)
      BY <2>3
    <3>2. drain' \in BOOLEAN /\ limit' \in Nat /\ tried' \in SUBSET Ids /\ round' = round
      BY <2>1, <2>3
    <3>3. verdict' \in Verdicts
      BY <2>3 DEF Verdicts
    <3> QED
      BY <3>1, <3>2, <3>3
  <2>4. \/ pc' = "idle" /\ Ended("idle")
        \/ /\ pc' = IF due' = <<>> THEN "round" ELSE "attempt"
           /\ tried' = tried \cup {id} /\ verdict' = "failed"
           /\ UNCHANGED <<drain, limit, round>>
    BY <1>1 DEF MarkStep
  <2> QED
    BY <2>2, <2>3, <2>4
<1>7. TypeOK'
  <2>1. round' \in 0..MaxRounds
    BY <1>6, DeliverAssumption DEF IInv, TypeOK
  <2>2. known' \in [Ids -> Nat] /\ lastEnd' \in [Ids -> Nat]
    BY <1>1 DEF MarkStep, IInv, TypeOK
  <2> QED
    BY <1>3, <1>4, <1>5, <1>6, <2>1, <2>2 DEF TypeOK
<1>8. RoundPending'
  <2> SUFFICES ASSUME NEW i \in ToSet(due') PROVE IsDue(st', i, now)
    BY <1>4 DEF RoundPending
  <2>1. i # id /\ IsDue(st, i, now) /\ i \in DOMAIN st.messages
    BY <1>2, <1>3 DEF IInv, RoundPending, ToSet
  <2> QED
    BY <1>4, <2>1 DEF IsDue
<1>9. ReceiptsExplained'
  <2> SUFFICES ASSUME NEW i \in Ids
               PROVE  known[i] =
                          IF i \in DOMAIN st'.messages /\ st'.messages[i].state = "delivered"
                          THEN 1 ELSE 0
    BY <1>4, <1>6 DEF ReceiptsExplained, InFlight, Has
  <2>1. known[i] = IF InFlight(i) \/ (i \in DOMAIN st.messages /\ st.messages[i].state = "delivered")
                   THEN 1 ELSE 0
    BY DEF IInv, ReceiptsExplained, Has
  <2>2. CASE i = id
    BY <1>2, <1>4, <2>1, <2>2 DEF InFlight, Recorded
  <2>3. CASE i # id
    BY <1>2, <1>4, <2>1, <2>3 DEF InFlight
  <2> QED
    BY <2>2, <2>3
<1>10. RecordedEnds'
  <2> SUFFICES ASSUME NEW i \in Ids, lastEnd'[i] # NoTime
               PROVE  /\ i \in DOMAIN st'.messages
                      /\ st'.messages[i].state = "pending" =>
                             /\ st'.messages[i].failStreak \in 1..Len(st'.schedule)
                             /\ st'.messages[i].nextDue =
                                    lastEnd'[i] + st'.schedule[st'.messages[i].failStreak]
    BY DEF RecordedEnds
  <2>1. CASE i = id
    BY <1>2, <1>4, <2>1 DEF Recorded
  <2>2. CASE i # id
    BY <1>1, <1>4, <2>2 DEF MarkStep, IInv, RecordedEnds
  <2> QED
    BY <2>1, <2>2
<1>11. MostOverdueFirst'
  <2> SUFFICES ASSUME NEW i \in 1..Len(due'), NEW j \in DOMAIN st.messages \ ToSet(due'),
                      st'.messages[j].state = "pending"
               PROVE  st'.messages[due'[i]].nextDue <= st'.messages[j].nextDue
    BY <1>4 DEF MostOverdueFirst
  <2> DEFINE first == due'[i]
  <2>1. first \in ToSet(due') /\ i + 1 \in 1..Len(due) /\ first = due[i + 1]
    BY <1>3 DEF ToSet
  <2>2. /\ first \in DOMAIN st.messages /\ first # id
        /\ st'.messages[first] = st.messages[first] /\ IsDue(st, first, now)
    BY <1>3, <1>4, <2>1 DEF IInv, RoundPending
  <2> HIDE DEF first
  <2>3. CASE j = id
    <3>1. /\ st'.messages[id].failStreak \in 1..Len(st.schedule)
          /\ st'.messages[id].nextDue = now + st.schedule[st'.messages[id].failStreak]
      BY <1>4, <2>3 DEF Recorded
    <3>2. st.schedule[st'.messages[id].failStreak] \in Nat
      <4> DEFINE streak == st'.messages[id].failStreak
      <4>1. streak \in 1..Len(st.schedule)
        BY <3>1
      <4> HIDE DEF streak
      <4>2. st.schedule[streak] \in Nat
        BY <1>5, <4>1
      <4> QED
        BY <4>2 DEF streak
    <3>3. st.messages[first].nextDue \in Nat /\ st.messages[first].nextDue <= now
      BY <2>2 DEF IsDue, IInv, StoreType, Message
    <3>4. st'.messages[first].nextDue <= st'.messages[j].nextDue
      <4> DEFINE wait == st.schedule[st'.messages[id].failStreak]
      <4>1. st'.messages[first].nextDue = st.messages[first].nextDue
        BY <2>2
      <4>2. st'.messages[j].nextDue = now + wait
        BY <2>3, <3>1
      <4>3. wait \in Nat /\ now \in Nat
        BY <1>5, <3>2
      <4> HIDE DEF wait
      <4> QED
        BY <3>3, <4>1, <4>2, <4>3
    <3> QED
      BY <3>4 DEF first
  <2>4. CASE j # id
    <3>1. j \notin ToSet(due) /\ st'.messages[j] = st.messages[j]
      BY <1>3, <1>4, <2>4
    <3>2. st.messages[due[i + 1]].nextDue <= st.messages[j].nextDue
      BY <2>1, <3>1 DEF IInv, MostOverdueFirst
    <3> QED
      BY <2>1, <2>2, <3>1, <3>2 DEF first
  <2> QED
    BY <2>3, <2>4
<1>12. AttemptLeft'
  <2> SUFFICES ASSUME NEW i \in DOMAIN st.messages, st'.messages[i].state = "pending"
               PROVE  st'.messages[i].failStreak <= Len(st.schedule)
    BY <1>4 DEF AttemptLeft
  <2>1. CASE i = id
    BY <1>4, <1>5, <2>1 DEF Recorded
  <2>2. CASE i # id
    BY <1>4, <2>2 DEF IInv, AttemptLeft
  <2> QED
    BY <2>1, <2>2
<1>13. RoundsPaid'
  <2>1. /\ Cardinality(Spent(st)) + 1 <= Cardinality(Spent(st'))
        /\ Cardinality(Spent(st)) \in Nat /\ Cardinality(Spent(st')) \in Nat
    BY <1>1, <1>4, MarkSpends, AttemptsFinite DEF IInv
  <2>2. round \in Nat /\ round <= Cardinality(Spent(st)) + 1
    BY <1>2, DeliverAssumption DEF IInv, TypeOK, RoundsPaid
  <2> QED
    BY <1>6, <2>1, <2>2 DEF RoundsPaid, Idle
<1> QED
  BY <1>4, <1>7, <1>8, <1>9, <1>10, <1>11, <1>12, <1>13 DEF IInv

-----------------------------------------------------------------------------
LEMMA NextIInv == IInv /\ [Next]_vars => IInv'
<1> SUFFICES ASSUME IInv, [Next]_vars PROVE IInv'
  OBVIOUS
<1>1. CASE UNCHANGED vars
  BY <1>1 DEF vars, runVars, IInv, TypeOK, RoundPending, ReceiptsExplained, InFlight,
              RecordedEnds, MostOverdueFirst, AttemptLeft, RoundsPaid, Idle
<1>2. CASE \/ \E name \in Names :
                 RemoveEndpoint(name) \/ \E secret \in Secrets : AddEndpoint(name, secret)
           \/ \E id \in Ids : Requeue(id) \/ \E name \in Names : Enqueue(id, name)
  <2>1. CommandStep
    BY <1>2, CommandSteps DEF IInv
  <2> QED
    BY <2>1, CommandsKeepIInv
<1>3. CASE Attempt
  BY <1>3, PostKeepsIInv, MarkKeepsIInv DEF Attempt
<1>4. CASE Tick \/ Start \/ Round \/ Exceeded \/ Kill
  BY <1>4, TickKeepsIInv, StartKeepsIInv, RoundKeepsIInv, ExceededKeepsIInv, KillKeepsIInv
<1> QED
  BY <1>1, <1>2, <1>3, <1>4 DEF Next

LEMMA IInvHolds == Spec => []IInv
  BY InitIInv, NextIInv, PTL DEF Spec

(***************************************************************************)
(* The run's variables keep their types; no round lists a message twice.   *)
(***************************************************************************)
THEOREM TypeCorrect == Spec => []TypeOK
  BY IInvHolds, PTL DEF IInv

(***************************************************************************)
(* Whatever runs are killed and whatever commands come between them: an    *)
(* acceptance that reached the log is the message's only one.              *)
(***************************************************************************)
THEOREM ReceiptsAreExplained == Spec => []ReceiptsExplained
  BY IInvHolds, PTL DEF IInv

(***************************************************************************)
(* A limited round passes over no message that was due before one it took. *)
(***************************************************************************)
THEOREM OverdueFirst == Spec => []MostOverdueFirst
  BY IInvHolds, PTL DEF IInv

(***************************************************************************)
(* No attempt comes before the schedule's wait since the last failure has  *)
(* passed, whatever schedule, runs and kills.                              *)
(***************************************************************************)
THEOREM AttemptsAreSpaced == Spec => []Spaced
<1>1. IInv => Spaced
  <2> SUFFICES ASSUME IInv, NEW id \in ToSet(due), lastEnd[id] # NoTime
               PROVE  /\ st.messages[id].failStreak \in 1..Len(st.schedule)
                      /\ now >= lastEnd[id] + st.schedule[st.messages[id].failStreak]
    BY DEF Spaced
  <2>1. IsDue(st, id, now) /\ id \in DOMAIN st.messages /\ id \in Ids
    BY DEF IInv, RoundPending, TypeOK, ToSet, StoreType
  <2>2. /\ st.messages[id].failStreak \in 1..Len(st.schedule)
        /\ st.messages[id].nextDue = lastEnd[id] + st.schedule[st.messages[id].failStreak]
        /\ st.messages[id].nextDue <= now
    BY <2>1 DEF IInv, RecordedEnds, IsDue
  <2>3. st.messages[id].nextDue \in Nat /\ now \in Nat
    BY <2>1 DEF IInv, TypeOK, StoreType, Message
  <2> QED
    BY <2>2, <2>3
<1> QED
  BY <1>1, IInvHolds, PTL

(***************************************************************************)
(* Drain stops by itself after as many rounds as its messages have         *)
(* attempts, however many of either there are: maxDrainRounds is met by no *)
(* smaller queue.                                                          *)
(***************************************************************************)
THEOREM DrainsSettle == Spec => []DrainSettles
<1>1. IInv => DrainSettles
  BY AttemptsFinite DEF IInv, RoundsPaid, DrainSettles
<1> QED
  BY <1>1, IInvHolds, PTL
-----------------------------------------------------------------------------
(***************************************************************************)
(* Refinement of Outbox.  Only the commands and the record of an attempt   *)
(* change the store, and each does one step of Outbox; the clock, and the  *)
(* rest of a run, a kill included, stutter.                                *)
(***************************************************************************)
LEMMA InitPromises == Init => Promise!Init
<1> SUFFICES ASSUME Init PROVE Promise!Init
  OBVIOUS
<1>1. PICK schedule \in Schedules : st = Apply(NewStore, ConfigRec(schedule))
  BY DEF Init
<1>2. StoreType(st) /\ DOMAIN st.messages = {} /\ st.schedule \in Schedule
  BY <1>1, ConfigApplied, DeliverAssumption DEF StoreType
<1>3. MaxAttempts(st.schedule) \in Nat \ {0}
  BY <1>2 DEF MaxAttempts, Schedule
<1> QED
  BY <1>2, <1>3 DEF Promise!Init, Status, Streaks, Has

\* Messages that keep their states and streaks keep their promise.
LEMMA AllKept ==
    ASSUME st'.schedule = st.schedule, DOMAIN st'.messages = DOMAIN st.messages,
           \A id \in DOMAIN st.messages :
               /\ st'.messages[id].state = st.messages[id].state
               /\ st'.messages[id].failStreak = st.messages[id].failStreak
    PROVE  UNCHANGED Promise!vars
  BY DEF Promise!vars, Status, Streaks, Has

LEMMA CommandsPromise ==
    ASSUME StoreType(st), TypeOK,
           \/ \E name \in Names :
                 RemoveEndpoint(name) \/ \E secret \in Secrets : AddEndpoint(name, secret)
           \/ \E id \in Ids : Requeue(id) \/ \E name \in Names : Enqueue(id, name)
    PROVE  [Promise!Next]_(Promise!vars)
<1>1. \A id \in DOMAIN st.messages : id \in Ids /\ st.messages[id] \in Message
  BY DEF StoreType
<1>2. now \in Nat
  BY DEF TypeOK
<1>3. ASSUME NEW name \in Names, NEW secret \in Secrets, AddEndpoint(name, secret)
      PROVE  [Promise!Next]_(Promise!vars)
  BY <1>3, EndpointAddApplied, AllKept DEF AddEndpoint, Command
<1>4. ASSUME NEW name \in Names, RemoveEndpoint(name)
      PROVE  [Promise!Next]_(Promise!vars)
  <2> DEFINE set == DeadLettered(st, name)
  <2>1. /\ set \in SUBSET Ids /\ set \subseteq DOMAIN st.messages
        /\ \A id \in set : st.messages[id].state = "pending"
    BY <1>1 DEF DeadLettered
  <2>2. /\ st'.schedule = st.schedule /\ DOMAIN st'.messages = DOMAIN st.messages
        /\ \A id \in DOMAIN st.messages :
              st'.messages[id] = IF id \in set THEN Orphaned(st.messages[id])
                                 ELSE st.messages[id]
    BY <1>4, EndpointRemoveApplied DEF RemoveEndpoint, Command
  <2>3. \A id \in DOMAIN st.messages :
            /\ st'.messages[id].state = IF id \in set THEN "dead" ELSE st.messages[id].state
            /\ st'.messages[id].failStreak = st.messages[id].failStreak
    BY <1>1, <2>2 DEF Orphaned, Message
  <2> HIDE DEF set
  <2>4. \A id \in set : Status(st)[id] = "pending"
    BY <2>1 DEF Status, Has
  <2>5. Status(st)' = [id \in Ids |-> IF id \in set THEN "dead" ELSE Status(st)[id]]
    BY <2>1, <2>2, <2>3 DEF Status, Has
  <2>6. Streaks(st)' = Streaks(st)
    BY <2>2, <2>3 DEF Streaks, Has
  <2>7. Promise!Cancel(set)
    BY <2>2, <2>4, <2>5, <2>6 DEF Promise!Cancel
  <2> QED
    BY <2>1, <2>7 DEF Promise!Next
<1>5. ASSUME NEW id \in Ids, NEW name \in Names, Enqueue(id, name)
      PROVE  [Promise!Next]_(Promise!vars)
  <2>1. id \notin DOMAIN st.messages /\ st' = Apply(st, EnqueueRec(id, name, now))
    BY <1>5 DEF Enqueue, Command, Has
  <2>2. st'.schedule = st.schedule /\ st'.messages = Put(st.messages, id, NewMessage(name, now))
    BY <1>2, <2>1, EnqueueApplied
  <2>3. /\ DOMAIN st'.messages = DOMAIN st.messages \cup {id}
        /\ st'.messages[id].state = "pending" /\ st'.messages[id].failStreak = 0
        /\ \A i \in DOMAIN st.messages : st'.messages[i] = st.messages[i]
    BY <2>1, <2>2 DEF Put, NewMessage
  <2>4. Status(st)[id] = "none" /\ Status(st)' = [Status(st) EXCEPT ![id] = "pending"]
    BY <2>1, <2>3 DEF Status, Has
  <2>5. Streaks(st)' = Streaks(st)
    BY <2>1, <2>3 DEF Streaks, Has
  <2>6. Promise!Accept(id)
    BY <2>2, <2>4, <2>5 DEF Promise!Accept
  <2> QED
    BY <2>6 DEF Promise!Next
<1>6. ASSUME NEW id \in Ids, Requeue(id)
      PROVE  [Promise!Next]_(Promise!vars)
  <2>1. /\ id \in DOMAIN st.messages /\ st.messages[id].state = "dead"
        /\ st' = Apply(st, RequeueRec(id, now))
    BY <1>6 DEF Requeue, Command, CanRequeue, Has
  <2>2. /\ st'.schedule = st.schedule /\ DOMAIN st'.messages = DOMAIN st.messages
        /\ \A i \in DOMAIN st.messages \ {id} : st'.messages[i] = st.messages[i]
        /\ st'.messages[id] = Requeued(st.messages[id], now)
    BY <1>2, <2>1, RequeueApplied
  <2>3. st'.messages[id].state = "pending" /\ st'.messages[id].failStreak = 0
    BY <1>1, <2>1, <2>2 DEF Requeued, Message
  <2>4. \A i \in {id} : Status(st)[i] = "dead"
    BY <2>1 DEF Status, Has
  <2>5. Status(st)' = [i \in Ids |-> IF i \in {id} THEN "pending" ELSE Status(st)[i]]
    BY <2>1, <2>2, <2>3 DEF Status, Has
  <2>6. Streaks(st)' = [i \in Ids |-> IF i \in {id} THEN 0 ELSE Streaks(st)[i]]
    BY <2>1, <2>2, <2>3 DEF Streaks, Has
  <2>7. Promise!Requeue({id})
    BY <2>2, <2>4, <2>5, <2>6 DEF Promise!Requeue
  <2> QED
    BY <2>7 DEF Promise!Next
<1> QED
  BY <1>3, <1>4, <1>5, <1>6

LEMMA MarkPromises ==
    ASSUME IInv, NEW id \in Ids, Mark(id)
    PROVE  Promise!Next
<1> DEFINE m == st.messages[id]
           n == st'.messages[id]
           budget == MaxAttempts(st.schedule)
<1>1. MarkStep(id)
  BY MarkSteps
<1>2. /\ id \in DOMAIN st.messages /\ m.state = "pending"
      /\ m.failStreak \in Nat /\ budget = Len(st.schedule) + 1 /\ Len(st.schedule) \in Nat
  <2>1. id \in DOMAIN st.messages /\ m.state = "pending"
    BY <1>1, FirstOfRound DEF MarkStep
  <2>2. m \in Message /\ st.schedule \in Seq(Nat)
    BY <2>1 DEF IInv, StoreType, Schedule
  <2> QED
    BY <2>1, <2>2 DEF Message, MaxAttempts
<1>3. /\ st'.schedule = st.schedule /\ DOMAIN st'.messages = DOMAIN st.messages
      /\ \A i \in DOMAIN st.messages \ {id} : st'.messages[i] = st.messages[i]
      /\ Recorded(m, n, lastEnd'[id])
  BY <1>1 DEF MarkStep
<1>4. Status(st)[id] = "pending" /\ Streaks(st)[id] = m.failStreak
  BY <1>2 DEF Status, Streaks, Has
<1>5. /\ Status(st)' = [Status(st) EXCEPT ![id] = n.state]
      /\ Streaks(st)' = [Streaks(st) EXCEPT ![id] = n.failStreak]
  BY <1>2, <1>3 DEF Status, Streaks, Has
<1>6. CASE verdict = "accepted"
  <2>1. n.state = "delivered" /\ n.failStreak = 0
    BY <1>3, <1>6 DEF Recorded
  <2>2. Promise!Deliver(id)
    BY <1>3, <1>4, <1>5, <2>1 DEF Promise!Deliver
  <2> QED
    BY <2>2 DEF Promise!Next
<1>7. CASE verdict # "accepted"
  <2>1. /\ n.failStreak = m.failStreak + 1
        /\ n.state = IF m.failStreak + 1 < budget THEN "pending" ELSE "dead"
    BY <1>2, <1>3, <1>7 DEF Recorded
  <2>2. Promise!Fail(id)
    BY <1>3, <1>4, <1>5, <2>1 DEF Promise!Fail
  <2> QED
    BY <2>2 DEF Promise!Next
<1> QED
  BY <1>6, <1>7

LEMMA NextPromises == IInv /\ [Next]_vars => [Promise!Next]_(Promise!vars)
<1> SUFFICES ASSUME IInv, [Next]_vars PROVE [Promise!Next]_(Promise!vars)
  OBVIOUS
<1>1. CASE st' = st
  BY <1>1, AllKept
<1>2. CASE \/ \E name \in Names :
                 RemoveEndpoint(name) \/ \E secret \in Secrets : AddEndpoint(name, secret)
           \/ \E id \in Ids : Requeue(id) \/ \E name \in Names : Enqueue(id, name)
  BY <1>2, CommandsPromise DEF IInv
<1>3. CASE \E id \in Ids : Mark(id)
  BY <1>3, MarkPromises
<1>4. CASE Tick \/ Start \/ Round \/ Exceeded \/ Kill \/ \E id \in Ids : Post(id)
  BY <1>1, <1>4 DEF Tick, Start, Round, Exceeded, Kill, Post
<1> QED
  BY <1>1, <1>2, <1>3, <1>4 DEF Next, Attempt, vars

(***************************************************************************)
(* The engine implements Outbox, for any schedule, limit, number of rounds *)
(* and kills at any step: with an attempt's record all of what the attempt *)
(* does to its message happens, and without it none.                       *)
(***************************************************************************)
THEOREM EngineImplementsOutbox == Spec => ImplementsOutbox
<1>1. Promise!Init /\ [][Promise!Next]_(Promise!vars) => ImplementsOutbox
  BY DEF ImplementsOutbox, Promise!Spec
<1> QED
  BY <1>1, InitPromises, NextPromises, IInvHolds, PTL DEF Spec
=============================================================================
