--------------------------- MODULE CommandsProofs ---------------------------
(***************************************************************************)
(* Theorems about Commands.  The argument: the log only ever grows by the  *)
(* record that the running command's next call allows (Writes), and every  *)
(* content that a crash may leave is between what was told and what is in  *)
(* the file (MayBeLeft), and replays to its store (Replays).               *)
(***************************************************************************)
EXTENDS Commands, StoreStateProofs, TLAPS

(***************************************************************************)
(* The inductive invariant has four parts.                                 *)
(*                                                                         *)
(* What a crash may leave, between the past that was told and the past in  *)
(* the file; and what it replays to.                                       *)
(***************************************************************************)
IsSeq(p) == p \in Seq(ToSet(p))

MayBeLeft(c, reported, written) ==
    /\ c = Contents(c.state, c.recs, c.past, c.store)
    /\ IsSeq(c.recs) /\ IsSeq(c.past) /\ Len(c.recs) <= Len(c.past) + 1
    /\ IsPrefix(reported, c.past) /\ IsPrefix(c.past, written)
    /\ c.state = "absent" => c.recs = <<>> /\ c.past = <<>>
    /\ \A i \in 2..Len(c.past) : c.past[i].type # "config"

Replays(c) == Replayable(c.recs) /\ Replay(c.recs) = c.store /\ IsStore(c.store)

Logs == IsSeq(told) /\ \A c \in Recoverable : MayBeLeft(c, told, disk.past) /\ Replays(c)

(***************************************************************************)
(* Memory: the store of the log, up to the record that is being written.   *)
(***************************************************************************)
Memory ==
    /\ pc \in {"none", "run", "sync"}
    /\ pc # "none" => disk.state = "sound"
    /\ pc = "run" => st = disk.store
    /\ pc = "sync" => Apply(st, Head(todo)) = disk.store

(***************************************************************************)
(* What a command has to do: a single call whose arguments are drawn for   *)
(* the store it opened, or several calls of one kind.                      *)
(***************************************************************************)
ConfigCall(r) ==
    disk.recs = <<>> /\ disk.past = <<>> /\ \E schedule \in Schedules : r = ConfigRec(schedule)

EndpointCall(s, r) ==
    \E name \in Names :
        \/ r = EndpointRemoveRec(name)
        \/ \E secret \in Secrets :
              \/ r = EndpointAddRec(name, secret)
              \/ /\ r = EndpointRotateRec(name, secret)
                 /\ Has(s.endpoints, name) => secret \notin ToSet(s.endpoints[name])

EnqueueCall(s, r) ==
    \E id \in Ids, name \in Names, now \in Times :
        r = EnqueueRec(id, name, now) /\ ~Has(s.messages, id)

SingleCall(r) ==
    \/ ConfigCall(r) \/ EndpointCall(st, r) \/ EnqueueCall(st, r)
    \/ r = CompactCall /\ asked = <<CompactCall>>

RepeatedCall(r) ==
    \E id \in Ids :
        \/ r = [type |-> "post", id |-> id]
        \/ \E now \in Times : r = RequeueRec(id, now)

Work ==
    /\ IsSeq(todo)
    /\ pc = "run" =>
          \/ Len(todo) = 1 /\ SingleCall(todo[1])
          \/ \A i \in 1..Len(todo) : RepeatedCall(todo[i])
    /\ pc = "sync" =>
          /\ todo # <<>>
          /\ \A i \in 2..Len(todo) : RepeatedCall(todo[i])

(***************************************************************************)
(* What it has done: the calls before those of todo are, in their order,   *)
(* the last records of the log, and were told when they were synced.       *)
(***************************************************************************)
Done == Len(asked) - Len(todo) + (IF pc = "sync" THEN 1 ELSE 0)

InLog(past, wanted, n) ==
    /\ n <= Len(past)
    /\ \A i \in 1..n : SameCall(past[Len(past) - n + i], wanted[i])

Progress ==
    /\ IsSeq(asked)
    /\ pc = "none" /\ code = 0 /\ asked # <<CompactCall>> => InLog(told, asked, Len(asked))
    /\ pc # "none" =>
          /\ Done \in 0..Len(asked)
          /\ \A i \in Done + 1..Len(asked) : todo[i + Len(todo) - Len(asked)] = asked[i]
          /\ asked # <<CompactCall>> => InLog(disk.past, asked, Done)
    /\ pc = "run" /\ Done > 0 /\ asked # <<CompactCall>> => told = disk.past

-----------------------------------------------------------------------------
LEMMA AnySeq ==
    ASSUME NEW X, NEW p \in Seq(X)
    PROVE  IsSeq(p)
<1>1. p \in [1..Len(p) -> ToSet(p)] /\ Len(p) \in Nat
  BY DEF ToSet
<1> QED
  BY <1>1 DEF IsSeq

\* p with r at its end.
Longest(p, r, q) ==
    /\ IsSeq(q) /\ Len(q) = Len(p) + 1 /\ q[Len(q)] = r
    /\ \A i \in 1..Len(p) : q[i] = p[i]

LEMMA AppendLonger ==
    ASSUME NEW p, IsSeq(p), NEW r
    PROVE  Longest(p, r, Append(p, r))
<1> DEFINE q == Append(p, r)
<1>1. q \in Seq(ToSet(p) \cup {r})
  BY DEF IsSeq
<1>2. /\ Len(p) \in Nat /\ Len(q) = Len(p) + 1 /\ q[Len(p) + 1] = r
      /\ \A i \in 1..Len(p) : q[i] = p[i]
  BY DEF IsSeq
<1> HIDE DEF q
<1>3. IsSeq(q)
  BY <1>1, AnySeq
<1> QED
  BY <1>2, <1>3 DEF Longest, q

LEMMA PrefixIs ==
    ASSUME NEW p, IsSeq(p), NEW q, IsSeq(q)
    PROVE  IsPrefix(p, q) <=> Len(p) <= Len(q) /\ \A i \in 1..Len(p) : p[i] = q[i]
<1>1. Len(p) \in Nat /\ Len(q) \in Nat
  BY DEF IsSeq
<1>2. ASSUME Len(p) <= Len(q), \A i \in 1..Len(p) : p[i] = q[i]
      PROVE  SubSeq(p, 1, Len(p)) = SubSeq(q, 1, Len(p))
  BY <1>1, <1>2 DEF IsSeq
<1>3. ASSUME Len(p) <= Len(q), SubSeq(p, 1, Len(p)) = SubSeq(q, 1, Len(p)), NEW i \in 1..Len(p)
      PROVE  p[i] = q[i]
  <2>1. SubSeq(p, 1, Len(p))[i] = p[i] /\ SubSeq(q, 1, Len(p))[i] = q[i]
    BY <1>1, <1>3 DEF IsSeq
  <2> QED
    BY <1>3, <2>1
<1> QED
  BY <1>2, <1>3 DEF IsPrefix

LEMMA PrefixTransitive ==
    ASSUME NEW p, IsSeq(p), NEW q, IsSeq(q), NEW r, IsSeq(r), IsPrefix(p, q), IsPrefix(q, r)
    PROVE  IsPrefix(p, r)
<1>1. Len(p) \in Nat /\ Len(q) \in Nat /\ Len(r) \in Nat
  BY DEF IsSeq
<1>2. /\ Len(p) <= Len(q) /\ \A i \in 1..Len(p) : p[i] = q[i]
      /\ Len(q) <= Len(r) /\ \A i \in 1..Len(q) : q[i] = r[i]
  BY PrefixIs
<1>3. \A i \in 1..Len(p) : i \in 1..Len(q)
  BY <1>1, <1>2
<1>4. Len(p) <= Len(r) /\ \A i \in 1..Len(p) : p[i] = r[i]
  BY <1>1, <1>2, <1>3
<1> QED
  BY <1>4, PrefixIs

LEMMA PrefixReflexive ==
    ASSUME NEW p, IsSeq(p)
    PROVE  IsPrefix(p, p)
<1>1. Len(p) \in Nat
  BY DEF IsSeq
<1> QED
  BY <1>1, PrefixIs

LEMMA PrefixLonger ==
    ASSUME NEW p, IsSeq(p), NEW r, NEW q, Longest(p, r, q)
    PROVE  IsPrefix(p, q)
<1>1. Len(p) \in Nat
  BY DEF IsSeq
<1> QED
  BY <1>1, PrefixIs DEF Longest
-----------------------------------------------------------------------------
(***************************************************************************)
(* What a call writes, and that the store it is written for takes it.      *)
(***************************************************************************)
Writes(r) ==
    \/ ConfigCall(r)
    \/ \E name \in Names, secret \in Secrets :
          r = EndpointAddRec(name, secret) /\ ~Has(st.endpoints, name)
    \/ \E name \in Names : r = EndpointRemoveRec(name) /\ Has(st.endpoints, name)
    \/ \E name \in Names, secret \in Secrets :
          /\ r = EndpointRotateRec(name, secret)
          /\ Has(st.endpoints, name) /\ secret \notin ToSet(st.endpoints[name])
    \/ \E id \in Ids, name \in Names, now \in Times :
          /\ r = EnqueueRec(id, name, now)
          /\ Has(st.endpoints, name) /\ ~Has(st.messages, id)
    \/ \E id \in Ids, verdict \in Verdicts, now \in Times :
          /\ r = AttemptRec(id, verdict, Outcome(st, id, verdict), RetryAt(st, id, verdict, now))
          /\ Has(st.messages, id) /\ st.messages[id].state = "pending"
    \/ \E id \in Ids, now \in Times : r = RequeueRec(id, now) /\ CanRequeue(st, id)

LEMMA CallWrites ==
    ASSUME Work, pc = "run", todo # <<>>, Head(todo).type # "compact", Allowed(st, Head(todo)),
           NEW r \in Answered(st, Head(todo))
    PROVE  Writes(r)
<1> DEFINE call == todo[1]
<1>1. Head(todo) = call /\ 1 \in 1..Len(todo)
  BY DEF Work, IsSeq
<1>2. SingleCall(call) \/ RepeatedCall(call)
  BY <1>1 DEF Work
<1>3. call.type # "compact" /\ Allowed(st, call) /\ r \in Answered(st, call)
  BY <1>1
<1> HIDE DEF call
<1>4. CASE ConfigCall(call)
  <2>1. call.type = "config"
    BY <1>4 DEF ConfigCall, ConfigRec
  <2>2. r = call
    BY <1>3, <2>1 DEF Answered
  <2> QED
    BY <1>4, <2>2 DEF Writes
<1>5. CASE EndpointCall(st, call)
  <2>1. PICK name \in Names :
            \/ call = EndpointRemoveRec(name)
            \/ \E secret \in Secrets :
                  \/ call = EndpointAddRec(name, secret)
                  \/ /\ call = EndpointRotateRec(name, secret)
                     /\ Has(st.endpoints, name) => secret \notin ToSet(st.endpoints[name])
    BY <1>5 DEF EndpointCall
  <2>2. r = call
    BY <1>3, <2>1 DEF Answered, EndpointAddRec, EndpointRemoveRec, EndpointRotateRec
  <2>3. CASE call = EndpointRemoveRec(name)
    <3>1. Has(st.endpoints, name)
      BY <1>3, <2>3 DEF Allowed, EndpointRemoveRec
    <3> QED
      BY <2>2, <2>3, <3>1 DEF Writes
  <2>4. ASSUME NEW secret \in Secrets, call = EndpointAddRec(name, secret)
        PROVE  Writes(r)
    <3>1. ~Has(st.endpoints, name)
      BY <1>3, <2>4 DEF Allowed, EndpointAddRec
    <3> QED
      BY <2>2, <2>4, <3>1 DEF Writes
  <2>5. ASSUME NEW secret \in Secrets, call = EndpointRotateRec(name, secret),
               Has(st.endpoints, name) => secret \notin ToSet(st.endpoints[name])
        PROVE  Writes(r)
    <3>1. Has(st.endpoints, name)
      BY <1>3, <2>5 DEF Allowed, EndpointRotateRec
    <3> QED
      BY <2>2, <2>5, <3>1 DEF Writes
  <2> QED
    BY <2>1, <2>3, <2>4, <2>5
<1>6. CASE EnqueueCall(st, call)
  <2>1. PICK id \in Ids, name \in Names, now \in Times :
            call = EnqueueRec(id, name, now) /\ ~Has(st.messages, id)
    BY <1>6 DEF EnqueueCall
  <2>2. r = call
    BY <1>3, <2>1 DEF Answered, EnqueueRec
  <2>3. Has(st.endpoints, name)
    BY <1>3, <2>1 DEF Allowed, EnqueueRec
  <2> QED
    BY <2>1, <2>2, <2>3 DEF Writes
<1>7. CASE RepeatedCall(call)
  <2>1. PICK id \in Ids : call = [type |-> "post", id |-> id] \/ \E now \in Times : call = RequeueRec(id, now)
    BY <1>7 DEF RepeatedCall
  <2>2. CASE call = [type |-> "post", id |-> id]
    <3>1. call.type = "post" /\ call.id = id
      BY <2>2
    <3>2. Has(st.messages, id) /\ st.messages[id].state = "pending"
      BY <1>3, <3>1 DEF Allowed
    <3>3. PICK verdict \in Verdicts, now \in Times :
              r = AttemptRec(id, verdict, Outcome(st, id, verdict), RetryAt(st, id, verdict, now))
      BY <1>3, <3>1 DEF Answered
    <3> QED
      BY <3>2, <3>3 DEF Writes
  <2>3. CASE \E now \in Times : call = RequeueRec(id, now)
    <3>1. PICK now \in Times : call = RequeueRec(id, now)
      BY <2>3
    <3>2. call.type = "requeue" /\ call.id = id
      BY <3>1 DEF RequeueRec
    <3>3. CanRequeue(st, id)
      BY <1>3, <3>2 DEF Allowed
    <3>4. r = call
      BY <1>3, <3>2 DEF Answered
    <3> QED
      BY <3>1, <3>3, <3>4 DEF Writes
  <2> QED
    BY <2>1, <2>2, <2>3
<1> QED
  BY <1>2, <1>3, <1>4, <1>5, <1>6, <1>7 DEF SingleCall, CompactCall

LEMMA WritesFit ==
    ASSUME IsStore(st), NEW r, Writes(r)
    PROVE  Applies(st, r) /\ IsStore(Apply(st, r))
<1>1. Schedules \subseteq Schedule /\ Times \subseteq Nat
  BY CommandsAssumption
<1>2. CASE ConfigCall(r)
  BY <1>1, <1>2, ConfigStored DEF ConfigCall
<1>3. CASE \E name \in Names, secret \in Secrets :
              r = EndpointAddRec(name, secret) /\ ~Has(st.endpoints, name)
  BY <1>3, EndpointAddStored DEF Has
<1>4. CASE \E name \in Names : r = EndpointRemoveRec(name) /\ Has(st.endpoints, name)
  BY <1>4, EndpointRemoveStored
<1>5. CASE \E name \in Names, secret \in Secrets :
              /\ r = EndpointRotateRec(name, secret)
              /\ Has(st.endpoints, name) /\ secret \notin ToSet(st.endpoints[name])
  BY <1>5, EndpointRotateStored DEF Has
<1>6. CASE \E id \in Ids, name \in Names, now \in Times :
              /\ r = EnqueueRec(id, name, now)
              /\ Has(st.endpoints, name) /\ ~Has(st.messages, id)
  BY <1>1, <1>6, EnqueueStored DEF Has
<1>7. CASE \E id \in Ids, verdict \in Verdicts, now \in Times :
              /\ r = AttemptRec(id, verdict, Outcome(st, id, verdict), RetryAt(st, id, verdict, now))
              /\ Has(st.messages, id) /\ st.messages[id].state = "pending"
  <2>1. PICK id \in Ids, verdict \in Verdicts, now \in Times :
              /\ r = AttemptRec(id, verdict, Outcome(st, id, verdict), RetryAt(st, id, verdict, now))
              /\ Has(st.messages, id) /\ st.messages[id].state = "pending"
    BY <1>7
  <2>2. Outcome(st, id, verdict) \in Outcomes /\ RetryAt(st, id, verdict, now) \in Nat
    BY <1>1, <2>1, StoreHasType, OutcomeType DEF Has
  <2> QED
    BY <2>1, <2>2, AttemptStored DEF Has
<1>8. CASE \E id \in Ids, now \in Times : r = RequeueRec(id, now) /\ CanRequeue(st, id)
  BY <1>1, <1>8, RequeueStored DEF CanRequeue, Has
<1> QED
  BY <1>2, <1>3, <1>4, <1>5, <1>6, <1>7, <1>8 DEF Writes
-----------------------------------------------------------------------------
(***************************************************************************)
(* What a step does to the log.                                            *)
(***************************************************************************)
Untouched == UNCHANGED <<disk, spared, told>>

FileCreated ==
    /\ disk.state = "absent" /\ disk' = [disk EXCEPT !.state = "sound"]
    /\ spared' = spared \cup {disk'} /\ told' = told

RecordWritten(r) ==
    /\ pc = "run" /\ Writes(r)
    /\ disk' = Longer(r)
    /\ spared' = spared \cup {CutShort, disk'} /\ told' = told

RecordCutShort == disk' = CutShort /\ spared' = spared \cup {disk'} /\ told' = told

RecordSynced == disk' = disk /\ spared' = {disk} /\ told' = disk.past

LogCompacted ==
    /\ pc = "run"
    /\ disk' = [disk EXCEPT !.recs = <<SnapshotRec(st)>>]
    /\ spared' \in {spared \cup {disk'}, {disk'}} /\ told' = told

PowerLost == disk' \in spared /\ spared' = {disk'} /\ told' = told

LogStep ==
    \/ Untouched \/ FileCreated \/ RecordCutShort \/ RecordSynced \/ LogCompacted \/ PowerLost
    \/ \E r : RecordWritten(r)

LEMMA CommandRuns ==
    ASSUME Command
    PROVE  UNCHANGED <<disk, spared, told>>
  BY DEF Command, Show, Fails, Ended, Starts, EndpointAdd, EndpointRotate, EndpointRemove, Enqueue,
         Requeue, RequeueAll, Deliver, Compact

LEMMA StepsOnLog ==
    ASSUME Work, [Next]_vars
    PROVE  LogStep
<1>1. CASE UsageError \/ NotOpened \/ InitRefused \/ Refuse \/ SyncFails \/ Finish \/ Kill
  BY <1>1 DEF UsageError, NotOpened, InitRefused, Refuse, Refused, SyncFails, SyncFailed, Finish, Kill,
              Fails, Ended, LogStep, Untouched
<1>2. CASE \E schedule \in Schedules : InitStarts(schedule)
  BY <1>2 DEF InitStarts, NoLog, LogStep, FileCreated
<1>3. CASE Command
  BY <1>3, CommandRuns DEF LogStep, Untouched
<1>4. CASE Write
  <2>1. PICK r \in Answered(st, Head(todo)) :
            disk' = Longer(r) /\ spared' = spared \cup {CutShort, disk'} /\ told' = told
    BY <1>4 DEF Write
  <2>2. Writes(r)
    BY <1>4, CallWrites DEF Write
  <2> QED
    BY <1>4, <2>1, <2>2 DEF Write, LogStep, RecordWritten
<1>5. CASE WriteCutShort
  BY <1>5 DEF WriteCutShort, LogStep, RecordCutShort
<1>6. CASE Sync
  BY <1>6 DEF Sync, Synced, LogStep, RecordSynced
<1>7. CASE Rewrite
  BY <1>7 DEF Rewrite, LogStep, LogCompacted
<1>8. CASE PowerLoss
  BY <1>8 DEF PowerLoss, LogStep, PowerLost
<1>9. CASE UNCHANGED vars
  BY <1>9 DEF vars, LogStep, Untouched
<1> QED
  BY <1>1, <1>2, <1>3, <1>4, <1>5, <1>6, <1>7, <1>8, <1>9 DEF Next

-----------------------------------------------------------------------------
LEMMA LeftByMore ==
    ASSUME NEW c, NEW reported, NEW written, NEW longer,
           IsSeq(written), IsSeq(longer), IsPrefix(written, longer),
           MayBeLeft(c, reported, written)
    PROVE  MayBeLeft(c, reported, longer)
  BY PrefixTransitive DEF MayBeLeft

LEMMA LogsAre ==
    ASSUME Logs
    PROVE  /\ MayBeLeft(disk, told, disk.past) /\ Replays(disk)
           /\ \A c \in spared : MayBeLeft(c, told, disk.past) /\ Replays(c)
  BY DEF Logs, Recoverable

LEMMA CutShortIsLeft ==
    ASSUME Logs
    PROVE  /\ MayBeLeft(CutShort, told, disk.past) /\ Replays(CutShort)
           /\ CutShort.past = disk.past /\ CutShort.recs = disk.recs
<1>1. MayBeLeft(disk, told, disk.past) /\ Replays(disk)
  BY LogsAre
<1>2. disk = Contents(disk.state, disk.recs, disk.past, disk.store)
  BY <1>1 DEF MayBeLeft
<1>3. CASE disk.recs = <<>>
  <2>1. CutShort = Contents("damaged", disk.recs, disk.past, disk.store)
    BY <1>2, <1>3 DEF CutShort, Contents
  <2> QED
    BY <1>1, <2>1 DEF MayBeLeft, Replays, Contents
<1>4. CASE disk.recs # <<>>
  BY <1>1, <1>4 DEF CutShort
<1> QED
  BY <1>3, <1>4

LEMMA LongerIsLeft ==
    ASSUME Logs, st = disk.store, NEW r, Writes(r)
    PROVE  /\ MayBeLeft(Longer(r), told, Longer(r).past) /\ Replays(Longer(r))
           /\ IsSeq(Longer(r).past) /\ IsPrefix(disk.past, Longer(r).past)
<1> DEFINE recs == Append(disk.recs, r)
           past == Append(disk.past, r)
           store == Apply(disk.store, r)
           c == Longer(r)
<1>1. MayBeLeft(disk, told, disk.past) /\ Replays(disk) /\ IsSeq(told)
  BY LogsAre DEF Logs
<1>2. IsSeq(disk.recs) /\ IsSeq(disk.past) /\ IsPrefix(told, disk.past)
  BY <1>1 DEF MayBeLeft
<1>3. Longest(disk.recs, r, recs) /\ Longest(disk.past, r, past)
  BY <1>2, AppendLonger
<1>4. Applies(disk.store, r) /\ IsStore(store)
  BY <1>1, WritesFit DEF Replays
<1>5. Replayable(recs) /\ Replay(recs) = store
  BY <1>1, <1>2, <1>4, ReplayAppend, ReplayableAppend DEF Replays, IsSeq
<1>6. c.state = "sound" /\ c.recs = recs /\ c.past = past /\ c.store = store
  BY DEF Longer, Contents
<1>7. c = Contents(c.state, c.recs, c.past, c.store)
  BY DEF Longer, Contents
<1>8. \A i \in 2..Len(past) : past[i].type # "config"
  <2> SUFFICES ASSUME NEW i \in 2..Len(past) PROVE past[i].type # "config"
    OBVIOUS
  <2>1. Len(past) = Len(disk.past) + 1 /\ Len(disk.past) \in Nat
    BY <1>2, <1>3 DEF Longest, IsSeq
  <2>2. CASE i # Len(past)
    <3>1. i \in 2..Len(disk.past) /\ i \in 1..Len(disk.past)
      BY <2>1, <2>2
    <3>2. past[i] = disk.past[i]
      BY <1>3, <3>1 DEF Longest
    <3> QED
      BY <1>1, <3>1, <3>2 DEF MayBeLeft
  <2>3. CASE i = Len(past)
    <3>1. disk.past # <<>> /\ ~ConfigCall(r)
      BY <2>1, <2>3 DEF ConfigCall
    <3>2. r.type # "config"
      BY <3>1 DEF Writes, EndpointAddRec, EndpointRemoveRec, EndpointRotateRec, EnqueueRec,
                  AttemptRec, RequeueRec
    <3> QED
      BY <1>3, <2>3, <3>2 DEF Longest
  <2> QED
    BY <2>2, <2>3
<1>9. IsPrefix(disk.past, past) /\ IsPrefix(told, past) /\ IsPrefix(past, past)
  <2>1. IsSeq(past) /\ IsSeq(told)
    BY <1>1, <1>3 DEF Longest
  <2>2. IsPrefix(disk.past, past)
    BY <1>2, <1>3, <2>1, PrefixLonger
  <2> HIDE DEF past
  <2> QED
    BY <1>2, <2>1, <2>2, PrefixTransitive, PrefixReflexive
<1>10. Len(recs) <= Len(past) + 1
  BY <1>1, <1>2, <1>3 DEF MayBeLeft, Longest, IsSeq
<1> HIDE DEF c, recs, past, store
<1>11. MayBeLeft(c, told, past) /\ Replays(c)
  BY <1>3, <1>4, <1>5, <1>6, <1>7, <1>8, <1>9, <1>10 DEF MayBeLeft, Replays, Longest
<1> QED
  BY <1>3, <1>6, <1>9, <1>11 DEF c, Longest

LEMMA CompactedIsLeft ==
    ASSUME Logs, st = disk.store, disk.state = "sound"
    PROVE  LET c == [disk EXCEPT !.recs = <<SnapshotRec(st)>>]
           IN  MayBeLeft(c, told, disk.past) /\ Replays(c) /\ c.past = disk.past
<1> DEFINE c == [disk EXCEPT !.recs = <<SnapshotRec(st)>>]
<1>1. MayBeLeft(disk, told, disk.past) /\ Replays(disk)
  BY LogsAre
<1>2. disk = Contents(disk.state, disk.recs, disk.past, disk.store)
  BY <1>1 DEF MayBeLeft
<1>3. c = Contents(disk.state, <<SnapshotRec(st)>>, disk.past, disk.store)
  BY <1>2 DEF Contents
<1>4. /\ c.state = disk.state /\ c.recs = <<SnapshotRec(st)>>
      /\ c.past = disk.past /\ c.store = disk.store
      /\ c = Contents(c.state, c.recs, c.past, c.store)
  BY <1>3 DEF Contents
<1>5. Replays(c)
  <2>1. IsStore(st)
    BY <1>1 DEF Replays
  <2>2. Replayable(<<SnapshotRec(st)>>) /\ Replay(<<SnapshotRec(st)>>) = st
    BY <2>1, SnapshotApplied, ReplayOne
  <2>3. c.recs = <<SnapshotRec(st)>> /\ c.store = st
    BY <1>4
  <2> HIDE DEF c
  <2>4. Replayable(c.recs) /\ Replay(c.recs) = c.store /\ IsStore(c.store)
    BY <2>1, <2>2, <2>3
  <2> QED
    BY <2>4 DEF Replays
<1>6. IsSeq(c.recs) /\ Len(c.recs) = 1
  <2>1. <<SnapshotRec(st)>> \in Seq({SnapshotRec(st)}) /\ Len(<<SnapshotRec(st)>>) = 1
    OBVIOUS
  <2> QED
    BY <1>4, <2>1, AnySeq
<1>7. Len(disk.past) \in Nat
  BY <1>1 DEF MayBeLeft, IsSeq
<1> HIDE DEF c
<1>8. MayBeLeft(c, told, disk.past)
  BY <1>1, <1>4, <1>6, <1>7 DEF MayBeLeft
<1> QED
  BY <1>4, <1>5, <1>8 DEF c

LEMMA LogsStep ==
    ASSUME Logs, Memory, Work, [Next]_vars
    PROVE  Logs'
<1>1. /\ MayBeLeft(disk, told, disk.past) /\ Replays(disk)
      /\ \A c \in spared : MayBeLeft(c, told, disk.past) /\ Replays(c)
      /\ IsSeq(told) /\ IsSeq(disk.past)
  BY LogsAre DEF Logs, MayBeLeft
<1> SUFFICES /\ IsSeq(told')
             /\ MayBeLeft(disk', told', disk'.past) /\ Replays(disk')
             /\ \A c \in spared' : MayBeLeft(c, told', disk'.past) /\ Replays(c)
  BY DEF Logs, Recoverable
<1>2. CASE Untouched
  BY <1>1, <1>2 DEF Untouched
<1>3. CASE FileCreated
  <2>1. disk' = Contents("sound", disk.recs, disk.past, disk.store)
    BY <1>1, <1>3 DEF FileCreated, MayBeLeft, Contents
  <2>2. disk'.past = disk.past /\ MayBeLeft(disk', told, disk.past) /\ Replays(disk')
    BY <1>1, <2>1 DEF MayBeLeft, Replays, Contents
  <2> QED
    BY <1>1, <1>3, <2>2 DEF FileCreated
<1>4. CASE RecordCutShort
  BY <1>1, <1>4, CutShortIsLeft DEF RecordCutShort
<1>5. CASE RecordSynced
  <2>1. MayBeLeft(disk, disk.past, disk.past)
    BY <1>1, PrefixReflexive DEF MayBeLeft
  <2> QED
    BY <1>1, <1>5, <2>1 DEF RecordSynced
<1>6. CASE LogCompacted
  <2>1. st = disk.store /\ disk.state = "sound"
    BY <1>6 DEF LogCompacted, Memory
  <2>2. MayBeLeft(disk', told, disk.past) /\ Replays(disk') /\ disk'.past = disk.past
    BY <1>6, <2>1, CompactedIsLeft DEF LogCompacted
  <2> QED
    BY <1>1, <1>6, <2>2 DEF LogCompacted
<1>7. CASE PowerLost
  <2>1. MayBeLeft(disk', told, disk.past) /\ Replays(disk')
    BY <1>1, <1>7 DEF PowerLost
  <2>2. MayBeLeft(disk', told, disk'.past)
    BY <2>1, PrefixReflexive DEF MayBeLeft
  <2> QED
    BY <1>1, <1>7, <2>1, <2>2 DEF PowerLost
<1>8. ASSUME NEW r, RecordWritten(r)
      PROVE  /\ IsSeq(told')
             /\ MayBeLeft(disk', told', disk'.past) /\ Replays(disk')
             /\ \A c \in spared' : MayBeLeft(c, told', disk'.past) /\ Replays(c)
  <2>1. st = disk.store /\ Writes(r) /\ told' = told
    BY <1>8 DEF RecordWritten, Memory
  <2>2. /\ MayBeLeft(disk', told, disk'.past) /\ Replays(disk')
        /\ IsSeq(disk'.past) /\ IsPrefix(disk.past, disk'.past)
    BY <1>8, <2>1, LongerIsLeft DEF RecordWritten
  <2>3. \A c \in spared \cup {CutShort} : MayBeLeft(c, told, disk.past) /\ Replays(c)
    BY <1>1, CutShortIsLeft
  <2>4. \A c \in spared \cup {CutShort} : MayBeLeft(c, told, disk'.past)
    BY <1>1, <2>2, <2>3, LeftByMore
  <2> QED
    BY <1>1, <1>8, <2>1, <2>2, <2>3, <2>4 DEF RecordWritten
<1> QED
  BY <1>2, <1>3, <1>4, <1>5, <1>6, <1>7, <1>8, StepsOnLog DEF LogStep

LEMMA LogsInit == Init => Logs
<1> SUFFICES ASSUME Init PROVE Logs
  OBVIOUS
<1>1. PICK past \in Pasts :
          disk = IF past = <<>> THEN Absent ELSE Contents("sound", past, past, Replay(past))
  BY DEF Init
<1>2. spared = {disk} /\ told = disk.past
  BY DEF Init
<1>3. /\ IsSeq(past) /\ Replayable(past) /\ IsStore(Replay(past))
      /\ \A i \in 2..Len(past) : past[i].type # "config"
  BY PastsAssumption DEF IsSeq
<1>4. \E state : /\ disk = Contents(state, past, past, Replay(past))
                 /\ state = "absent" => past = <<>>
  BY <1>1, ReplayNone DEF Absent
<1>5. PICK state : /\ disk = Contents(state, past, past, Replay(past))
                   /\ state = "absent" => past = <<>>
  BY <1>4
<1>6. /\ disk.state = state /\ disk.recs = past /\ disk.past = past /\ disk.store = Replay(past)
      /\ disk = Contents(disk.state, disk.recs, disk.past, disk.store)
  BY <1>5 DEF Contents
<1>7. Len(past) \in Nat
  BY <1>3 DEF IsSeq
<1>8. MayBeLeft(disk, told, disk.past) /\ Replays(disk)
  BY <1>2, <1>3, <1>5, <1>6, <1>7, PrefixReflexive DEF MayBeLeft, Replays
<1> QED
  BY <1>2, <1>3, <1>6, <1>8 DEF Logs, Recoverable
-----------------------------------------------------------------------------
(***************************************************************************)
(* How a command takes up its work, and how it gets through it.            *)
(***************************************************************************)
\* rest is list without its head; q is list with r for its head.
Rest(rest, list) ==
    /\ IsSeq(rest) /\ Len(rest) = Len(list) - 1
    /\ \A i \in 1..Len(rest) : rest[i] = list[i + 1]

Headed(q, r, list) ==
    /\ IsSeq(q) /\ q # <<>> /\ Head(q) = r /\ q[1] = r /\ Len(q) = Len(list)
    /\ \A i \in 2..Len(list) : q[i] = list[i]

LEMMA TailIsRest ==
    ASSUME NEW list, IsSeq(list), list # <<>>
    PROVE  Rest(Tail(list), list)
<1> DEFINE rest == Tail(list)
<1>1. rest \in Seq(ToSet(list)) /\ Len(rest) = Len(list) - 1
  BY DEF IsSeq
<1>2. \A i \in 1..Len(rest) : rest[i] = list[i + 1]
  BY DEF IsSeq
<1> HIDE DEF rest
<1>3. IsSeq(rest)
  BY <1>1, AnySeq
<1> QED
  BY <1>1, <1>2, <1>3 DEF Rest, rest

LEMMA NewHead ==
    ASSUME NEW list, IsSeq(list), list # <<>>, NEW r
    PROVE  Headed(<<r>> \o Tail(list), r, list)
<1> DEFINE rest == Tail(list)
           q == <<r>> \o rest
<1>1. /\ rest \in Seq(ToSet(list)) /\ Len(rest) = Len(list) - 1
      /\ Len(list) \in Nat \ {0} /\ \A i \in 1..Len(rest) : rest[i] = list[i + 1]
  BY TailIsRest DEF IsSeq, Rest
<1> HIDE DEF rest
<1>2. q \in Seq(ToSet(list) \cup {r}) /\ Len(q) = Len(list) /\ q[1] = r
      /\ \A i \in 2..Len(list) : q[i] = rest[i - 1]
  BY <1>1
<1> HIDE DEF q
<1>3. \A i \in 2..Len(list) : q[i] = list[i]
  <2> SUFFICES ASSUME NEW i \in 2..Len(list) PROVE q[i] = list[i]
    OBVIOUS
  <2>1. i - 1 \in 1..Len(rest) /\ (i - 1) + 1 = i
    BY <1>1
  <2>2. rest[i - 1] = list[(i - 1) + 1]
    BY <1>1, <2>1
  <2> QED
    BY <1>2, <2>1, <2>2
<1>4. IsSeq(q) /\ q # <<>> /\ Head(q) = r
  BY <1>1, <1>2, AnySeq
<1> QED
  BY <1>2, <1>3, <1>4 DEF Headed, q, rest

-----------------------------------------------------------------------------
\* The last command said so, or one is about to work on the log's store.
Said ==
    /\ pc' = "none" /\ todo' = <<>> /\ asked' = <<>>

Begun(work) == disk.state = "sound" /\ Starts(disk.store, work)

Repeated(work) == IsSeq(work) /\ \A i \in 1..Len(work) : RepeatedCall(work[i])

Drawn(s, work) ==
    /\ IsSeq(work) /\ Len(work) = 1
    /\ EndpointCall(s, work[1]) \/ EnqueueCall(s, work[1]) \/ work = <<CompactCall>>

LEMMA OneIsSeq ==
    ASSUME NEW r
    PROVE  IsSeq(<<r>>) /\ Len(<<r>>) = 1 /\ <<r>>[1] = r
<1>1. <<r>> \in Seq({r}) /\ Len(<<r>>) = 1 /\ <<r>>[1] = r
  OBVIOUS
<1> QED
  BY <1>1, AnySeq

LEMMA NoneIsSeq == IsSeq(<<>>) /\ Len(<<>>) = 0
  BY DEF IsSeq

LEMMA RequeueCalls ==
    ASSUME NEW ids \in Seq(Ids), NEW at \in Readings
    PROVE  Repeated(RequeueRecs(ids, at))
<1>1. RequeueRecs(ids, at) \in Seq({RequeueRec(id, at[id]) : id \in Ids})
  BY DEF RequeueRecs
<1>2. \A i \in 1..Len(RequeueRecs(ids, at)) :
          \E id \in Ids, now \in Times : RequeueRecs(ids, at)[i] = RequeueRec(id, now)
  <2> SUFFICES ASSUME NEW i \in 1..Len(ids)
               PROVE  RequeueRecs(ids, at)[i] = RequeueRec(ids[i], at[ids[i]])
                      /\ ids[i] \in Ids /\ at[ids[i]] \in Times
    BY DEF RequeueRecs
  <2> QED
    BY DEF RequeueRecs, Readings
<1> QED
  BY <1>1, <1>2, AnySeq DEF Repeated, RepeatedCall

LEMMA PostCalls ==
    ASSUME NEW s, IsStore(s), NEW now \in Times
    PROVE  Repeated([i \in 1..Len(Due(s, now)) |-> [type |-> "post", id |-> Due(s, now)[i]]])
<1> DEFINE due == Due(s, now)
           posts == [i \in 1..Len(due) |-> [type |-> "post", id |-> due[i]]]
<1>1. now \in Int
  BY CommandsAssumption
<1>2. due \in Seq(DOMAIN s.messages)
  BY <1>1, StoreHasType, DueProperties
<1>3. DOMAIN s.messages \subseteq Ids
  BY DEF IsStore, IsMap
<1> HIDE DEF due
<1>4. Len(due) \in Nat /\ \A i \in 1..Len(due) : due[i] \in Ids
  BY <1>2, <1>3
<1>5. posts \in Seq({[type |-> "post", id |-> id] : id \in Ids}) /\ Len(posts) = Len(due)
  BY <1>4
<1>6. \A i \in 1..Len(posts) : RepeatedCall(posts[i])
  BY <1>4, <1>5 DEF RepeatedCall
<1> HIDE DEF posts
<1>7. Repeated(posts)
  BY <1>5, <1>6, AnySeq DEF Repeated
<1> QED
  BY <1>7 DEF posts, due

LEMMA CommandBegins ==
    ASSUME Logs, Command
    PROVE  \/ pc' = "none" /\ todo' = <<>> /\ asked' = asked /\ code' # 0
           \/ Said
           \/ \E work : Begun(work) /\ (Drawn(disk.store, work) \/ Repeated(work))
<1>1. Replays(disk) /\ disk.state = "sound" /\ Replay(disk.recs) = disk.store /\ IsStore(disk.store)
  BY LogsAre DEF Command, Opens, Replays
<1>2. ASSUME NEW name \in Names, NEW secret \in Secrets, EndpointAdd(disk.store, name, secret)
      PROVE  \E work : Begun(work) /\ Drawn(disk.store, work)
  <2>1. EndpointCall(disk.store, EndpointAddRec(name, secret))
    BY DEF EndpointCall
  <2>2. Begun(<<EndpointAddRec(name, secret)>>)
    BY <1>1, <1>2 DEF EndpointAdd, Begun
  <2> QED
    BY <2>1, <2>2, OneIsSeq DEF Drawn
<1>3. ASSUME NEW name \in Names, NEW secret \in Secrets, EndpointRotate(disk.store, name, secret)
      PROVE  \E work : Begun(work) /\ Drawn(disk.store, work)
  <2>1. EndpointCall(disk.store, EndpointRotateRec(name, secret))
    BY <1>3 DEF EndpointCall, EndpointRotate
  <2>2. Begun(<<EndpointRotateRec(name, secret)>>)
    BY <1>1, <1>3 DEF EndpointRotate, Begun
  <2> QED
    BY <2>1, <2>2, OneIsSeq DEF Drawn
<1>4. ASSUME NEW name \in Names, EndpointRemove(disk.store, name)
      PROVE  \E work : Begun(work) /\ Drawn(disk.store, work)
  <2>1. EndpointCall(disk.store, EndpointRemoveRec(name))
    BY DEF EndpointCall
  <2>2. Begun(<<EndpointRemoveRec(name)>>)
    BY <1>1, <1>4 DEF EndpointRemove, Begun
  <2> QED
    BY <2>1, <2>2, OneIsSeq DEF Drawn
<1>5. ASSUME NEW id \in Ids, NEW name \in Names, NEW now \in Times, Enqueue(disk.store, id, name, now)
      PROVE  \E work : Begun(work) /\ Drawn(disk.store, work)
  <2>1. EnqueueCall(disk.store, EnqueueRec(id, name, now))
    BY <1>5 DEF EnqueueCall, Enqueue
  <2>2. Begun(<<EnqueueRec(id, name, now)>>)
    BY <1>1, <1>5 DEF Enqueue, Begun
  <2>3. Drawn(disk.store, <<EnqueueRec(id, name, now)>>)
    BY <2>1, OneIsSeq DEF Drawn
  <2> DEFINE call == EnqueueRec(id, name, now)
  <2> HIDE DEF call
  <2>4. Begun(<<call>>) /\ Drawn(disk.store, <<call>>)
    BY <2>2, <2>3 DEF call
  <2> WITNESS <<call>>
  <2> QED
    BY <2>4
<1>6. ASSUME NEW ids \in SeqOf(Ids, 2) \ {<<>>}, NEW at \in Readings, Requeue(disk.store, ids, at)
      PROVE  \E work : Begun(work) /\ Repeated(work)
  <2>1. ids \in Seq(Ids)
    <3>1. PICK n \in 0..2 : ids \in [1..n -> Ids]
      BY DEF SeqOf
    <3> QED
      BY <3>1
  <2>2. Begun(RequeueRecs(ids, at))
    BY <1>1, <1>6 DEF Requeue, Begun
  <2> QED
    BY <2>1, <2>2, RequeueCalls
<1>7. ASSUME NEW at \in Readings, RequeueAll(disk.store, at)
      PROVE  \E work : Begun(work) /\ Repeated(work)
  <2> DEFINE s == disk.store
             dead == {i \in 1..Len(s.msgOrder) : s.messages[s.msgOrder[i]].state = "dead"}
             ids == Sublist(s.msgOrder, dead)
  <2>1. s.msgOrder \in Seq(Ids)
    BY <1>1 DEF IsStore
  <2>2. dead \in SUBSET (1..Len(s.msgOrder))
    OBVIOUS
  <2>3. Begun(RequeueRecs(ids, at))
    BY <1>1, <1>7 DEF RequeueAll, Begun
  <2> HIDE DEF dead
  <2>4. ids \in Seq(Ids)
    BY <2>1, <2>2, SublistProperties
  <2> HIDE DEF ids
  <2> QED
    BY <2>3, <2>4, RequeueCalls
<1>8. ASSUME NEW now \in Times, Deliver(disk.store, now)
      PROVE  \E work : Begun(work) /\ Repeated(work)
  <2>1. Begun([i \in 1..Len(Due(disk.store, now)) |-> [type |-> "post", id |-> Due(disk.store, now)[i]]])
    BY <1>1, <1>8 DEF Deliver, Begun
  <2> QED
    BY <1>1, <2>1, PostCalls
<1>9. ASSUME Compact(disk.store)
      PROVE  \E work : Begun(work) /\ Drawn(disk.store, work)
  <2>1. Begun(<<CompactCall>>)
    BY <1>1, <1>9 DEF Compact, Begun
  <2> QED
    BY <2>1, OneIsSeq DEF Drawn
<1>10. CASE Show
  BY <1>10 DEF Show, Fails, Ended, Said
<1> QED
  BY <1>1, <1>2, <1>3, <1>4, <1>5, <1>6, <1>7, <1>8, <1>9, <1>10 DEF Command
-----------------------------------------------------------------------------
(***************************************************************************)
(* What the steps do to the command.                                       *)
(***************************************************************************)
Rests == Memory /\ Work /\ Progress

LEMMA NoneDone ==
    ASSUME NEW past, IsSeq(past), NEW wanted
    PROVE  InLog(past, wanted, 0)
  BY DEF InLog, IsSeq

LEMMA GoneRests ==
    ASSUME pc' = "none", todo' = <<>>, IsSeq(asked'),
           code' = 0 /\ asked' # <<CompactCall>> => InLog(told', asked', Len(asked'))
    PROVE  Rests'
<1>1. Memory'
  BY DEF Memory
<1>2. Work'
  BY NoneIsSeq DEF Work
<1>3. Progress'
  BY DEF Progress
<1> QED
  BY <1>1, <1>2, <1>3 DEF Rests

LEMMA StartedRests ==
    ASSUME NEW work, IsSeq(work), pc' = "run", todo' = work, asked' = work,
           st' = disk'.store, disk'.state = "sound", IsSeq(disk'.past),
           \/ Len(work) = 1 /\ SingleCall(work[1])'
           \/ \A i \in 1..Len(work) : RepeatedCall(work[i])
    PROVE  Rests'
<1>1. Len(work) \in Nat
  BY DEF IsSeq
<1>2. Memory'
  BY DEF Memory
<1>3. Work'
  BY DEF Work
<1>4. Done' = 0
  BY <1>1 DEF Done
<1>5. Progress'
  <2>1. \A i \in 1..Len(work) : i + Len(work) - Len(work) = i
    BY <1>1
  <2>2. \A i \in Done' + 1..Len(asked') : todo'[i + Len(todo') - Len(asked')] = asked'[i]
    BY <1>4, <2>1
  <2>3. InLog(disk'.past, asked', Done')
    BY <1>4, NoneDone
  <2>4. Done' \in 0..Len(asked') /\ ~(Done' > 0)
    BY <1>1, <1>4
  <2> QED
    BY <2>2, <2>3, <2>4 DEF Progress
<1> QED
  BY <1>2, <1>3, <1>5 DEF Rests

LEMMA CommandRests ==
    ASSUME Logs, Rests, Command
    PROVE  Rests'
<1>1. /\ IsSeq(told) /\ IsSeq(asked) /\ IsSeq(disk.past)
      /\ UNCHANGED <<disk, spared, told>>
  BY LogsAre, CommandRuns DEF Rests, Progress, Logs, MayBeLeft
<1>2. CASE pc' = "none" /\ todo' = <<>> /\ asked' = asked /\ code' # 0
  BY <1>1, <1>2, GoneRests
<1>3. CASE Said
  <2>1. IsSeq(asked') /\ Len(asked') = 0
    BY <1>3, NoneIsSeq DEF Said
  <2>2. InLog(told', asked', Len(asked'))
    BY <1>1, <2>1, NoneDone
  <2> QED
    BY <1>3, <2>1, <2>2, GoneRests DEF Said
<1>4. ASSUME NEW work, Begun(work), Drawn(disk.store, work) \/ Repeated(work)
      PROVE  Rests'
  <2>1. /\ pc' = "run" /\ todo' = work /\ asked' = work
        /\ st' = disk'.store /\ disk'.state = "sound" /\ IsSeq(disk'.past)
    BY <1>1, <1>4 DEF Begun, Starts
  <2>2. IsSeq(work)
    BY <1>4 DEF Drawn, Repeated
  <2>3. \/ Len(work) = 1 /\ SingleCall(work[1])'
        \/ \A i \in 1..Len(work) : RepeatedCall(work[i])
    <3>1. CASE Repeated(work)
      BY <3>1 DEF Repeated
    <3>2. CASE Drawn(disk.store, work)
      <4>1. Len(work) = 1 /\ st' = disk.store /\ asked' = work
        BY <1>4, <3>2 DEF Drawn, Begun, Starts
      <4>2. EndpointCall(st', work[1]) \/ EnqueueCall(st', work[1]) \/ work = <<CompactCall>>
        BY <3>2, <4>1 DEF Drawn
      <4>3. CASE work = <<CompactCall>>
        <5>1. work[1] = CompactCall /\ asked' = <<CompactCall>>
          BY <4>1, <4>3
        <5> QED
          BY <4>1, <5>1 DEF SingleCall
      <4> QED
        BY <4>1, <4>2, <4>3 DEF SingleCall
    <3> QED
      BY <1>4, <3>1, <3>2
  <2> QED
    BY <2>1, <2>2, <2>3, StartedRests
<1> QED
  BY <1>2, <1>3, <1>4, CommandBegins

LEMMA InitStartsRests ==
    ASSUME Logs, NEW schedule \in Schedules, InitStarts(schedule)
    PROVE  Rests'
<1> DEFINE call == ConfigRec(schedule)
<1>1. MayBeLeft(disk, told, disk.past) /\ Replays(disk) /\ disk.state = "absent"
  BY LogsAre DEF InitStarts, NoLog
<1>2. disk.recs = <<>> /\ disk.past = <<>> /\ disk.store = NewStore
  BY <1>1, ReplayNone DEF MayBeLeft, Replays
<1>3. disk' = Contents("sound", <<>>, <<>>, NewStore)
  BY <1>1, <1>2 DEF InitStarts, MayBeLeft, Contents
<1>4. /\ pc' = "run" /\ todo' = <<call>> /\ asked' = <<call>> /\ st' = NewStore
      /\ disk'.recs = <<>> /\ disk'.past = <<>> /\ disk'.store = NewStore /\ disk'.state = "sound"
  BY <1>3 DEF InitStarts, Contents
<1>5. ConfigCall(call)'
  BY <1>4 DEF ConfigCall
<1> HIDE DEF call
<1>6. IsSeq(<<call>>) /\ Len(<<call>>) = 1 /\ <<call>>[1] = call
  BY OneIsSeq
<1>7. SingleCall(call)'
  BY <1>5 DEF SingleCall
<1> QED
  BY <1>4, <1>6, <1>7, NoneIsSeq, StartedRests

LEMMA AnswerOfCall ==
    ASSUME NEW s, NEW call, NEW r \in Answered(s, call)
    PROVE  SameCall(r, call)
<1>1. CASE call.type = "post"
  <2>1. PICK verdict \in Verdicts, now \in Times :
            r = AttemptRec(call.id, verdict, Outcome(s, call.id, verdict), RetryAt(s, call.id, verdict, now))
    BY <1>1 DEF Answered
  <2>2. r.type = "attempt" /\ r.id = call.id
    BY <2>1 DEF AttemptRec
  <2> QED
    BY <1>1, <2>2 DEF SameCall
<1> QED
  BY <1>1 DEF Answered, SameCall

LEMMA LongerLog ==
    ASSUME NEW past, IsSeq(past), NEW wanted, NEW n \in Nat, InLog(past, wanted, n),
           NEW r, SameCall(r, wanted[n + 1]), NEW longer, Longest(past, r, longer)
    PROVE  InLog(longer, wanted, n + 1)
<1>1. Len(past) \in Nat /\ Len(longer) = Len(past) + 1 /\ n <= Len(past)
  BY DEF IsSeq, InLog, Longest
<1> SUFFICES ASSUME NEW i \in 1..n + 1
             PROVE  SameCall(longer[Len(longer) - (n + 1) + i], wanted[i])
  BY <1>1 DEF InLog
<1>2. Len(longer) - (n + 1) + i = Len(past) - n + i
  BY <1>1
<1>3. CASE i = n + 1
  BY <1>1, <1>2, <1>3 DEF Longest
<1>4. CASE i # n + 1
  <2>1. i \in 1..n /\ Len(past) - n + i \in 1..Len(past)
    BY <1>1, <1>4
  <2>2. longer[Len(past) - n + i] = past[Len(past) - n + i]
    BY <2>1 DEF Longest
  <2> QED
    BY <1>2, <2>1, <2>2 DEF InLog
<1> QED
  BY <1>3, <1>4

LEMMA WriteRests ==
    ASSUME Logs, Rests, Write
    PROVE  Rests'
<1>1. PICK r \in Answered(st, Head(todo)) :
          disk' = Longer(r) /\ todo' = <<r>> \o Tail(todo)
  BY DEF Write
<1>2. /\ pc = "run" /\ todo # <<>> /\ pc' = "sync"
      /\ st' = st /\ asked' = asked /\ told' = told
  BY DEF Write
<1>3. /\ IsSeq(todo) /\ IsSeq(asked) /\ st = disk.store
      /\ Len(todo) \in Nat \ {0} /\ Len(asked) \in Nat /\ Head(todo) = todo[1]
  BY <1>2 DEF Rests, Memory, Work, Progress, IsSeq
<1>4. Headed(todo', r, todo)
  BY <1>1, <1>2, <1>3, NewHead
<1>5. /\ disk'.state = "sound" /\ disk'.store = Apply(disk.store, r)
      /\ disk'.past = Append(disk.past, r)
  BY <1>1 DEF Longer, Contents
<1>6. Memory'
  BY <1>2, <1>3, <1>4, <1>5 DEF Memory, Headed
<1>7. Work'
  <2>1. \A i \in 2..Len(todo) : RepeatedCall(todo[i])
    BY <1>2, <1>3 DEF Rests, Work
  <2>2. \A i \in 2..Len(todo') : RepeatedCall(todo'[i])
    BY <1>4, <2>1 DEF Headed
  <2> QED
    BY <1>2, <1>4, <2>2 DEF Work, Headed
<1>8. Progress'
  <2> DEFINE done == Done
             past == disk.past
             longer == Append(past, r)
  <2>1. done = Len(asked) - Len(todo) /\ done \in 0..Len(asked)
    BY <1>2, <1>3 DEF Rests, Progress, Done
  <2>2. \A i \in done + 1..Len(asked) : todo[i + Len(todo) - Len(asked)] = asked[i]
    BY <1>2 DEF Rests, Progress
  <2>3. asked # <<CompactCall>> => InLog(past, asked, done)
    BY <1>2 DEF Rests, Progress
  <2>4. done + 1 \in 1..Len(asked)
    BY <1>3, <2>1
  <2>5. Done' = done + 1
    BY <1>2, <1>3, <1>4, <2>1 DEF Done, Headed
  <2> HIDE DEF done
  <2>6. \A i \in Done' + 1..Len(asked') : todo'[i + Len(todo') - Len(asked')] = asked'[i]
    <3> SUFFICES ASSUME NEW i \in done + 2..Len(asked)
                 PROVE  todo'[i + Len(todo) - Len(asked)] = asked[i]
      BY <1>2, <1>3, <1>4, <2>1, <2>5 DEF Headed
    <3>1. i + Len(todo) - Len(asked) \in 2..Len(todo) /\ i \in done + 1..Len(asked)
      BY <1>3, <2>1
    <3> QED
      BY <1>4, <2>2, <3>1 DEF Headed
  <2>7. SameCall(r, asked[done + 1])
    <3>1. (done + 1) + Len(todo) - Len(asked) = 1
      BY <1>3, <2>1
    <3>2. todo[1] = asked[done + 1]
      BY <2>2, <2>4, <3>1
    <3> QED
      BY <1>1, <1>3, <3>2, AnswerOfCall
  <2>8. IsSeq(past) /\ Longest(past, r, longer)
    BY LogsAre, AppendLonger DEF MayBeLeft
  <2> HIDE DEF longer, past
  <2>9. asked # <<CompactCall>> => InLog(longer, asked, done + 1)
    BY <2>1, <2>3, <2>7, <2>8, <1>3, LongerLog
  <2>10. disk'.past = longer
    BY <1>5 DEF longer, past
  <2>11. asked' # <<CompactCall>> => InLog(disk'.past, asked', Done')
    BY <1>2, <2>5, <2>9, <2>10
  <2> QED
    BY <1>2, <1>3, <2>4, <2>5, <2>6, <2>11 DEF Progress
<1> QED
  BY <1>6, <1>7, <1>8 DEF Rests

LEMMA SyncRests ==
    ASSUME Rests, Sync
    PROVE  Rests'
<1>1. /\ pc = "sync" /\ st' = Apply(st, Head(todo)) /\ todo' = Tail(todo) /\ told' = disk.past
      /\ pc' = "run" /\ disk' = disk /\ asked' = asked
  BY DEF Sync
<1>2. /\ IsSeq(todo) /\ todo # <<>> /\ IsSeq(asked)
      /\ Len(todo) \in Nat \ {0} /\ Len(asked) \in Nat
  BY <1>1 DEF Rests, Work, Progress, IsSeq
<1>3. Rest(todo', todo)
  BY <1>1, <1>2, TailIsRest
<1>4. Memory'
  BY <1>1 DEF Rests, Memory
<1>5. Work'
  <2>1. \A i \in 2..Len(todo) : RepeatedCall(todo[i])
    BY <1>1 DEF Rests, Work
  <2>2. \A i \in 1..Len(todo') : i + 1 \in 2..Len(todo) /\ todo'[i] = todo[i + 1]
    BY <1>2, <1>3 DEF Rest
  <2> QED
    BY <1>1, <1>3, <2>1, <2>2 DEF Work, Rest
<1>6. Progress'
  <2> DEFINE done == Done
  <2>1. done = Len(asked) - Len(todo) + 1 /\ done \in 0..Len(asked)
    BY <1>1, <1>2 DEF Rests, Progress, Done
  <2>2. \A i \in done + 1..Len(asked) : todo[i + Len(todo) - Len(asked)] = asked[i]
    BY <1>1 DEF Rests, Progress
  <2>3. asked # <<CompactCall>> => InLog(disk.past, asked, done)
    BY <1>1 DEF Rests, Progress
  <2>4. Done' = done
    BY <1>1, <1>2, <1>3, <2>1 DEF Done, Rest
  <2> HIDE DEF done
  <2>5. \A i \in Done' + 1..Len(asked') : todo'[i + Len(todo') - Len(asked')] = asked'[i]
    <3> SUFFICES ASSUME NEW i \in done + 1..Len(asked)
                 PROVE  todo'[i + (Len(todo) - 1) - Len(asked)] = asked[i]
      BY <1>1, <1>3, <2>4 DEF Rest
    <3>1. /\ i + (Len(todo) - 1) - Len(asked) \in 1..Len(todo')
          /\ (i + (Len(todo) - 1) - Len(asked)) + 1 = i + Len(todo) - Len(asked)
      BY <1>2, <1>3, <2>1 DEF Rest
    <3> QED
      BY <1>3, <2>2, <3>1 DEF Rest
  <2> QED
    BY <1>1, <1>2, <2>1, <2>3, <2>4, <2>5 DEF Progress
<1> QED
  BY <1>4, <1>5, <1>6 DEF Rests

LEMMA RewriteRests ==
    ASSUME Logs, Rests, Rewrite
    PROVE  Rests'
<1>1. /\ pc = "run" /\ todo # <<>> /\ Head(todo).type = "compact"
      /\ disk' = [disk EXCEPT !.recs = <<SnapshotRec(st)>>]
      /\ todo' = Tail(todo) /\ UNCHANGED <<pc, st, asked, told>>
  BY DEF Rewrite
<1>2. IsSeq(todo) /\ IsSeq(asked) /\ st = disk.store /\ disk.state = "sound"
  BY <1>1 DEF Rests, Memory, Work, Progress
<1>3. Len(todo) \in Nat \ {0} /\ Head(todo) = todo[1] /\ 1 \in 1..Len(todo)
  BY <1>1, <1>2 DEF IsSeq
<1>4. ~RepeatedCall(todo[1])
  <2> DEFINE call == todo[1]
  <2>1. call.type = "compact"
    BY <1>1, <1>3
  <2> HIDE DEF call
  <2>2. ~RepeatedCall(call)
    BY <2>1 DEF RepeatedCall, RequeueRec
  <2> QED
    BY <2>2 DEF call
<1>5. Len(todo) = 1 /\ SingleCall(todo[1])
  BY <1>1, <1>3, <1>4 DEF Rests, Work
<1>6. asked = <<CompactCall>>
  BY <1>1, <1>3, <1>5 DEF SingleCall, ConfigCall, EndpointCall, EnqueueCall, ConfigRec,
                          EndpointAddRec, EndpointRotateRec, EndpointRemoveRec, EnqueueRec
<1>7. Len(asked) = 1
  BY <1>6
<1>8. IsSeq(todo') /\ Len(todo') = 0
  BY <1>1, <1>2, <1>5, TailIsRest DEF Rest
<1>9. disk'.state = "sound" /\ disk'.store = disk.store
  BY <1>1, <1>2, LogsAre DEF MayBeLeft, Contents
<1>10. Memory'
  <2>1. pc' = "run" /\ st' = st
    BY <1>1
  <2> QED
    BY <1>2, <1>9, <2>1 DEF Memory
<1>11. Work'
  <2>1. pc' = "run"
    BY <1>1
  <2>2. \A i \in 1..Len(todo') : RepeatedCall(todo'[i])
    BY <1>8
  <2> QED
    BY <1>8, <2>1, <2>2 DEF Work
<1>12. Progress'
  <2>1. Done' = 1
    BY <1>1, <1>7, <1>8 DEF Done
  <2> QED
    BY <1>1, <1>2, <1>6, <1>7, <2>1 DEF Progress
<1> QED
  BY <1>10, <1>11, <1>12 DEF Rests

LEMMA FinishRests ==
    ASSUME Logs, Rests, Finish
    PROVE  Rests'
<1>1. /\ pc = "run" /\ todo = <<>> /\ pc' = "none" /\ todo' = <<>> /\ code' = 0
      /\ UNCHANGED <<disk, asked, told>>
  BY DEF Finish, Fails, Ended
<1>2. IsSeq(asked) /\ IsSeq(told) /\ Len(asked) \in Nat
  BY DEF Rests, Progress, Logs, IsSeq
<1>3. Done = Len(asked)
  BY <1>1, <1>2, NoneIsSeq DEF Done
<1>4. ASSUME asked # <<CompactCall>>
      PROVE  InLog(told, asked, Len(asked))
  <2>1. CASE Len(asked) = 0
    BY <1>2, <2>1, NoneDone
  <2>2. CASE Len(asked) # 0
    BY <1>1, <1>2, <1>3, <1>4, <2>2 DEF Rests, Progress
  <2> QED
    BY <2>1, <2>2
<1> QED
  BY <1>1, <1>2, <1>4, GoneRests

LEMMA RestsStep ==
    ASSUME Logs, Rests, [Next]_vars
    PROVE  Rests'
<1>1. IsSeq(asked)
  BY DEF Rests, Progress
<1>2. CASE UsageError \/ NotOpened \/ InitRefused \/ Refuse \/ WriteCutShort \/ SyncFails \/ Kill \/ PowerLoss
  <2>1. pc' = "none" /\ todo' = <<>> /\ asked' = asked /\ code' # 0
    BY <1>2 DEF UsageError, NotOpened, InitRefused, Refuse, Refused, WriteCutShort, SyncFails,
                SyncFailed, Kill, PowerLoss, Fails, Ended
  <2> QED
    BY <1>1, <2>1, GoneRests
<1>3. CASE \E schedule \in Schedules : InitStarts(schedule)
  BY <1>3, InitStartsRests
<1>4. CASE Command
  BY <1>4, CommandRests
<1>5. CASE Write
  BY <1>5, WriteRests
<1>6. CASE Sync
  BY <1>6, SyncRests
<1>7. CASE Rewrite
  BY <1>7, RewriteRests
<1>8. CASE Finish
  BY <1>8, FinishRests
<1>9. CASE UNCHANGED vars
  BY <1>9 DEF vars, Rests, Memory, Work, Progress, Done, SingleCall, ConfigCall
<1> QED
  BY <1>2, <1>3, <1>4, <1>5, <1>6, <1>7, <1>8, <1>9 DEF Next

-----------------------------------------------------------------------------
(***************************************************************************)
(* The inductive invariant, and the properties of Commands it carries.     *)
(***************************************************************************)
IInv == Logs /\ Rests

LEMMA InvInit ==
    ASSUME Init
    PROVE  IInv
<1>1. Logs
  BY LogsInit
<1>2. /\ pc = "none" /\ st = NewStore /\ todo = <<>> /\ asked = <<>>
      /\ IsSeq(told) /\ IsSeq(asked) /\ Len(asked) = 0
  BY <1>1, NoneIsSeq DEF Init, Logs
<1>3. InLog(told, asked, Len(asked))
  BY <1>2, NoneDone
<1>4. Memory
  BY <1>2 DEF Memory
<1>5. Work
  BY <1>2, NoneIsSeq DEF Work
<1>6. Progress
  BY <1>2, <1>3 DEF Progress
<1> QED
  BY <1>1, <1>4, <1>5, <1>6 DEF IInv, Rests

LEMMA InvStep ==
    ASSUME IInv, [Next]_vars
    PROVE  IInv'
  BY LogsStep, RestsStep DEF IInv, Rests

LEMMA Invariance == Spec => []IInv
<1>1. Init => IInv
  BY InvInit
<1>2. IInv /\ [Next]_vars => IInv'
  BY InvStep
<1> QED
  BY <1>1, <1>2, PTL DEF Spec

(***************************************************************************)
(* What a command has printed as done survives every crash and power loss, *)
(* whatever the store was told and however many compactions came between.  *)
(***************************************************************************)
THEOREM ToldKept == Spec => []ToldIsKept
<1>1. IInv => ToldIsKept
  BY DEF IInv, Logs, MayBeLeft, ToldIsKept
<1> QED
  BY <1>1, Invariance, PTL

(***************************************************************************)
(* Whatever a crash leaves of the log replays, without an error, to what   *)
(* the records ever written amount to; a running command's memory is that. *)
(***************************************************************************)
THEOREM ReplayFaithful == Spec => []ReplayReproduces
<1>1. IInv => ReplayReproduces
  BY DEF IInv, Logs, Replays, Rests, Memory, ReplayReproduces
<1> QED
  BY <1>1, Invariance, PTL

(***************************************************************************)
(* init configures an empty log or none: no schedule changes under way.    *)
(***************************************************************************)
THEOREM ConfiguredOnce == Spec => []ConfiguredFirst
<1>1. IInv => ConfiguredFirst
  BY DEF IInv, Logs, MayBeLeft, ConfiguredFirst
<1> QED
  BY <1>1, Invariance, PTL

(***************************************************************************)
(* Exit code 0 says that each of the command's calls has its record, in    *)
(* order and on the disk.                                                  *)
(***************************************************************************)
THEOREM ZeroMeansDone == Spec => []ExitZeroMeansDone
<1>1. IInv => ExitZeroMeansDone
  <2> SUFFICES ASSUME IInv, pc = "none", code = 0
               PROVE  \A wanted : wanted = (IF asked = <<CompactCall>> THEN <<>> ELSE asked) =>
                          /\ Len(told) - Len(wanted) >= 0
                          /\ \A i \in 1..Len(wanted) :
                                SameCall(told[Len(told) - Len(wanted) + i], wanted[i])
    BY DEF ExitZeroMeansDone
  <2>1. IsSeq(told) /\ IsSeq(asked) /\ Len(told) \in Nat /\ Len(asked) \in Nat
    BY DEF IInv, Logs, Rests, Progress, IsSeq
  <2>2. CASE asked = <<CompactCall>>
    BY <2>1, <2>2
  <2>3. CASE asked # <<CompactCall>>
    <3>1. InLog(told, asked, Len(asked))
      BY <2>3 DEF IInv, Rests, Progress
    <3>2. Len(told) - Len(asked) >= 0
      BY <2>1, <3>1 DEF InLog
    <3>3. \A i \in 1..Len(asked) : SameCall(told[Len(told) - Len(asked) + i], asked[i])
      BY <3>1 DEF InLog
    <3> QED
      BY <2>3, <3>2, <3>3
  <2> QED
    BY <2>2, <2>3
<1> QED
  BY <1>1, Invariance, PTL

-----------------------------------------------------------------------------
(***************************************************************************)
(* Store's operators, as Commands instantiates it, are those of Commands:  *)
(* both extend StoreState.                                                 *)
(***************************************************************************)
LEMMA SameWithout ==
    ASSUME NEW list, NEW v
    PROVE  Methods!Without(list, v) = Without(list, v)
<1>1. \A S : Methods!Cardinality(S) = Cardinality(S)
  BY DEF Methods!Cardinality, Cardinality
<1>2. \A S, before : Methods!Arranged(S, before) = Arranged(S, before)
  BY <1>1 DEF Methods!Arranged, Arranged
<1>3. \A indices, before : Methods!Listing(list, indices, before) = Listing(list, indices, before)
  BY <1>1, <1>2 DEF Methods!Listing, Listing
<1> QED
  BY <1>3 DEF Methods!Without, Without, Methods!Sublist, Sublist

LEMMA SameApply ==
    ASSUME NEW s, NEW r
    PROVE  Methods!Apply(s, r) = Apply(s, r)
<1>1. \A text : Methods!ParseSchedule(text) = ParseSchedule(text)
  BY DEF Methods!ParseSchedule, ParseSchedule, Methods!ParseDuration, ParseDuration,
         Methods!SecondsIn, SecondsIn
<1>2. Methods!ApplyConfig(s, r) = ApplyConfig(s, r)
  BY <1>1 DEF Methods!ApplyConfig, ApplyConfig
<1>3. Methods!ApplyEndpointAdd(s, r) = ApplyEndpointAdd(s, r)
  BY DEF Methods!ApplyEndpointAdd, ApplyEndpointAdd, Methods!Put, Put
<1>4. Methods!ApplyEndpointRemove(s, r) = ApplyEndpointRemove(s, r)
  BY SameWithout
     DEF Methods!ApplyEndpointRemove, ApplyEndpointRemove, Methods!DeadLettered, DeadLettered,
         Methods!Orphaned, Orphaned, Methods!ToSet, ToSet, Methods!NoTime, NoTime
<1>5. Methods!ApplyEndpointRotate(s, r) = ApplyEndpointRotate(s, r)
  BY DEF Methods!ApplyEndpointRotate, ApplyEndpointRotate, Methods!MaxSecrets, MaxSecrets
<1>6. Methods!ApplyEnqueue(s, r) = ApplyEnqueue(s, r)
  BY DEF Methods!ApplyEnqueue, ApplyEnqueue, Methods!Put, Put, Methods!NewMessage, NewMessage
<1>7. Methods!ApplyAttempt(s, r) = ApplyAttempt(s, r)
  BY DEF Methods!ApplyAttempt, ApplyAttempt, Methods!Attempted, Attempted,
         Methods!DeliveredNow, DeliveredNow, Methods!RetriedAt, RetriedAt,
         Methods!Exhausted, Exhausted, Methods!NoTime, NoTime
<1>8. Methods!ApplyRequeue(s, r) = ApplyRequeue(s, r)
  BY DEF Methods!ApplyRequeue, ApplyRequeue, Methods!Requeued, Requeued
<1>9. Methods!ApplySnapshot(s, r) = ApplySnapshot(s, r)
  BY <1>1 DEF Methods!ApplySnapshot, ApplySnapshot, Methods!LastOf, LastOf, Methods!ToSet, ToSet
<1> QED
  BY <1>2, <1>3, <1>4, <1>5, <1>6, <1>7, <1>8, <1>9 DEF Methods!Apply, Apply

LEMMA SameSnapshot ==
    ASSUME NEW s
    PROVE  Methods!SnapshotRec(s) = SnapshotRec(s)
  BY DEF Methods!SnapshotRec, SnapshotRec, Methods!ScheduleText, ScheduleText,
         Methods!EndpointList, EndpointList, Methods!MessageList, MessageList,
         Methods!FmtDuration, FmtDuration, Methods!UnitsPrinted, UnitsPrinted,
         Methods!UnitsTrimmed, UnitsTrimmed, Methods!Number, Number

LEMMA SameAttempt ==
    ASSUME NEW s, NEW id, NEW verdict, NEW end
    PROVE  Methods!AttemptRec(id, verdict, Methods!Outcome(s, id, verdict),
                              Methods!RetryAt(s, id, verdict, end))
           = AttemptRec(id, verdict, Outcome(s, id, verdict), RetryAt(s, id, verdict, end))
<1>1. Methods!Outcome(s, id, verdict) = Outcome(s, id, verdict)
  BY DEF Methods!Outcome, Outcome, Methods!HasRetry, HasRetry
<1>2. Methods!RetryAt(s, id, verdict, end) = RetryAt(s, id, verdict, end)
  BY <1>1 DEF Methods!RetryAt, RetryAt, Methods!NextDue, NextDue, Methods!HasRetry, HasRetry,
              Methods!NoTime, NoTime
<1> QED
  BY <1>1, <1>2 DEF Methods!AttemptRec, AttemptRec

-----------------------------------------------------------------------------
IsBound(f, n, b) == \A i \in 1..n : f[i] <= b

LEMMA Bounded ==
    ASSUME NEW n \in Nat, NEW f, \A i \in 1..n : f[i] \in Nat
    PROVE  \E b \in Nat : IsBound(f, n, b)
<1> DEFINE Unbounded == {k \in 0..n : ~\E b \in Nat : IsBound(f, k, b)}
<1> SUFFICES ASSUME Unbounded # {} PROVE FALSE
  OBVIOUS
<1>1. Unbounded \subseteq Nat
  OBVIOUS
<1>2. PICK k \in Unbounded : \A j \in Unbounded : k <= j
  BY <1>1, LeastElement
<1>3. k \in 0..n /\ ~\E b \in Nat : IsBound(f, k, b)
  BY <1>2
<1>4. k # 0
  BY <1>3 DEF IsBound
<1>5. k - 1 \in 0..n /\ ~(k <= k - 1) /\ k \in 1..n
  BY <1>3, <1>4
<1>6. k - 1 \notin Unbounded
  BY <1>2, <1>5
<1>7. PICK b \in Nat : IsBound(f, k - 1, b)
  BY <1>5, <1>6
<1>8. f[k] \in Nat
  BY <1>5
<1>9. b + f[k] \in Nat /\ b <= b + f[k] /\ f[k] <= b + f[k]
  BY <1>8
<1>10. IsBound(f, k, b + f[k])
  <2> SUFFICES ASSUME NEW i \in 1..k PROVE f[i] <= b + f[k]
    BY DEF IsBound
  <2>1. CASE i = k
    BY <1>9, <2>1
  <2>2. CASE i # k
    <3>1. i \in 1..k - 1 /\ i \in 1..n
      BY <1>5, <2>2
    <3>2. f[i] <= b /\ f[i] \in Nat
      BY <1>7, <3>1 DEF IsBound
    <3> QED
      BY <1>8, <1>9, <3>2
  <2> QED
    BY <2>1, <2>2
<1> QED
  BY <1>3, <1>9, <1>10

LEMMA MaxProperties ==
    ASSUME NEW S \in SUBSET Nat, IsFiniteSet(S), S # {}
    PROVE  Max(S) \in S /\ \A x \in S : Max(S) >= x
<1>1. PICK list \in Seq(S) : \A x \in S : \E i \in 1..Len(list) : list[i] = x
  BY DEF IsFiniteSet
<1>2. PICK b \in Nat : IsBound(list, Len(list), b)
  <2>1. Len(list) \in Nat
    OBVIOUS
  <2>2. \A i \in 1..Len(list) : list[i] \in S
    OBVIOUS
  <2>3. \A i \in 1..Len(list) : list[i] \in Nat
    BY <2>2
  <2> QED
    BY <2>1, <2>3, Bounded
<1> DEFINE Below == {c \in Nat : \A x \in S : x <= c}
<1>3. b \in Below
  BY <1>1, <1>2 DEF IsBound
<1>4. PICK c \in Below : \A d \in Below : c <= d
  BY <1>3, LeastElement
<1>5. c \in S
  <2> SUFFICES ASSUME c \notin S PROVE FALSE
    OBVIOUS
  <2>1. PICK x \in S : TRUE
    OBVIOUS
  <2>2. c # 0
    BY <1>4, <2>1
  <2>3. c - 1 \in Below
    BY <1>4, <2>2
  <2> QED
    BY <1>4, <2>3
<1>6. \A x \in S : c >= x
  BY <1>4
<1> QED
  BY <1>5, <1>6 DEF Max

-----------------------------------------------------------------------------
(***************************************************************************)
(* Each step is a method's, a power loss's, init's, or leaves the records. *)
(***************************************************************************)
MaxLog == Max({Len(past) : past \in Pasts}) + MaxNew + 1

LEMMA RoomInLog ==
    ASSUME Logs, NEW r, WithinBounds(r)
    PROVE  Len(disk.recs) < MaxLog
<1> DEFINE lengths == {Len(past) : past \in Pasts}
<1>1. PICK past \in Pasts : Len(disk.past) < Len(past) + MaxNew
  BY DEF WithinBounds
<1>2. lengths \in SUBSET Nat /\ IsFiniteSet(lengths)
  <2> DEFINE Lengths == [p \in Pasts |-> Len(p)]
  <2>1. \A p \in Pasts : Len(p) \in Nat
    <3> SUFFICES ASSUME NEW p \in Pasts PROVE Len(p) \in Nat
      OBVIOUS
    <3>1. IsSeq(p)
      BY PastsAssumption DEF IsSeq
    <3> QED
      BY <3>1 DEF IsSeq
  <2>2. IsFiniteSet(Pasts)
    BY PastsAssumption
  <2>3. Lengths \in Surjection(Pasts, lengths)
    BY DEF Surjection
  <2>4. IsFiniteSet(lengths)
    BY <2>2, <2>3, FS_Surjection
  <2> QED
    BY <2>1, <2>4
<1>3. Len(past) \in lengths
  OBVIOUS
<1> HIDE DEF lengths
<1>4. Max(lengths) \in Nat /\ Max(lengths) >= Len(past)
  BY <1>2, <1>3, MaxProperties
<1>5. Len(disk.recs) \in Nat /\ Len(disk.past) \in Nat /\ Len(disk.recs) <= Len(disk.past) + 1
  BY LogsAre DEF MayBeLeft, IsSeq
<1>6. Len(past) \in Nat /\ MaxNew \in Nat
  BY <1>2, <1>3, CommandsAssumption
<1>7. Len(disk.recs) < Max(lengths) + MaxNew + 1
  BY <1>1, <1>4, <1>5, <1>6
<1> QED
  BY <1>7 DEF MaxLog, lengths

LEMMA WriteIsMethod ==
    ASSUME Logs, Memory, Work, Write
    PROVE  Configured \/ Methods!Next
<1>1. PICK r \in Answered(st, Head(todo)) : WithinBounds(r) /\ disk' = Longer(r)
  BY DEF Write
<1>2. Writes(r) /\ st = disk.store
  BY <1>1, CallWrites DEF Write, Memory
<1>3. disk'.recs = Append(disk.recs, r) /\ disk'.store = Apply(disk.store, r)
  BY <1>1 DEF Longer, Contents
<1>4. Len(disk.recs) < MaxLog
  BY <1>1, RoomInLog
<1>5. Methods!Commit(r)
  BY <1>3, <1>4, SameApply DEF Methods!Commit, MaxLog
<1>6. CASE ConfigCall(r)
  <2>1. disk.recs = <<>> /\ \E schedule \in Schedules : r = ConfigRec(schedule)
    BY <1>6 DEF ConfigCall
  <2>2. disk'.recs = <<r>>
    BY <1>3, <2>1
  <2> QED
    BY <2>1, <2>2 DEF Configured
<1>7. ASSUME NEW name \in Names, NEW secret \in Secrets,
             r = EndpointAddRec(name, secret), ~Has(st.endpoints, name)
      PROVE  Methods!Next
  <2>1. Methods!AddEndpoint(name, secret)
    BY <1>2, <1>5, <1>7
       DEF Methods!AddEndpoint, Methods!Has, Has, Methods!EndpointAddRec, EndpointAddRec
  <2> QED
    BY <2>1 DEF Methods!Next
<1>8. ASSUME NEW name \in Names, r = EndpointRemoveRec(name), Has(st.endpoints, name)
      PROVE  Methods!Next
  <2>1. Methods!RemoveEndpoint(name)
    BY <1>2, <1>5, <1>8
       DEF Methods!RemoveEndpoint, Methods!Has, Has, Methods!EndpointRemoveRec, EndpointRemoveRec
  <2> QED
    BY <2>1 DEF Methods!Next
<1>9. ASSUME NEW name \in Names, NEW secret \in Secrets, r = EndpointRotateRec(name, secret),
             Has(st.endpoints, name), secret \notin ToSet(st.endpoints[name])
      PROVE  Methods!Next
  <2>1. Methods!RotateSecret(name, secret)
    BY <1>2, <1>5, <1>9
       DEF Methods!RotateSecret, Methods!Has, Has, Methods!ToSet, ToSet,
           Methods!EndpointRotateRec, EndpointRotateRec
  <2> QED
    BY <2>1 DEF Methods!Next
<1>10. ASSUME NEW id \in Ids, NEW name \in Names, NEW now \in Times,
              r = EnqueueRec(id, name, now), Has(st.endpoints, name), ~Has(st.messages, id)
       PROVE  Methods!Next
  <2>1. Methods!Enqueue(id, name, now)
    BY <1>2, <1>5, <1>10
       DEF Methods!Enqueue, Methods!Has, Has, Methods!EnqueueRec, EnqueueRec
  <2> QED
    BY <2>1 DEF Methods!Next
<1>11. ASSUME NEW id \in Ids, NEW verdict \in Verdicts, NEW now \in Times,
              r = AttemptRec(id, verdict, Outcome(st, id, verdict), RetryAt(st, id, verdict, now)),
              Has(st.messages, id), st.messages[id].state = "pending"
       PROVE  Methods!Next
  <2>1. r.type = "attempt" /\ r.id = id
    BY <1>11 DEF AttemptRec
  <2>2. Len(st.messages[id].attempts) < MaxHistory
    BY <1>1, <2>1 DEF WithinBounds
  <2>3. Methods!MarkAttempt(id, verdict, now)
    BY <1>2, <1>5, <1>11, <2>2, SameAttempt DEF Methods!MarkAttempt, Methods!Has, Has
  <2>4. verdict \in Methods!Verdicts
    BY DEF Methods!Verdicts, Verdicts
  <2> QED
    BY <2>3, <2>4 DEF Methods!Next
<1>12. ASSUME NEW id \in Ids, NEW now \in Times, r = RequeueRec(id, now), CanRequeue(st, id)
       PROVE  Methods!Next
  <2>1. Methods!Requeue(id, now)
    BY <1>2, <1>5, <1>12
       DEF Methods!Requeue, Methods!CanRequeue, CanRequeue, Methods!Has, Has,
           Methods!RequeueRec, RequeueRec
  <2> QED
    BY <2>1 DEF Methods!Next
<1> QED
  BY <1>2, <1>6, <1>7, <1>8, <1>9, <1>10, <1>11, <1>12 DEF Writes

LEMMA StepIsMethod ==
    ASSUME IInv, [Next]_vars
    PROVE  [Lost \/ Configured \/ Methods!Next]_<<disk.recs>>
<1>1. Logs /\ Memory /\ Work
  BY DEF IInv, Rests
<1>2. MayBeLeft(disk, told, disk.past) /\ \A c \in spared : MayBeLeft(c, told, disk.past)
  BY <1>1, LogsAre
<1>3. CASE UsageError \/ NotOpened \/ InitRefused \/ Refuse \/ Sync \/ SyncFails \/ Finish \/ Kill
  BY <1>3 DEF UsageError, NotOpened, InitRefused, Refuse, Refused, Sync, SyncFails, SyncFailed,
              Finish, Kill, Fails, Ended
<1>4. CASE \E schedule \in Schedules : InitStarts(schedule)
  <2>1. disk' = [disk EXCEPT !.state = "sound"]
    BY <1>4 DEF InitStarts
  <2>2. disk'.recs = disk.recs
    BY <1>2, <2>1 DEF MayBeLeft, Contents
  <2> QED
    BY <2>2
<1>5. CASE Command
  BY <1>5, CommandRuns
<1>6. CASE Write
  BY <1>1, <1>6, WriteIsMethod
<1>7. CASE WriteCutShort
  BY <1>1, <1>7, CutShortIsLeft DEF WriteCutShort
<1>8. CASE Rewrite
  <2>1. st = disk.store /\ disk' = [disk EXCEPT !.recs = <<SnapshotRec(st)>>]
    BY <1>1, <1>8 DEF Rewrite, Memory
  <2>2. disk'.recs = <<SnapshotRec(disk.store)>> /\ disk'.store = disk.store
    BY <1>2, <2>1 DEF MayBeLeft, Contents
  <2>3. Methods!Compact
    BY <2>2, SameSnapshot DEF Methods!Compact
  <2> QED
    BY <2>3 DEF Methods!Next
<1>9. CASE PowerLoss
  <2>1. disk' \in spared /\ pc' = "none"
    BY <1>9 DEF PowerLoss, Ended
  <2>2. IsPrefix(told, disk'.past) /\ IsPrefix(disk'.past, disk.past)
    BY <1>2, <2>1 DEF MayBeLeft
  <2> QED
    BY <2>1, <2>2 DEF Lost
<1>10. CASE UNCHANGED vars
  BY <1>10 DEF vars
<1> QED
  BY <1>3, <1>4, <1>5, <1>6, <1>7, <1>8, <1>9, <1>10 DEF Next

(***************************************************************************)
(* Commands refines Store: cut short anywhere, it changes the log only as  *)
(* the methods do, and a power loss takes away what was not reported.      *)
(***************************************************************************)
THEOREM CommandsImplementStore == Spec => ImplementsStore
<1>1. IInv /\ [Next]_vars => [Lost \/ Configured \/ Methods!Next]_<<disk.recs>>
  BY StepIsMethod
<1> QED
  BY <1>1, Invariance, PTL DEF Spec, ImplementsStore
=============================================================================
