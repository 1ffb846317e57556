------------------------------ MODULE Commands ------------------------------
(***************************************************************************)
(* internal/cli over internal/store: one process per command, each opening *)
(* the log, changing the store record by record and ending with an exit    *)
(* code; kills and power losses between any two steps.  One command runs   *)
(* at a time (Processes has several).                                      *)
(*                                                                         *)
(* The log is what Wal shows it to be: a record is in the file when it is  *)
(* written and on the disk when it is synced, and a power loss leaves one  *)
(* of the contents in `spared`.  A record cut short is repaired away by the*)
(* next Open, unless it is the only one: that damage Open refuses.         *)
(*                                                                         *)
(* Contents carry their past beside their records: every record ever       *)
(* written that led to them, also those a compaction has folded away, and  *)
(* the store those amount to.                                              *)
(***************************************************************************)
EXTENDS StoreState

CONSTANTS
    Schedules,   \* the schedules init may be given
    Times,       \* clock readings
    Pasts,       \* logs the directory may hold at first; <<>> for none
    MaxNew,      \* bound: records beyond the past at first
    MaxHistory   \* bound: attempts of one message

ASSUME CommandsAssumption ==
    /\ Schedules \subseteq Schedule /\ Times \subseteq Nat \ {NoTime}
    /\ MaxNew \in Nat /\ MaxHistory \in Nat

\* The directory has been used by commands before, and only by them.
ASSUME PastsAssumption ==
    /\ IsFiniteSet(Pasts)
    /\ \A past \in Pasts :
          /\ past \in Seq(ToSet(past)) /\ \A i \in 2..Len(past) : past[i].type # "config"
          /\ Replayable(past) /\ IsStore(Replay(past))

VARIABLES
    disk,     \* the log: its state, its records and its past
    spared,   \* the contents a power loss may leave
    pc,       \* "none" when no command runs, else its next step
    st,       \* the running command's store
    todo,     \* what it has still to do, as records
    asked,    \* what it had to do
    told,     \* the past when a command last reported something done
    code      \* the exit code of the last command, -1 when it was killed

vars == <<disk, spared, pc, st, todo, asked, told, code>>

Contents(state, recs, past, store) ==
    [state |-> state, recs |-> recs, past |-> past, store |-> store]

Absent == Contents("absent", <<>>, <<>>, NewStore)

\* No log yet, or one whose commands have all ended well.
Init ==
    /\ \E past \in Pasts :
          disk = IF past = <<>> THEN Absent ELSE Contents("sound", past, past, Replay(past))
    /\ spared = {disk}
    /\ pc = "none" /\ st = NewStore /\ todo = <<>> /\ asked = <<>>
    /\ told = disk.past /\ code = 0

-----------------------------------------------------------------------------
\* The process is gone, and its memory with it.
Ended(exit) ==
    /\ pc' = "none" /\ st' = NewStore /\ todo' = <<>> /\ code' = exit

Fails(exit) ==
    Ended(exit) /\ UNCHANGED <<disk, spared, asked, told>>

(***************************************************************************)
(* Starting a command.  What its arguments alone can refuse is a usage     *)
(* error; then it opens the store.                                         *)
(***************************************************************************)
UsageError == pc = "none" /\ Fails(2)

Opens == disk.state = "sound" /\ Replayable(disk.recs)

\* openStore has refused: no directory, or a log that is damaged.
NotOpened == pc = "none" /\ ~Opens /\ Fails(3)

\* The command has opened the store, as s, and sets out to do `work`.
Starts(s, work) ==
    /\ pc' = "run" /\ st' = s
    /\ todo' = work /\ asked' = work
    /\ UNCHANGED <<disk, spared, told, code>>

EndpointAdd(s, name, secret) == Starts(s, <<EndpointAddRec(name, secret)>>)

EndpointRemove(s, name) == Starts(s, <<EndpointRemoveRec(name)>>)

\* Secrets and ids are drawn at random, so no one holds the new one.
EndpointRotate(s, name, secret) ==
    /\ Has(s.endpoints, name) => secret \notin ToSet(s.endpoints[name])
    /\ Starts(s, <<EndpointRotateRec(name, secret)>>)

Enqueue(s, id, endpoint, now) ==
    /\ ~Has(s.messages, id)
    /\ Starts(s, <<EnqueueRec(id, endpoint, now)>>)

\* Every call of Requeue reads the clock: at[id] is what it shows at the call for id.
Readings == [Ids -> Times]

RequeueRecs(ids, at) == [i \in 1..Len(ids) |-> RequeueRec(ids[i], at[ids[i]])]

Requeue(s, ids, at) == Starts(s, RequeueRecs(ids, at))

RequeueAll(s, at) ==
    LET dead == {i \in 1..Len(s.msgOrder) : s.messages[s.msgOrder[i]].state = "dead"}
    IN  Starts(s, RequeueRecs(Sublist(s.msgOrder, dead), at))

\* One round; the attempts are filled in as the answers come.
Deliver(s, now) ==
    LET due == Due(s, now)
    IN  Starts(s, [i \in 1..Len(due) |-> [type |-> "post", id |-> due[i]]])

CompactCall == [type |-> "compact"]

Compact(s) == Starts(s, <<CompactCall>>)

\* status, inspect, dead and endpoint list read and print; an unknown id is a
\* runtime error, and status finds an unknown --format a usage error only now.
Show ==
    \/ \E exit \in {2, 3} : Fails(exit)
    \/ Ended(0) /\ asked' = <<>> /\ UNCHANGED <<disk, spared, told>>

Command ==
    LET s == Replay(disk.recs)
    IN  /\ pc = "none" /\ Opens
        /\ \/ \E name \in Names, secret \in Secrets :
                 EndpointAdd(s, name, secret) \/ EndpointRotate(s, name, secret)
           \/ \E name \in Names : EndpointRemove(s, name)
           \/ \E id \in Ids, name \in Names, now \in Times : Enqueue(s, id, name, now)
           \/ \E ids \in SeqOf(Ids, 2) \ {<<>>}, at \in Readings : Requeue(s, ids, at)
           \/ \E at \in Readings : RequeueAll(s, at)
           \/ \E now \in Times : Deliver(s, now)
           \/ Compact(s)
           \/ Show

(***************************************************************************)
(* init refuses when the file exists, whatever is in it; else it creates   *)
(* an empty log and then appends the configuration.                        *)
(***************************************************************************)
InitRefused == pc = "none" /\ disk.state # "absent" /\ Fails(3)

\* A mistake: init takes up any log that has no configuration.
Unconfigured ==
    /\ disk.state # "damaged"
    /\ \A i \in 1..Len(disk.past) : disk.past[i].type # "config"

NoLog == disk.state = "absent"

InitStarts(schedule) ==
    /\ pc = "none" /\ NoLog
    /\ disk' = [disk EXCEPT !.state = "sound"]
    /\ spared' = spared \cup {disk'}
    /\ pc' = "run" /\ st' = NewStore
    /\ todo' = <<ConfigRec(schedule)>> /\ asked' = todo'
    /\ UNCHANGED <<told, code>>

-----------------------------------------------------------------------------
(***************************************************************************)
(* A store method: its conditions, then commit.                            *)
(***************************************************************************)
Allowed(s, r) ==
    CASE r.type = "endpoint_add" -> ~Has(s.endpoints, r.name)
      [] r.type \in {"endpoint_remove", "endpoint_rotate"} -> Has(s.endpoints, r.name)
      [] r.type = "enqueue" -> Has(s.endpoints, r.endpoint)
      [] r.type = "requeue" -> CanRequeue(s, r.id)
      [] r.type = "post" -> Has(s.messages, r.id) /\ s.messages[r.id].state = "pending"
      [] OTHER -> TRUE

\* What is appended: an attempt is recorded with the outcome of its answer.
Answered(s, r) ==
    IF r.type = "post"
    THEN {AttemptRec(r.id, verdict, Outcome(s, r.id, verdict), RetryAt(s, r.id, verdict, now)) :
              verdict \in Verdicts, now \in Times}
    ELSE {r}

\* A mistake: a refused call is passed over and the command goes on.
RefusedPassedOver ==
    /\ todo' = Tail(todo)
    /\ UNCHANGED <<disk, spared, pc, st, asked, told, code>>

Refused == Fails(3)

Refuse ==
    /\ pc = "run" /\ todo # <<>>
    /\ ~Allowed(st, Head(todo))
    /\ Refused

\* With a record the write leaves none, part or all of it in the file.
Longer(r) ==
    Contents("sound", Append(disk.recs, r), Append(disk.past, r), Apply(disk.store, r))

CutShort == IF disk.recs = <<>> THEN [disk EXCEPT !.state = "damaged"] ELSE disk

WithinBounds(r) ==
    /\ \E past \in Pasts : IsPrefix(past, disk.past) /\ Len(disk.past) < Len(past) + MaxNew
    /\ r.type = "attempt" => Len(st.messages[r.id].attempts) < MaxHistory

Write ==
    /\ pc = "run" /\ todo # <<>> /\ Head(todo).type # "compact"
    /\ Allowed(st, Head(todo))
    /\ \E r \in Answered(st, Head(todo)) :
          /\ WithinBounds(r)
          /\ disk' = Longer(r)
          /\ todo' = <<r>> \o Tail(todo)
    /\ spared' = spared \cup {CutShort, disk'}
    /\ pc' = "sync"
    /\ UNCHANGED <<st, asked, told, code>>

\* The write returns an error, or the process is killed in it.
WriteCutShort ==
    /\ pc = "run" /\ todo # <<>> /\ Head(todo).type # "compact"
    /\ Allowed(st, Head(todo))
    /\ disk' = CutShort
    /\ spared' = spared \cup {disk'}
    /\ \E exit \in {3, -1} : Ended(exit)
    /\ UNCHANGED <<asked, told>>

\* A mistake: the record is applied and reported without the fsync.
Unsynced == spared' = spared

Synced == spared' = {disk}

\* requeue prints each message as it is done, the others at their end: what is
\* printed is what was synced.
Sync ==
    /\ pc = "sync"
    /\ Synced
    /\ st' = Apply(st, Head(todo))
    /\ todo' = Tail(todo)
    /\ told' = disk.past
    /\ pc' = "run"
    /\ UNCHANGED <<disk, asked, code>>

\* A mistake: after an fsync that failed the command goes on with the next call.
SyncFailedGoesOn == pc' = "run" /\ todo' = Tail(todo) /\ UNCHANGED <<st, code>>

SyncFailed == Ended(3)

SyncFails ==
    /\ pc = "sync"
    /\ SyncFailed
    /\ UNCHANGED <<disk, spared, asked, told>>

\* Rewrite: one snapshot takes the log's place; the old contents may come back
\* with the old name, and hold the same.
Rewrite ==
    /\ pc = "run" /\ todo # <<>> /\ Head(todo).type = "compact"
    /\ disk' = [disk EXCEPT !.recs = <<SnapshotRec(st)>>]
    /\ spared' \in {spared \cup {disk'}, {disk'}}
    /\ todo' = Tail(todo)
    /\ UNCHANGED <<pc, st, asked, told, code>>

Finish == pc = "run" /\ todo = <<>> /\ Fails(0)

\* The process is killed, or a system call fails that was to change nothing yet.
Kill == pc # "none" /\ \E exit \in {3, -1} : Fails(exit)

PowerLoss ==
    /\ disk' \in spared
    /\ spared' = {disk'}
    /\ Ended(-1)
    /\ UNCHANGED <<asked, told>>

Next ==
    \/ UsageError \/ NotOpened \/ InitRefused
    \/ \E schedule \in Schedules : InitStarts(schedule)
    \/ Command
    \/ Refuse \/ Write \/ WriteCutShort \/ Sync \/ SyncFails \/ Rewrite \/ Finish
    \/ Kill \/ PowerLoss

Spec == Init /\ [][Next]_vars

-----------------------------------------------------------------------------
Recoverable == {disk} \cup spared

(***************************************************************************)
(* What a command has printed as done is in every content a crash or a     *)
(* power loss may leave.                                                   *)
(***************************************************************************)
ToldIsKept == \A contents \in Recoverable : IsPrefix(told, contents.past)

(***************************************************************************)
(* Reopening reproduces the store: the records in whatever a crash leaves, *)
(* of whatever mixture of mutations and compactions, all apply, and to     *)
(* just what its past amounts to; and what the running command holds in    *)
(* memory is what its log replays to, up to the record it is writing.  An  *)
(* init killed in its first write can leave a damaged first record, which  *)
(* Open refuses before it replays anything.                                *)
(***************************************************************************)
ReplayReproduces ==
    /\ \A contents \in Recoverable :
          Replayable(contents.recs) /\ Replay(contents.recs) = contents.store
    /\ pc = "run" => st = disk.store
    /\ pc = "sync" => Apply(st, Head(todo)) = disk.store

(***************************************************************************)
(* A log is configured before anything else is in it, or never: init does  *)
(* not touch a log that other commands have worked on, so no message's     *)
(* schedule changes under way.                                             *)
(***************************************************************************)
ConfiguredFirst ==
    \A contents \in Recoverable :
        \A i \in 2..Len(contents.past) : contents.past[i].type # "config"

(***************************************************************************)
(* Exit code 0 says that all the command was asked for is done and on the  *)
(* disk, for commands of several calls too.                                *)
(***************************************************************************)
SameCall(r, wanted) ==
    \/ r = wanted
    \/ wanted.type = "post" /\ r.type = "attempt" /\ r.id = wanted.id

ExitZeroMeansDone ==
    LET wanted == IF asked = <<CompactCall>> THEN <<>> ELSE asked
        n == Len(told) - Len(wanted)
    IN  pc = "none" /\ code = 0 =>
            /\ n >= 0
            /\ \A i \in 1..Len(wanted) : SameCall(told[n + i], wanted[i])

(***************************************************************************)
(* Commands, step by step and cut short anywhere, change the log only as   *)
(* the methods of Store do, each allowed by what a replay of the log gives *)
(* at that moment; beside that a power loss takes away what no command has *)
(* reported.                                                               *)
(***************************************************************************)
Methods ==
    INSTANCE Store WITH st <- disk.store, log <- disk.recs, MaxLog <- Max({Len(past) : past \in Pasts}) + MaxNew + 1

Configured == disk.recs = <<>> /\ \E schedule \in Schedules : disk'.recs = <<ConfigRec(schedule)>>

Lost ==
    /\ pc' = "none"
    /\ IsPrefix(told, disk'.past) /\ IsPrefix(disk'.past, disk.past)

ImplementsStore == [][Lost \/ Configured \/ Methods!Next]_<<disk.recs>>

=============================================================================
