--------------------------------- MODULE Wal ---------------------------------
(***************************************************************************)
(* internal/wal: the log file, one process that opens, appends to, rewrites*)
(* and closes it, and the crashes between any two of its system calls.     *)
(*                                                                         *)
(* The file system: `file` is what a read returns now, `disk` the contents *)
(* a power loss may leave in the file, `prior` those it may leave under    *)
(* the file's name while the name itself (its creation, or the rename that *)
(* replaced it) is not durable.  Bytes of one file reach the disk in the   *)
(* order they were written, and an fsync that succeeds makes all of them   *)
(* durable.                                                                *)
(***************************************************************************)
EXTENDS LogLines, FiniteSets

CONSTANTS
    MaxRewrites,      \* bound: compactions
    FsyncCoversName   \* does fsync of a file also make its own name durable

ASSUME BoundsAssumption == MaxOps \in Nat /\ MaxRewrites \in Nat

ASSUME FsyncCoversNameAssumption == FsyncCoversName \in BOOLEAN

VARIABLES
    file,       \* the lines of wal.log
    disk,       \* the contents a power loss may leave in it
    prior,      \* the contents a power loss may leave under its name instead
    tmp,        \* the lines of wal.log.compact
    tmpSynced,  \* whether they are durable
    pc,         \* the system call the process is at; "down" when none runs
    nextSeq,    \* Log.nextSeq
    mem,        \* the operations the process has replayed or applied
    issued,     \* how many operations were attempted
    acked,      \* the operations reported as done
    base,       \* per operation: what its writer had in memory
    rewrites    \* compactions so far

fileVars == <<file, disk, prior>>
tmpVars == <<tmp, tmpSynced, rewrites>>
procVars == <<nextSeq, mem>>
userVars == <<issued, acked, base>>
vars == <<fileVars, tmpVars, procVars, userVars, pc>>

\* The contents the disk may hold when the write has come to the given stage.
Partial(lines, line, stage) == {Stages(lines, line)[k] : k \in 1..stage}

-----------------------------------------------------------------------------
Init ==
    /\ file = <<>> /\ disk = {<<>>} /\ prior = {<<>>}
    /\ tmp = <<>> /\ tmpSynced = FALSE
    /\ pc = "down"
    /\ nextSeq = 1 /\ mem = {}
    /\ issued = 0 /\ acked = {} /\ base = [op \in Ops |-> {}]
    /\ rewrites = 0

\* fsync of the log.
Synced(lines) ==
    /\ disk' = {lines}
    /\ prior' = IF FsyncCoversName THEN {} ELSE prior

(***************************************************************************)
(* Open.  A command starts by reading and checking the whole file; a torn  *)
(* tail is truncated, and re-terminated if its record was valid.  Reopen   *)
(* is the Open at the end of a compaction, which keeps the memory.         *)
(***************************************************************************)
Opened(lines) == nextSeq' = GoodLen(lines) + 1

Open ==
    /\ pc = "down"
    /\ ~Corrupt(file)
    /\ pc' = IF Torn(file) THEN "truncate" ELSE "ready"
    /\ Opened(file)
    /\ mem' = Replayed(file)
    /\ UNCHANGED <<fileVars, tmpVars, userVars>>

\* A mistake: a valid record without its newline is cut off as well.
TruncateWholeTail ==
    /\ pc = "truncate"
    /\ file' = SubSeq(file, 1, Len(file) - 1)
    /\ disk' = disk \cup {file'}
    /\ pc' = IF Torn(file') THEN "terminate" ELSE "ready"
    /\ UNCHANGED <<prior, tmpVars, procVars, userVars>>

Truncate ==
    /\ pc = "truncate"
    /\ file' = SubSeq(file, 1, GoodLen(file))
    /\ disk' = disk \cup {file'}
    /\ pc' = IF Torn(file') THEN "terminate" ELSE "ready"
    /\ UNCHANGED <<prior, tmpVars, procVars, userVars>>

Terminate ==
    /\ pc = "terminate"
    /\ file' = [file EXCEPT ![Len(file)].frame = "whole"]
    /\ disk' = disk \cup {file'}
    /\ pc' = "terminatesync"
    /\ UNCHANGED <<prior, tmpVars, procVars, userVars>>

TerminateSync ==
    /\ pc = "terminatesync"
    /\ Synced(file)
    /\ pc' = "ready"
    /\ UNCHANGED <<file, tmpVars, procVars, userVars>>

(***************************************************************************)
(* Append: write, fsync, then nextSeq and the caller's apply; the command  *)
(* reports success last.                                                   *)
(***************************************************************************)
NewOp ==
    /\ pc = "ready"
    /\ issued < MaxOps
    /\ issued' = issued + 1
    /\ base' = [base EXCEPT ![issued'] = mem]
    /\ UNCHANGED <<prior, tmpVars, procVars, acked>>

Write ==
    /\ NewOp
    /\ file' = Extend(file, Line(nextSeq, {issued'}))
    /\ disk' = disk \cup Partial(file, Line(nextSeq, {issued'}), 4)
    /\ pc' = "sync"

\* The write fails, or the process is killed in it: the command is over.
WriteCutShort ==
    /\ NewOp
    /\ \E stage \in 1..3 :
          /\ file' = Stages(file, Line(nextSeq, {issued'}))[stage]
          /\ disk' = disk \cup Partial(file, Line(nextSeq, {issued'}), stage)
    /\ pc' = "down"

\* A mistake: the record is taken as written without the fsync.
SyncSkipped ==
    /\ pc = "sync"
    /\ nextSeq' = nextSeq + 1
    /\ mem' = mem \cup {issued}
    /\ pc' = "report"
    /\ UNCHANGED <<fileVars, tmpVars, userVars>>

\* A mistake: the next record gets the same sequence number.
SyncSameSeq ==
    /\ pc = "sync"
    /\ Synced(file)
    /\ mem' = mem \cup {issued}
    /\ pc' = "report"
    /\ UNCHANGED <<file, tmpVars, nextSeq, userVars>>

Sync ==
    /\ pc = "sync"
    /\ Synced(file)
    /\ nextSeq' = nextSeq + 1
    /\ mem' = mem \cup {issued}
    /\ pc' = "report"
    /\ UNCHANGED <<file, tmpVars, userVars>>

Report ==
    /\ pc = "report"
    /\ acked' = acked \cup {issued}
    /\ pc' = "ready"
    /\ UNCHANGED <<fileVars, tmpVars, procVars, issued, base>>

(***************************************************************************)
(* Rewrite: the snapshot goes to a file of its own, is made durable, and   *)
(* takes the log's name; then the directory is synced, whatever comes of   *)
(* that, and the log is opened again.                                      *)
(***************************************************************************)
WriteSnapshot ==
    /\ pc = "ready"
    /\ rewrites < MaxRewrites
    /\ rewrites' = rewrites + 1
    /\ tmp' = <<Line(1, mem)>>
    /\ tmpSynced' = FALSE
    /\ pc' = "syncsnapshot"
    /\ UNCHANGED <<fileVars, procVars, userVars>>

\* A mistake: the snapshot is renamed before it is durable.
SyncSnapshotSkipped ==
    /\ pc = "syncsnapshot"
    /\ pc' = "rename"
    /\ UNCHANGED <<fileVars, tmpVars, procVars, userVars>>

SyncSnapshot ==
    /\ pc = "syncsnapshot"
    /\ tmpSynced' = TRUE
    /\ pc' = "rename"
    /\ UNCHANGED <<fileVars, tmp, rewrites, procVars, userVars>>

Rename ==
    /\ pc = "rename"
    /\ file' = tmp
    /\ disk' = IF tmpSynced THEN {tmp} ELSE Partial(<<>>, tmp[1], 4)
    /\ prior' = prior \cup disk
    /\ tmp' = <<>>
    /\ pc' = "syncdir"
    /\ UNCHANGED <<tmpSynced, rewrites, procVars, userVars>>

\* Best effort: the error of a refused directory fsync is dropped.
SyncDir ==
    /\ pc = "syncdir"
    /\ prior' \in {prior, {}}
    /\ pc' = "reopen"
    /\ UNCHANGED <<file, disk, tmpVars, procVars, userVars>>

Reopen ==
    /\ pc = "reopen"
    /\ ~Corrupt(file)
    /\ pc' = "ready"
    /\ Opened(file)
    /\ UNCHANGED <<fileVars, tmpVars, mem, userVars>>

(***************************************************************************)
(* A command ends, fails at a system call or is killed before the next; or *)
(* the machine loses power.                                                *)
(***************************************************************************)
Exit ==
    /\ pc # "down"
    /\ pc' = "down"
    /\ UNCHANGED <<fileVars, tmpVars, procVars, userVars>>

PowerLoss ==
    /\ file' \in disk \cup prior
    /\ disk' = {file'}
    /\ prior' = {}
    /\ tmp' = <<>>
    /\ pc' = "down"
    /\ UNCHANGED <<tmpSynced, rewrites, procVars, userVars>>

Next ==
    \/ Open \/ Truncate \/ Terminate \/ TerminateSync
    \/ Write \/ WriteCutShort \/ Sync \/ Report
    \/ WriteSnapshot \/ SyncSnapshot \/ Rename \/ SyncDir \/ Reopen
    \/ Exit \/ PowerLoss

Spec == Init /\ [][Next]_vars

-----------------------------------------------------------------------------
(***************************************************************************)
(* The state has its type; nextSeq is a sequence number a record can have. *)
(***************************************************************************)
Steps ==
    {"down", "truncate", "terminate", "terminatesync", "ready", "sync", "report",
     "syncsnapshot", "rename", "syncdir", "reopen"}

TypeOK ==
    /\ file \in Seq(LogLine) /\ tmp \in Seq(LogLine)
    /\ \A lines \in disk \cup prior : lines \in Seq(LogLine)
    /\ tmpSynced \in BOOLEAN
    /\ pc \in Steps
    /\ nextSeq \in Nat \ {0}
    /\ mem \in SUBSET Ops /\ acked \in SUBSET Ops
    /\ issued \in 0..MaxOps /\ rewrites \in 0..MaxRewrites
    /\ base \in [Ops -> SUBSET Ops]

\* What the next Open may find: the file as it is, or as a power loss leaves it.
Recoverable == {file} \cup disk \cup prior

(***************************************************************************)
(* Whatever stops the process or the machine, and wherever, the next Open  *)
(* replays every operation that was reported as done.                      *)
(***************************************************************************)
AckedSurvive == \A lines \in Recoverable : acked \subseteq Replayed(lines)

(***************************************************************************)
(* No crash makes Open refuse a log that holds an acknowledged operation:  *)
(* what it takes for corruption is never what a torn write, a repair cut   *)
(* short or a compaction cut short leaves.                                 *)
(***************************************************************************)
NeverRefused ==
    acked # {} => \A lines \in Recoverable : ~Corrupt(lines)

(***************************************************************************)
(* A process about to append holds what the file says: its memory is what  *)
(* a replay would give, its next record continues the sequence, and the    *)
(* last line is terminated.                                                *)
(***************************************************************************)
AppendContinues ==
    pc = "ready" =>
        /\ ~Torn(file)
        /\ nextSeq = Len(file) + 1
        /\ GoodLen(file) = Len(file)
        /\ mem = Replayed(file)

(***************************************************************************)
(* The log keeps DurableLog's promise: an operation enters it once and on  *)
(* top of what its writer had seen, and a crash takes away nothing that is *)
(* acknowledged or that something left was written after.                  *)
(***************************************************************************)
Durable == INSTANCE DurableLog WITH written <- Replayed(file)

ImplementsDurableLog == Durable!Spec
=============================================================================
