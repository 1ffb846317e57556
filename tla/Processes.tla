------------------------------ MODULE Processes ------------------------------
(***************************************************************************)
(* Several hookmill commands on one data directory.  Nothing locks it: a   *)
(* command opens the log by its path, goes on with the memory and the      *)
(* sequence number that gave it, and appends through a handle that stays   *)
(* with the file even when another command has put a new one in its place. *)
(*                                                                         *)
(* Files are told apart by number: `log` is the one named wal.log and      *)
(* `compacting` the one named wal.log.compact, 0 when there is none.  Kills*)
(* come between any two system calls; the machine keeps its power, so what *)
(* an fsync adds is out of sight (Wal has the power losses).               *)
(***************************************************************************)
EXTENDS LogLines

CONSTANTS
    Appenders,          \* commands that append records
    Compacters,         \* `hookmill compact`
    Readers,            \* commands that only show what they opened
    MaxRewrites,        \* bound: compactions begun
    Uses                \* how the commands may be used: see Use

Writers == Appenders \cup Compacters

Procs == Writers \cup Readers

ASSUME RolesAssumption == Appenders \cap (Compacters \cup Readers) = {}

\* One way to use the directory: whether the user runs one command that writes at
\* a time, whether a read may see part of a write under way, and the bounds on
\* operations, compactions begun and appends cut short.
Use == [turns : BOOLEAN, torn : BOOLEAN, ops : Ops, rewrites : 0..MaxRewrites, cuts : Nat]

ASSUME UsesAssumption == Uses \subseteq Use /\ MaxRewrites \in Nat /\ MaxOps \in Nat

Files == 1..MaxRewrites + 1

VARIABLES
    files,       \* the lines of each file
    log,         \* the file named wal.log
    compacting,  \* the file named wal.log.compact
    pc,          \* per process: the system call it is at
    handle,      \* per process: the file it has open
    good,        \* per process: the valid lines Open found
    nextSeq,     \* per process: Log.nextSeq
    mem,         \* per process: the operations replayed or applied
    op,          \* per process: the operation it is appending
    issued,      \* operations attempted so far
    acked,       \* operations reported as done
    base,        \* per operation: what its writer had in memory
    rewrites, cuts,
    use          \* the one of Uses that is played

nameVars == <<log, compacting>>
procVars == <<handle, good, nextSeq, mem, op>>
userVars == <<issued, acked, base>>
bounds == <<rewrites, cuts, use>>
vars == <<files, nameVars, pc, procVars, userVars, bounds>>

At(p, step) == pc[p] = step

Goto(p, step) == pc' = [pc EXCEPT ![p] = step]

-----------------------------------------------------------------------------
\* An initialised log that holds one operation, reported when it was written.
Init ==
    /\ files = [f \in Files |-> IF f = 1 THEN <<Line(1, {1})>> ELSE <<>>]
    /\ log = 1 /\ compacting = 0
    /\ pc = [p \in Procs |-> "down"]
    /\ handle = [p \in Procs |-> 0]
    /\ good = [p \in Procs |-> <<>>]
    /\ nextSeq = [p \in Procs |-> 0]
    /\ mem = [p \in Procs |-> {}]
    /\ op = [p \in Procs |-> 0]
    /\ issued = 1 /\ acked = {1} /\ base = [o \in Ops |-> {}]
    /\ rewrites = 0 /\ cuts = 0
    /\ use \in Uses

Writing(p, f) == pc[p] \in {"writing", "writingsnapshot"} /\ handle[p] = f

\* A process inside a write holds its file: other writes and truncations wait.
Held(f) == \E p \in Procs : Writing(p, f)

\* A compaction that the bound leaves no room for is not started.
MayStart(p) ==
    /\ use.turns /\ p \in Writers => \A q \in Writers : pc[q] = "down"
    /\ p \in Compacters => rewrites < use.rewrites

Record(p) == Line(nextSeq[p], {op[p]})

\* A command that has ended, by itself, by a failed system call or by a kill.
Ended(p) ==
    /\ pc' = [pc EXCEPT ![p] = "down"]
    /\ handle' = [handle EXCEPT ![p] = 0]
    /\ good' = [good EXCEPT ![p] = <<>>]
    /\ nextSeq' = [nextSeq EXCEPT ![p] = 0]
    /\ mem' = [mem EXCEPT ![p] = {}]
    /\ op' = [op EXCEPT ![p] = 0]

Exit(p) ==
    /\ pc[p] \notin {"down", "writing", "writingsnapshot"}
    /\ Ended(p)
    /\ UNCHANGED <<files, nameVars, userVars, bounds>>

(***************************************************************************)
(* Open.  The file is read and checked; what follows goes by the path, and *)
(* by then the path may name other bytes or another file.  Reopen is the   *)
(* Open at the end of a compaction, which keeps the memory.                *)
(***************************************************************************)
Seen(f) ==
    {files[f]} \cup
        IF use.torn
        THEN UNION {{Extend(files[f], Damaged), Extend(files[f], Unterminated(Record(p)))} :
                       p \in {q \in Appenders : Writing(q, f)}}
        ELSE {}

Read(p, step) ==
    \E lines \in Seen(log) :
        /\ At(p, step)
        /\ ~Corrupt(lines)
        /\ good' = [good EXCEPT ![p] = SubSeq(lines, 1, GoodLen(lines))]
        /\ nextSeq' = [nextSeq EXCEPT ![p] = GoodLen(lines) + 1]
        /\ mem' = IF step = "reopen" THEN mem ELSE [mem EXCEPT ![p] = Replayed(lines)]
        /\ Goto(p, IF Torn(lines) THEN "truncate" ELSE "openfile")
        /\ UNCHANGED <<files, nameVars, handle, op, userVars, bounds>>

Open(p) == MayStart(p) /\ Read(p, "down")

Reopen(p) == Read(p, "reopen")

\* The bytes a read found are still there; a newline may have come after them.
Begins(lines, prefix) ==
    /\ Len(prefix) <= Len(lines)
    /\ \A i \in 1..Len(prefix) :
          \/ lines[i] = prefix[i]
          \/ i = Len(prefix) /\ Parsed(lines[i]) /\ prefix[i] = Unterminated(lines[i])

\* Where they are not, the offset falls anywhere, beyond the end (which pads
\* the file) included.
Truncated(lines, prefix) ==
    IF Begins(lines, prefix) THEN {prefix}
    ELSE UNION {LET kept == SubSeq(lines, 1, k)
                IN  {kept, Extend(kept, Damaged)} \cup
                        IF k > 0 /\ Parsed(lines[k])
                        THEN {[kept EXCEPT ![k] = Unterminated(lines[k])]} ELSE {} :
                    k \in 0..Len(lines)}

Truncate(p) ==
    /\ At(p, "truncate")
    /\ ~Held(log)
    /\ \E lines \in Truncated(files[log], good[p]) : files' = [files EXCEPT ![log] = lines]
    /\ Goto(p, IF Torn(good[p]) THEN "terminate" ELSE "openfile")
    /\ UNCHANGED <<nameVars, procVars, userVars, bounds>>

\* A newline ends the last line, or is a line of its own that does not parse.
Terminated(lines) ==
    IF EndsInNewline(lines) THEN Append(lines, Garbled)
    ELSE [lines EXCEPT ![Len(lines)] =
             IF Parsed(lines[Len(lines)]) THEN [lines[Len(lines)] EXCEPT !.frame = "whole"]
             ELSE Garbled]

Terminate(p) ==
    /\ At(p, "terminate")
    /\ ~Held(log)
    /\ files' = [files EXCEPT ![log] = Terminated(files[log])]
    /\ Goto(p, "openfile")
    /\ UNCHANGED <<nameVars, procVars, userVars, bounds>>

OpenFile(p) ==
    /\ At(p, "openfile")
    /\ handle' = [handle EXCEPT ![p] = log]
    /\ Goto(p, "ready")
    /\ UNCHANGED <<files, nameVars, good, nextSeq, mem, op, userVars, bounds>>

-----------------------------------------------------------------------------
(***************************************************************************)
(* Append.  The write goes to the end of the file the handle has; a read   *)
(* may come while it is under way.                                         *)
(***************************************************************************)
Write(p) ==
    /\ At(p, "ready") /\ p \in Appenders
    /\ issued < use.ops
    /\ ~Held(handle[p])
    /\ issued' = issued + 1
    /\ op' = [op EXCEPT ![p] = issued']
    /\ base' = [base EXCEPT ![issued'] = mem[p]]
    /\ Goto(p, "writing")
    /\ UNCHANGED <<files, nameVars, handle, good, nextSeq, mem, acked, bounds>>

Put(p, line) == files' = [files EXCEPT ![handle[p]] = Extend(files[handle[p]], line)]

\* A mistake: without O_APPEND the record goes where the valid lines ended.
WrittenAtOffset(p) ==
    IF nextSeq[p] \in DOMAIN files[handle[p]]
    THEN files' = [files EXCEPT ![handle[p]][nextSeq[p]] = Record(p)]
    ELSE Put(p, Record(p))

Written(p) == Put(p, Record(p))

WriteDone(p) ==
    /\ At(p, "writing")
    /\ Written(p)
    /\ Goto(p, "sync")
    /\ UNCHANGED <<nameVars, procVars, userVars, bounds>>

\* The write ends early, and the command with it.
WriteCutShort(p) ==
    /\ At(p, "writing")
    /\ cuts < use.cuts
    /\ cuts' = cuts + 1
    /\ Put(p, Damaged) \/ Put(p, Unterminated(Record(p)))
    /\ Ended(p)
    /\ UNCHANGED <<nameVars, userVars, rewrites, use>>

\* A mistake: the record is not applied to memory.
SyncUnapplied(p) ==
    /\ At(p, "sync")
    /\ nextSeq' = [nextSeq EXCEPT ![p] = nextSeq[p] + 1]
    /\ Goto(p, "report")
    /\ UNCHANGED <<files, nameVars, handle, good, mem, op, userVars, bounds>>

Sync(p) ==
    /\ At(p, "sync")
    /\ nextSeq' = [nextSeq EXCEPT ![p] = nextSeq[p] + 1]
    /\ mem' = [mem EXCEPT ![p] = mem[p] \cup {op[p]}]
    /\ Goto(p, "report")
    /\ UNCHANGED <<files, nameVars, handle, good, op, userVars, bounds>>

Report(p) ==
    /\ At(p, "report")
    /\ acked' = acked \cup {op[p]}
    /\ Goto(p, "ready")
    /\ UNCHANGED <<files, nameVars, procVars, issued, base, bounds>>

(***************************************************************************)
(* Compact: close the log, write the snapshot to wal.log.compact, rename.  *)
(* Every compaction uses that one name: a second one truncates and writes  *)
(* the file of the first.                                                  *)
(***************************************************************************)
Snapshot(p) == Line(1, mem[p])

\* A mistake: the snapshot is written over the log itself.
LogTruncated(p) ==
    /\ handle' = [handle EXCEPT ![p] = log]
    /\ compacting' = log
    /\ files' = [files EXCEPT ![log] = <<>>]

FileTruncated(p) ==
    /\ compacting' = IF compacting = 0 THEN rewrites + 2 ELSE compacting
    /\ handle' = [handle EXCEPT ![p] = compacting']
    /\ files' = [files EXCEPT ![compacting'] = <<>>]

OpenCompacting(p) ==
    /\ At(p, "ready") /\ p \in Compacters
    /\ rewrites < use.rewrites
    /\ compacting # 0 => ~Held(compacting)
    /\ FileTruncated(p)
    /\ rewrites' = rewrites + 1
    /\ Goto(p, "snapshot")
    /\ UNCHANGED <<log, good, nextSeq, mem, op, userVars, cuts, use>>

WriteSnapshot(p) ==
    /\ At(p, "snapshot")
    /\ ~Held(handle[p])
    /\ Goto(p, "writingsnapshot")
    /\ UNCHANGED <<files, nameVars, procVars, userVars, bounds>>

\* The write is at the handle's own offset, the start of the file: of what
\* another compaction put there, or appends if it is the log by now, some may
\* stay behind it.
Overwritten(lines, line) ==
    IF lines = <<>> THEN {<<line>>}
    ELSE UNION {LET behind == SubSeq(lines, k, Len(lines))
                IN  {<<line>> \o behind, <<line, Garbled>> \o behind} :
                    k \in 2..Len(lines) + 1}

SnapshotDone(p) ==
    /\ At(p, "writingsnapshot")
    /\ \E lines \in Overwritten(files[handle[p]], Snapshot(p)) :
          files' = [files EXCEPT ![handle[p]] = lines]
    /\ Goto(p, "rename")
    /\ UNCHANGED <<nameVars, procVars, userVars, bounds>>

SnapshotCutShort(p) ==
    /\ At(p, "writingsnapshot")
    /\ \E lines \in IF files[handle[p]] = <<>>
                    THEN {<<Damaged>>, <<Unterminated(Snapshot(p))>>}
                    ELSE {<<Garbled>> \o Tail(files[handle[p]])} :
          files' = [files EXCEPT ![handle[p]] = lines]
    /\ Ended(p)
    /\ UNCHANGED <<nameVars, userVars, bounds>>

\* A mistake: the file gets the log's name and keeps its own.
NamedTwice == log' = compacting /\ UNCHANGED compacting

Renamed == log' = compacting /\ compacting' = 0

Rename(p) ==
    /\ At(p, "rename")
    /\ compacting # 0
    /\ Renamed
    /\ Goto(p, "reopen")
    /\ UNCHANGED <<files, procVars, userVars, bounds>>

Next ==
    \E p \in Procs :
        \/ Open(p) \/ Truncate(p) \/ Terminate(p) \/ OpenFile(p)
        \/ Write(p) \/ WriteDone(p) \/ WriteCutShort(p) \/ Sync(p) \/ Report(p)
        \/ OpenCompacting(p) \/ WriteSnapshot(p) \/ SnapshotDone(p) \/ SnapshotCutShort(p)
        \/ Rename(p) \/ Reopen(p) \/ Exit(p)

Spec == Init /\ [][Next]_vars

-----------------------------------------------------------------------------
(***************************************************************************)
(* The state has its type; wal.log names a file, and never the one that a  *)
(* compaction is preparing.                                                *)
(***************************************************************************)
Steps ==
    {"down", "truncate", "terminate", "openfile", "ready", "writing", "sync", "report",
     "snapshot", "writingsnapshot", "rename", "reopen"}

TypeOK ==
    /\ \A f \in Files : files[f] \in Seq(LogLine)
    /\ log \in Files /\ compacting \in (Files \ {log}) \cup {0}
    /\ pc \in [Procs -> Steps]
    /\ handle \in [Procs -> Files \cup {0}]
    /\ \A p \in Procs : good[p] \in Seq(LogLine)
    /\ nextSeq \in [Procs -> Nat]
    /\ mem \in [Procs -> SUBSET Ops] /\ op \in [Procs -> Ops \cup {0}]
    /\ issued \in Ops /\ acked \in SUBSET Ops /\ base \in [Ops -> SUBSET Ops]
    /\ use \in Uses /\ rewrites \in 0..use.rewrites /\ cuts \in 0..use.cuts

Lines == files[log]

\* No tail has been there to repair.
Undamaged == cuts = 0 /\ ~use.torn

(***************************************************************************)
(* What the log replays to is one history, until a compaction starts its   *)
(* numbers anew: each operation in it was made by a command that had seen  *)
(* exactly the operations before it.  Two commands that overlap take the   *)
(* same sequence number, and that is what keeps the later, stale one from  *)
(* being replayed; commands that take turns are safe from that whatever is *)
(* cut short, read halfway, and repaired by whom.                          *)
(***************************************************************************)
NothingStale ==
    rewrites = 0 /\ (use.turns \/ Undamaged) =>
        \A i \in 2..GoodLen(Lines) :
            \A o \in Lines[i].ops : base[o] = UNION {Lines[j].ops : j \in 1..i - 1}

(***************************************************************************)
(* However the commands overlap, an operation that was reported as done is *)
(* in what the next command replays, or that command refuses the log: only *)
(* a compaction, or the repair of a tail, makes it disappear in silence.   *)
(***************************************************************************)
NothingLostSilently ==
    rewrites = 0 /\ Undamaged => Corrupt(Lines) \/ acked \subseteq Replayed(Lines)

Intact == ~Corrupt(Lines) /\ acked \subseteq Replayed(Lines)

(***************************************************************************)
(* When commands that write take turns, those that only read come at any   *)
(* moment without harm, during a compaction too, as long as they read whole*)
(* lines: every command can open the log and replays every operation that  *)
(* was reported as done.                                                   *)
(***************************************************************************)
ReadersAreHarmless == use.turns /\ Undamaged => Intact

(***************************************************************************)
(* To commands that take turns the directory is one durable log, from      *)
(* which nothing is lost, whoever reads it: an operation enters it on top  *)
(* of exactly the operations that are there, and a compaction, or one that *)
(* was cut short, leaves it what it was.                                   *)
(***************************************************************************)
Durable == INSTANCE DurableLog WITH written <- Replayed(Lines)

DurableStep == \E o \in Ops : Durable!Write(o) \/ Durable!Miss(o) \/ Durable!Ack(o)

TurnsKeepTheLog == [][use.turns /\ Undamaged' => [DurableStep]_(Durable!vars)]_vars

(***************************************************************************)
(* store.go: state is "reproducible by reopening the data directory", by   *)
(* two commands that overlap as by any others.                             *)
(***************************************************************************)
AlwaysReproducible == Intact
=============================================================================
