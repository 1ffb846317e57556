------------------------------ MODULE WalProofs ------------------------------
(***************************************************************************)
(* Theorems about Wal, for any number of operations and compactions.       *)
(*                                                                         *)
(* The invariant speaks of every content a crash may leave, not only of    *)
(* the file: each is Sound, which is what Open accepts or repairs, and     *)
(* each is Safe, which is what the users of the log rely on.               *)
(***************************************************************************)
EXTENDS Wal, TLAPS

\* Every line is a record in its place; only the last may be torn.
Sound(lines) ==
    \A i \in 1..Len(lines) :
        \/ lines[i].frame = "whole" /\ lines[i].seq = i
        \/ i = Len(lines) /\ lines[i].frame = "unterminated" /\ lines[i].seq = i
        \/ i = Len(lines) /\ lines[i].frame = "damaged"

Whole(lines) ==
    \A i \in 1..Len(lines) : lines[i].frame = "whole" /\ lines[i].seq = i

Kept(lines) ==
    IF lines # <<>> /\ lines[Len(lines)].frame = "damaged" THEN Len(lines) - 1
    ELSE Len(lines)

\* Nothing acknowledged is missing, nothing is there that the file has not,
\* and every operation is there with all it was written after.
Safe(lines) ==
    /\ Sound(lines)
    /\ acked \subseteq Replayed(lines)
    /\ Replayed(lines) \subseteq Replayed(file)
    /\ \A op \in Replayed(lines) : base[op] \subseteq Replayed(lines)

\* What the process knows at each system call.
AtStep ==
    /\ pc \in {"ready", "report", "syncsnapshot", "rename"} =>
           Whole(file) /\ nextSeq = Len(file) + 1 /\ mem = Replayed(file)
    /\ pc = "sync" =>
           Whole(file) /\ nextSeq = Len(file) /\ Replayed(file) = mem \cup {issued}
    /\ pc = "report" => disk = {file} /\ prior = {} /\ issued \in Replayed(file)
    /\ pc \in {"truncate", "terminate", "terminatesync"} =>
           nextSeq = GoodLen(file) + 1 /\ mem = Replayed(file)
    /\ pc = "terminate" => file # <<>> /\ file[Len(file)].frame = "unterminated"
    /\ pc = "terminatesync" => Whole(file)
    /\ pc \in {"syncsnapshot", "rename"} => tmp = <<Line(1, mem)>>
    /\ pc = "rename" => tmpSynced
    /\ pc \in {"syncdir", "reopen"} => file = <<Line(1, mem)>>

Issued == Replayed(file) \subseteq 1..issued

AllSafe == \A lines \in Recoverable : Safe(lines)

IInv == TypeOK /\ AllSafe /\ Issued /\ AtStep

-----------------------------------------------------------------------------
(***************************************************************************)
(* Lines.                                                                  *)
(***************************************************************************)
LEMMA GoodLenIs ==
    ASSUME NEW lines \in Seq(LogLine), Sound(lines)
    PROVE  GoodLen(lines) = Kept(lines) /\ Kept(lines) \in 0..Len(lines)
<1> DEFINE Good(n) == /\ \A i \in 1..n : Valid(lines, i)
                      /\ n < Len(lines) => ~Valid(lines, n + 1)
<1>0. Len(lines) \in Nat
    OBVIOUS
<1>1. lines # <<>> => Len(lines) >= 1
    OBVIOUS
<1>2. Kept(lines) \in 0..Len(lines)
    BY <1>0, <1>1 DEF Kept
<1>3. \A i \in 1..Kept(lines) : Valid(lines, i)
    <2> SUFFICES ASSUME NEW i \in 1..Kept(lines) PROVE Valid(lines, i)
        OBVIOUS
    <2>1. i \in 1..Len(lines)
        BY <1>0, <1>2
    <2>2. i = Len(lines) => lines[i].frame # "damaged"
        BY <1>0, <1>1, <2>1 DEF Kept
    <2> QED
        BY <2>1, <2>2 DEF Sound, Valid, Parsed, Unparsable
<1>4. Kept(lines) < Len(lines) => ~Valid(lines, Kept(lines) + 1)
    BY <1>0, <1>1 DEF Kept, Valid, Parsed, Unparsable
<1>5. Good(Kept(lines))
    BY <1>3, <1>4
<1>6. ASSUME NEW n \in 0..Len(lines), Good(n) PROVE n = Kept(lines)
    <2>1. CASE n < Kept(lines)
        <3>1. n + 1 \in 1..Kept(lines) /\ n < Len(lines)
            BY <1>0, <1>2, <2>1
        <3> QED
            BY <1>3, <1>6, <3>1
    <2>2. CASE n > Kept(lines)
        <3>1. Kept(lines) + 1 \in 1..n /\ Kept(lines) < Len(lines)
            BY <1>0, <1>2, <2>2
        <3> QED
            BY <1>4, <1>6, <3>1
    <2> QED
        BY <1>0, <1>2, <2>1, <2>2
<1> HIDE DEF Good
<1>7. GoodLen(lines) = CHOOSE n \in 0..Len(lines) : Good(n)
    BY DEF GoodLen, Good
<1> QED
    BY <1>2, <1>5, <1>6, <1>7

LEMMA WholeIsSound ==
    ASSUME NEW lines \in Seq(LogLine), Whole(lines)
    PROVE  Sound(lines) /\ GoodLen(lines) = Len(lines) /\ ~Torn(lines)
<1>1. Sound(lines)
    BY DEF Whole, Sound
<1>2. lines # <<>> => Len(lines) \in 1..Len(lines)
    OBVIOUS
<1> QED
    BY <1>1, <1>2, GoodLenIs DEF Whole, Kept, Torn

LEMMA EmptyLog == Sound(<<>>) /\ Replayed(<<>>) = {}
<1>1. <<>> \in Seq(LogLine) /\ Len(<<>>) = 0 /\ 1..0 = {}
    OBVIOUS
<1>2. Whole(<<>>)
    BY <1>1 DEF Whole
<1>3. Sound(<<>>)
    BY <1>1, <1>2, WholeIsSound
<1>4. GoodLen(<<>>) = 0
    BY <1>1, <1>2, WholeIsSound
<1>5. Replayed(<<>>) = {}
    BY <1>1, <1>4 DEF Replayed
<1> QED
    BY <1>3, <1>5

\* What an append puts in a log that ends in a whole line, stage by stage.
LEMMA StagesSound ==
    ASSUME NEW lines \in Seq(LogLine), Whole(lines), NEW ops \in SUBSET Ops, NEW k \in 1..4
    PROVE  LET stage == Stages(lines, Line(Len(lines) + 1, ops))[k]
           IN  /\ stage \in Seq(LogLine)
               /\ Sound(stage)
               /\ Replayed(stage) = Replayed(lines) \cup (IF k \in {3, 4} THEN ops ELSE {})
               /\ k = 4 => Whole(stage) /\ Len(stage) = Len(lines) + 1
<1> DEFINE line == Line(Len(lines) + 1, ops)
<1> DEFINE added == CASE k = 2 -> Damaged [] k = 3 -> Unterminated(line) [] OTHER -> line
<1>0. Len(lines) \in Nat /\ (lines # <<>> => Len(lines) \in 1..Len(lines))
    OBVIOUS
<1>1. /\ line \in LogLine /\ line.seq = Len(lines) + 1 /\ line.ops = ops /\ line.frame = "whole"
      /\ Unterminated(line) \in LogLine /\ Unterminated(line).seq = Len(lines) + 1
      /\ Unterminated(line).ops = ops /\ Unterminated(line).frame = "unterminated"
      /\ Damaged \in LogLine /\ Damaged.ops = {} /\ Damaged.frame = "damaged"
    BY <1>0 DEF Line, LogLine, Frames, Unparsable, Unterminated, Damaged
<1>2. \A l : Extend(lines, l) = Append(lines, l)
    BY <1>0 DEF Extend, EndsInNewline, Whole
<1>3. CASE k = 1
    <2>1. Stages(lines, line)[k] = lines
        BY <1>3 DEF Stages
    <2> QED
        BY <1>3, <2>1, WholeIsSound
<1>4. CASE k \in 2..4
    <2>1. Stages(lines, line)[k] = Append(lines, added)
        BY <1>2, <1>4 DEF Stages
    <2>2. added \in LogLine
        BY <1>1, <1>4
    <2> SUFFICES ASSUME NEW stage, stage = Append(lines, added)
                 PROVE  /\ stage \in Seq(LogLine)
                        /\ Sound(stage)
                        /\ Replayed(stage) =
                               Replayed(lines) \cup (IF k \in {3, 4} THEN ops ELSE {})
                        /\ k = 4 => Whole(stage) /\ Len(stage) = Len(lines) + 1
        BY <2>1
    <2>3. /\ stage \in Seq(LogLine) /\ Len(stage) = Len(lines) + 1
          /\ \A i \in 1..Len(lines) : stage[i] = lines[i]
          /\ stage[Len(lines) + 1] = added
        BY <2>2
    <2>4. Sound(stage)
        <3> SUFFICES ASSUME NEW i \in 1..Len(stage)
                     PROVE  \/ stage[i].frame = "whole" /\ stage[i].seq = i
                            \/ /\ i = Len(stage)
                               /\ stage[i].frame = "unterminated" /\ stage[i].seq = i
                            \/ i = Len(stage) /\ stage[i].frame = "damaged"
            BY DEF Sound
        <3>1. CASE i \in 1..Len(lines)
            BY <2>3, <3>1 DEF Whole
        <3>2. CASE i = Len(lines) + 1
            BY <1>1, <1>4, <2>3, <3>2
        <3> QED
            BY <1>0, <2>3, <3>1, <3>2
    <2>5. GoodLen(stage) = IF k = 2 THEN Len(lines) ELSE Len(lines) + 1
        <3>1. added.frame = "damaged" <=> k = 2
            BY <1>1, <1>4
        <3>2. stage # <<>> /\ stage[Len(stage)] = added /\ Len(stage) - 1 = Len(lines)
            BY <1>0, <2>3
        <3>3. GoodLen(stage) = Kept(stage)
            BY <2>3, <2>4, GoodLenIs
        <3>4. Kept(stage) = IF k = 2 THEN Len(stage) - 1 ELSE Len(stage)
            BY <3>1, <3>2 DEF Kept
        <3> QED
            BY <2>3, <3>2, <3>3, <3>4
    <2>6. GoodLen(lines) = Len(lines)
        BY WholeIsSound
    <2>7. CASE k = 2
        <3>1. \A i \in 1..Len(lines) : stage[i].ops = lines[i].ops
            BY <2>3
        <3>2. Replayed(stage) = Replayed(lines)
            BY <2>5, <2>6, <2>7, <3>1 DEF Replayed
        <3> QED
            BY <2>3, <2>4, <2>7, <3>2
    <2>8. CASE k \in {3, 4}
        <3>1. \A i \in 1..Len(lines) : stage[i].ops = lines[i].ops
            BY <2>3
        <3>2. stage[Len(lines) + 1].ops = ops
            BY <1>1, <2>3, <2>8
        <3>3. 1..Len(lines) + 1 = 1..Len(lines) \cup {Len(lines) + 1}
            BY <1>0
        <3>4. Replayed(stage) = Replayed(lines) \cup ops
            <4>1. GoodLen(stage) = Len(lines) + 1
                BY <2>5, <2>8
            <4>2. \A op : op \in Replayed(stage) <=>
                            \E i \in 1..Len(lines) + 1 : op \in stage[i].ops
                BY <4>1 DEF Replayed
            <4>3. \A op : op \in Replayed(lines) <=>
                            \E i \in 1..Len(lines) : op \in lines[i].ops
                BY <2>6 DEF Replayed
            <4>4. ASSUME NEW op PROVE op \in Replayed(stage) <=> op \in Replayed(lines) \/ op \in ops
                BY <3>1, <3>2, <3>3, <4>2, <4>3
            <4> QED
                BY <4>4
        <3>5. k = 4 => Whole(stage)
            <4> SUFFICES ASSUME k = 4, NEW i \in 1..Len(stage)
                         PROVE  stage[i].frame = "whole" /\ stage[i].seq = i
                BY DEF Whole
            <4>1. CASE i \in 1..Len(lines)
                BY <2>3, <4>1 DEF Whole
            <4>2. CASE i = Len(lines) + 1
                BY <1>1, <2>3, <4>2
            <4> QED
                BY <1>0, <2>3, <4>1, <4>2
        <3> QED
            BY <2>3, <2>4, <2>8, <3>4, <3>5
    <2> QED
        BY <1>4, <2>7, <2>8
<1> QED
    BY <1>3, <1>4

\* Truncating at the last valid record loses none.
LEMMA TruncatedSound ==
    ASSUME NEW lines \in Seq(LogLine), Sound(lines),
           NEW left, left = SubSeq(lines, 1, GoodLen(lines))
    PROVE  /\ left \in Seq(LogLine) /\ Sound(left)
           /\ Replayed(left) = Replayed(lines)
           /\ GoodLen(left) = GoodLen(lines)
           /\ Torn(left) => left # <<>> /\ left[Len(left)].frame = "unterminated"
           /\ ~Torn(left) => Whole(left)
<1>0. Len(lines) \in Nat /\ (lines # <<>> => Len(lines) \in 1..Len(lines))
    OBVIOUS
<1>1. GoodLen(lines) = Kept(lines) /\ Kept(lines) \in 0..Len(lines)
    BY GoodLenIs
<1>2. /\ left \in Seq(LogLine) /\ Len(left) = Kept(lines)
      /\ \A i \in 1..Kept(lines) : left[i] = lines[i]
    BY <1>0, <1>1
<1>3. \A i \in 1..Len(left) :
          \/ left[i].frame = "whole" /\ left[i].seq = i
          \/ i = Len(left) /\ left[i].frame = "unterminated" /\ left[i].seq = i
    <2> SUFFICES ASSUME NEW i \in 1..Len(left)
                 PROVE  \/ left[i].frame = "whole" /\ left[i].seq = i
                        \/ i = Len(left) /\ left[i].frame = "unterminated" /\ left[i].seq = i
        OBVIOUS
    <2>1. i \in 1..Len(lines) /\ left[i] = lines[i]
        BY <1>0, <1>1, <1>2
    <2>2. i = Len(lines) => lines[i].frame # "damaged" /\ i = Len(left)
        BY <1>0, <1>1, <1>2, <2>1 DEF Kept
    <2> QED
        BY <1>1, <1>2, <2>1, <2>2 DEF Sound
<1>4. Sound(left)
    BY <1>3 DEF Sound
<1>5. left # <<>> => Len(left) \in 1..Len(left)
    BY <1>2
<1>6. left # <<>> => left[Len(left)].frame # "damaged"
    BY <1>3, <1>5
<1>7. GoodLen(left) = Kept(lines)
    BY <1>2, <1>4, <1>6, GoodLenIs DEF Kept
<1>8. Replayed(left) = Replayed(lines)
    BY <1>1, <1>2, <1>7 DEF Replayed
<1>9. Torn(left) => left # <<>> /\ left[Len(left)].frame = "unterminated"
    BY <1>3, <1>5 DEF Torn
<1>10. ASSUME ~Torn(left) PROVE Whole(left)
    <2>1. left # <<>> => left[Len(left)].frame = "whole"
        BY <1>10 DEF Torn
    <2> SUFFICES ASSUME NEW i \in 1..Len(left)
                 PROVE  left[i].frame = "whole" /\ left[i].seq = i
        BY DEF Whole
    <2>2. left # <<>>
        BY <1>1, <1>2
    <2> QED
        BY <1>3, <2>1, <2>2
<1> QED
    BY <1>1, <1>2, <1>4, <1>7, <1>8, <1>9, <1>10

LEMMA TerminatedWhole ==
    ASSUME NEW lines \in Seq(LogLine), Sound(lines), lines # <<>>,
           lines[Len(lines)].frame = "unterminated",
           NEW done, done = [lines EXCEPT ![Len(lines)].frame = "whole"]
    PROVE  /\ done \in Seq(LogLine) /\ Whole(done) /\ Len(done) = Len(lines)
           /\ Replayed(done) = Replayed(lines)
<1>0. Len(lines) \in 1..Len(lines) /\ Len(lines) \in Nat
    OBVIOUS
<1>1. /\ DOMAIN done = 1..Len(lines)
      /\ \A i \in 1..Len(lines) : i # Len(lines) => done[i] = lines[i]
      /\ done[Len(lines)] = [lines[Len(lines)] EXCEPT !.frame = "whole"]
    BY <1>0
<1>2. \A i \in 1..Len(lines) : lines[i] \in LogLine
    OBVIOUS
<1>3. /\ done[Len(lines)] \in LogLine
      /\ done[Len(lines)].frame = "whole"
      /\ done[Len(lines)].seq = lines[Len(lines)].seq
      /\ done[Len(lines)].ops = lines[Len(lines)].ops
    BY <1>0, <1>1, <1>2 DEF LogLine, Frames, Unparsable
<1>4. \A i \in 1..Len(lines) : done[i] \in LogLine /\ done[i].ops = lines[i].ops
    BY <1>1, <1>2, <1>3
<1>5. done \in Seq(LogLine) /\ Len(done) = Len(lines)
    BY <1>0, <1>1, <1>4
<1>6. Whole(done)
    <2> SUFFICES ASSUME NEW i \in 1..Len(lines)
                 PROVE  done[i].frame = "whole" /\ done[i].seq = i
        BY <1>5 DEF Whole
    <2> QED
        BY <1>0, <1>1, <1>3 DEF Sound
<1>7. GoodLen(lines) = Len(lines)
    BY <1>0, GoodLenIs DEF Kept
<1>8. GoodLen(done) = Len(lines)
    BY <1>5, <1>6, WholeIsSound
<1>9. Replayed(done) = Replayed(lines)
    BY <1>4, <1>7, <1>8 DEF Replayed
<1> QED
    BY <1>5, <1>6, <1>9

LEMMA SnapshotWhole ==
    ASSUME NEW ops \in SUBSET Ops
    PROVE  /\ <<Line(1, ops)>> \in Seq(LogLine)
           /\ Whole(<<Line(1, ops)>>)
           /\ Replayed(<<Line(1, ops)>>) = ops
<1>1. Line(1, ops) \in LogLine /\ Line(1, ops).ops = ops
    BY DEF Line, LogLine, Frames, Unparsable
<1>2. <<Line(1, ops)>> \in Seq(LogLine) /\ Len(<<Line(1, ops)>>) = 1
    BY <1>1
<1>3. Whole(<<Line(1, ops)>>)
    BY <1>2 DEF Whole, Line
<1>4. GoodLen(<<Line(1, ops)>>) = 1
    BY <1>2, <1>3, WholeIsSound
<1>5. 1..1 = {1}
    OBVIOUS
<1> QED
    BY <1>1, <1>2, <1>3, <1>4, <1>5 DEF Replayed

\* A sound log that holds anything is never refused.
LEMMA SoundNotCorrupt ==
    ASSUME NEW lines \in Seq(LogLine), Sound(lines), Replayed(lines) # {}
    PROVE  ~Corrupt(lines)
<1>0. Len(lines) \in Nat
    OBVIOUS
<1>1. GoodLen(lines) = Kept(lines) /\ Kept(lines) \in 0..Len(lines)
    BY GoodLenIs
<1>2. GoodLen(lines) # 0
    BY <1>0 DEF Replayed
<1>3. ASSUME GoodLen(lines) < Len(lines)
      PROVE  GoodLen(lines) + 1 = Len(lines) /\ lines[Len(lines)].frame = "damaged"
    BY <1>0, <1>1, <1>3 DEF Kept
<1> QED
    BY <1>0, <1>1, <1>2, <1>3 DEF Corrupt, Parsed, Unparsable

-----------------------------------------------------------------------------
(***************************************************************************)
(* Steps.  Most of them leave what the file replays to as it is; the       *)
(* others are an operation's write, its report and a power loss.           *)
(***************************************************************************)
LEMMA SameContentsSafe ==
    ASSUME AllSafe, Issued, UNCHANGED <<issued, acked, base>>,
           Replayed(file') = Replayed(file),
           \A lines \in {file'} \cup disk' \cup prior' :
               lines \in Recoverable \/ (Sound(lines) /\ Replayed(lines) = Replayed(file))
    PROVE  AllSafe' /\ Issued'
<1>1. Safe(file)
    BY DEF AllSafe, Recoverable
<1>2. ASSUME NEW lines \in {file'} \cup disk' \cup prior'
      PROVE  /\ Sound(lines)
             /\ acked \subseteq Replayed(lines)
             /\ Replayed(lines) \subseteq Replayed(file)
             /\ \A op \in Replayed(lines) : base[op] \subseteq Replayed(lines)
    <2>1. CASE lines \in Recoverable
        BY <2>1 DEF AllSafe, Safe
    <2>2. CASE Sound(lines) /\ Replayed(lines) = Replayed(file)
        BY <1>1, <2>2 DEF Safe
    <2> QED
        BY <1>2, <2>1, <2>2
<1>3. AllSafe'
    BY <1>2 DEF AllSafe, Recoverable, Safe
<1> QED
    BY <1>3 DEF Issued

LEMMA TruncateStep ==
    ASSUME TypeOK, AllSafe, AtStep, Truncate
    PROVE  /\ file' \in Seq(LogLine) /\ Sound(file')
           /\ Replayed(file') = Replayed(file)
           /\ GoodLen(file') = GoodLen(file)
           /\ Torn(file') => file' # <<>> /\ file'[Len(file')].frame = "unterminated"
           /\ ~Torn(file') => Whole(file')
<1>1. file \in Seq(LogLine) /\ Sound(file)
    BY DEF TypeOK, AllSafe, Recoverable, Safe
<1> QED
    BY <1>1, TruncatedSound DEF Truncate

LEMMA TerminateStep ==
    ASSUME TypeOK, AllSafe, AtStep, Terminate
    PROVE  /\ file' \in Seq(LogLine) /\ Whole(file') /\ Len(file') = Len(file)
           /\ Replayed(file') = Replayed(file)
<1>1. file \in Seq(LogLine) /\ Sound(file)
    BY DEF TypeOK, AllSafe, Recoverable, Safe
<1>2. file # <<>> /\ file[Len(file)].frame = "unterminated"
    BY DEF AtStep, Terminate
<1> QED
    BY <1>1, <1>2, TerminatedWhole DEF Terminate

\* An operation's write that has come to the given stage.
LEMMA NewOpStep ==
    ASSUME TypeOK, AllSafe, Issued, AtStep, NewOp, NEW stage \in 1..4,
           file' = Stages(file, Line(nextSeq, {issued'}))[stage]
    PROVE  /\ issued' \in Ops /\ issued' \notin Replayed(file)
           /\ base' = [base EXCEPT ![issued'] = Replayed(file)]
           /\ \A k \in 1..4 :
                  LET lines == Stages(file, Line(nextSeq, {issued'}))[k]
                  IN  /\ lines \in Seq(LogLine) /\ Sound(lines)
                      /\ Replayed(lines) =
                            Replayed(file) \cup (IF k \in {3, 4} THEN {issued'} ELSE {})
           /\ stage = 4 => Whole(file') /\ Len(file') = nextSeq
<1>1. file \in Seq(LogLine) /\ Whole(file) /\ nextSeq = Len(file) + 1 /\ mem = Replayed(file)
    BY DEF TypeOK, AtStep, NewOp
<1>2. issued \in 0..MaxOps /\ issued' = issued + 1 /\ issued < MaxOps
    BY DEF TypeOK, NewOp
<1>3. issued' \in Ops /\ issued' \notin 1..issued
    BY <1>2, BoundsAssumption DEF Ops
<1>4. issued' \notin Replayed(file)
    BY <1>3 DEF Issued
<1>5. {issued'} \in SUBSET Ops
    BY <1>3
<1> QED
    BY <1>1, <1>3, <1>4, <1>5, StagesSound DEF NewOp

LEMMA NewOpSafe ==
    ASSUME TypeOK, AllSafe, Issued, AtStep, NewOp, NEW stage \in 1..4,
           file' = Stages(file, Line(nextSeq, {issued'}))[stage],
           disk' = disk \cup Partial(file, Line(nextSeq, {issued'}), stage)
    PROVE  /\ AllSafe' /\ Issued'
           /\ file' \in Seq(LogLine)
           /\ \A lines \in disk' \cup prior' : lines \in Seq(LogLine)
           /\ base' \in [Ops -> SUBSET Ops]
<1> DEFINE at(k) == Stages(file, Line(nextSeq, {issued'}))[k]
<1>1. /\ issued' \in Ops /\ issued' \notin Replayed(file)
      /\ base' = [base EXCEPT ![issued'] = Replayed(file)]
      /\ \A k \in 1..4 :
            /\ at(k) \in Seq(LogLine) /\ Sound(at(k))
            /\ Replayed(at(k)) = Replayed(file) \cup (IF k \in {3, 4} THEN {issued'} ELSE {})
    BY NewOpStep
<1>2. file' = at(stage) /\ acked' = acked /\ prior' = prior
    BY DEF NewOp
<1>3. \A lines \in disk' : lines \in disk \/ \E k \in 1..stage : lines = at(k)
    BY DEF Partial
<1> HIDE DEF at
<1>4. base \in [Ops -> SUBSET Ops] /\ Replayed(file) \subseteq Ops
    <2>1. issued \in 0..MaxOps /\ 1..issued \subseteq Ops
        BY BoundsAssumption DEF TypeOK, Ops
    <2> QED
        BY <2>1 DEF TypeOK, Issued
<1>5. /\ base'[issued'] = Replayed(file)
      /\ \A op \in Ops : op # issued' => base'[op] = base[op]
      /\ base' \in [Ops -> SUBSET Ops]
    BY <1>1, <1>4
<1>6. Safe(file)
    BY DEF AllSafe, Recoverable
<1>7. Replayed(file) \subseteq Replayed(file')
    BY <1>1, <1>2
<1>8. ASSUME NEW k \in 1..stage
      PROVE  /\ Sound(at(k))
             /\ acked \subseteq Replayed(at(k))
             /\ Replayed(at(k)) \subseteq Replayed(file')
             /\ \A op \in Replayed(at(k)) : base'[op] \subseteq Replayed(at(k))
    <2>1. k \in 1..4 /\ (k \in {3, 4} => stage \in {3, 4})
        OBVIOUS
    <2>2. Sound(at(k)) /\ Replayed(file) \subseteq Replayed(at(k))
        BY <1>1, <2>1
    <2>3. Replayed(at(k)) \subseteq Replayed(file')
        BY <1>1, <1>2, <2>1
    <2>4. ASSUME NEW op \in Replayed(at(k)) PROVE base'[op] \subseteq Replayed(at(k))
        <3>1. CASE op = issued'
            BY <1>5, <2>2, <3>1
        <3>2. CASE op # issued'
            <4>1. op \in Replayed(file) /\ op \in Ops
                BY <1>1, <1>4, <2>1, <2>4, <3>2
            <4>2. base'[op] = base[op] /\ base[op] \subseteq Replayed(file)
                BY <1>5, <1>6, <3>2, <4>1 DEF Safe
            <4> QED
                BY <2>2, <4>2
        <3> QED
            BY <3>1, <3>2
    <2>5. acked \subseteq Replayed(at(k))
        BY <1>6, <2>2 DEF Safe
    <2> QED
        BY <2>2, <2>3, <2>4, <2>5
<1>9. ASSUME NEW lines \in Recoverable
      PROVE  /\ Sound(lines)
             /\ acked \subseteq Replayed(lines)
             /\ Replayed(lines) \subseteq Replayed(file')
             /\ \A op \in Replayed(lines) : base'[op] \subseteq Replayed(lines)
    <2>1. Safe(lines)
        BY <1>9 DEF AllSafe
    <2>2. Replayed(lines) \subseteq Replayed(file)
        BY <2>1 DEF Safe
    <2>3. \A op \in Replayed(lines) : base'[op] = base[op]
        BY <1>1, <1>4, <1>5, <2>2
    <2> QED
        BY <1>7, <2>1, <2>2, <2>3 DEF Safe
<1>10. ASSUME NEW lines \in {file'} \cup disk' \cup prior'
       PROVE  /\ Sound(lines)
              /\ acked \subseteq Replayed(lines)
              /\ Replayed(lines) \subseteq Replayed(file')
              /\ \A op \in Replayed(lines) : base'[op] \subseteq Replayed(lines)
    <2>1. lines \in Recoverable \/ \E k \in 1..stage : lines = at(k)
        <3>1. stage \in 1..stage
            OBVIOUS
        <3> QED
            BY <1>2, <1>3, <1>10, <3>1 DEF Recoverable
    <2> QED
        BY <1>8, <1>9, <2>1
<1>11. AllSafe'
    BY <1>2, <1>10 DEF AllSafe, Recoverable, Safe
<1>12. Issued'
    <2>1. issued \in Nat /\ issued' = issued + 1
        BY DEF TypeOK, NewOp
    <2>2. 1..issued \cup {issued'} \subseteq 1..issued'
        BY <2>1
    <2>3. Replayed(file') \subseteq Replayed(file) \cup {issued'}
        BY <1>1, <1>2
    <2> QED
        BY <2>2, <2>3 DEF Issued
<1>13. \A k \in 1..stage : at(k) \in Seq(LogLine)
    BY <1>1
<1>14. file' \in Seq(LogLine) /\ \A lines \in disk' \cup prior' : lines \in Seq(LogLine)
    <2>1. stage \in 1..stage
        OBVIOUS
    <2> QED
        BY <1>2, <1>3, <1>13, <2>1 DEF TypeOK
<1> QED
    BY <1>5, <1>11, <1>12, <1>14

LEMMA ReportSafe ==
    ASSUME TypeOK, AllSafe, Issued, AtStep, Report
    PROVE  AllSafe' /\ Issued' /\ acked' \in SUBSET Ops
<1>1. /\ Recoverable = {file} /\ issued \in Replayed(file)
      /\ file' = file /\ disk' = {file} /\ prior' = {}
      /\ acked' = acked \cup {issued} /\ issued' = issued /\ base' = base
    BY DEF AtStep, Report, Recoverable, fileVars
<1>2. Safe(file)
    BY DEF AllSafe, Recoverable
<1>3. AllSafe'
    BY <1>1, <1>2 DEF AllSafe, Recoverable, Safe
<1>4. issued \in Ops
    BY <1>1, BoundsAssumption DEF Issued, TypeOK, Ops
<1> QED
    BY <1>1, <1>3, <1>4 DEF Issued, TypeOK

LEMMA PowerLossSafe ==
    ASSUME TypeOK, AllSafe, Issued, PowerLoss
    PROVE  AllSafe' /\ Issued' /\ file' \in Seq(LogLine)
<1>1. /\ file' \in Recoverable /\ file' \in disk \cup prior
      /\ disk' = {file'} /\ prior' = {}
      /\ acked' = acked /\ issued' = issued /\ base' = base
    BY DEF PowerLoss, Recoverable, userVars
<1>2. Safe(file')
    BY <1>1 DEF AllSafe
<1>3. AllSafe'
    BY <1>1, <1>2 DEF AllSafe, Recoverable, Safe
<1>4. Issued'
    BY <1>1, <1>2 DEF Issued, Safe
<1> QED
    BY <1>1, <1>3, <1>4 DEF TypeOK

LEMMA InitInv == Init => IInv
<1> SUFFICES ASSUME Init PROVE IInv
    OBVIOUS
<1>1. <<>> \in Seq(LogLine)
    OBVIOUS
<1>2. Sound(<<>>) /\ Replayed(<<>>) = {}
    BY EmptyLog
<1>3. TypeOK
    <2>1. 0 \in 0..MaxOps /\ 0 \in 0..MaxRewrites
        BY BoundsAssumption
    <2>2. [op \in Ops |-> {}] \in [Ops -> SUBSET Ops]
        OBVIOUS
    <2>3. file \in Seq(LogLine) /\ tmp \in Seq(LogLine)
        BY <1>1 DEF Init
    <2>4. \A lines \in disk \cup prior : lines \in Seq(LogLine)
        BY <1>1 DEF Init
    <2>5. base \in [Ops -> SUBSET Ops]
        BY <2>2 DEF Init
    <2>6. nextSeq \in Nat \ {0} /\ issued \in 0..MaxOps /\ rewrites \in 0..MaxRewrites
        BY <2>1 DEF Init
    <2>7. mem \in SUBSET Ops /\ acked \in SUBSET Ops
        BY DEF Init
    <2>8. tmpSynced \in BOOLEAN /\ pc \in Steps
        BY DEF Init, Steps
    <2> QED
        BY <2>3, <2>4, <2>5, <2>6, <2>7, <2>8 DEF TypeOK
<1>4. AllSafe /\ Issued
    BY <1>2 DEF Init, AllSafe, Recoverable, Safe, Issued
<1> QED
    BY <1>3, <1>4 DEF Init, AtStep, IInv

\* One step per action; only a file system whose fsync covers the name makes
\* an fsync forget the contents the name may have had.
LEMMA NextInv ==
    ASSUME FsyncCoversName, IInv, [Next]_vars
    PROVE  IInv'
<1> USE DEF fileVars, tmpVars, procVars, userVars
<1>0. TypeOK /\ AllSafe /\ Issued /\ AtStep
    BY DEF IInv
<1>a. file \in Seq(LogLine) /\ Sound(file)
    BY <1>0 DEF TypeOK, AllSafe, Recoverable, Safe
<1>b. GoodLen(file) \in Nat
    BY <1>a, GoodLenIs
<1>c. Replayed(file) \in SUBSET Ops
    <2>1. issued \in 0..MaxOps /\ 1..issued \subseteq Ops
        BY <1>0, BoundsAssumption DEF TypeOK, Ops
    <2> QED
        BY <1>0, <2>1 DEF Issued
<1>d. Whole(file) => GoodLen(file) = Len(file)
    BY <1>a, WholeIsSound
<1>1. CASE Open
    <2>1. AllSafe' /\ Issued'
        BY <1>0, <1>1, SameContentsSafe DEF Open, Recoverable
    <2>2. TypeOK'
        BY <1>0, <1>1, <1>b, <1>c DEF Open, Opened, TypeOK, Steps
    <2>3. ~Torn(file) => Whole(file)
        <3>1. file # <<>> => Len(file) \in 1..Len(file)
            BY <1>a
        <3>2. \A i \in 1..Len(file) : file # <<>>
            BY <1>a
        <3> QED
            BY <1>a, <3>1, <3>2 DEF Torn, Whole, Sound
    <2>4. AtStep'
        BY <1>1, <1>d, <2>3 DEF Open, Opened, AtStep
    <2> QED
        BY <2>1, <2>2, <2>4 DEF IInv
<1>2. CASE Truncate
    <2>1. /\ file' \in Seq(LogLine) /\ Sound(file')
          /\ Replayed(file') = Replayed(file)
          /\ GoodLen(file') = GoodLen(file)
          /\ Torn(file') => file' # <<>> /\ file'[Len(file')].frame = "unterminated"
          /\ ~Torn(file') => Whole(file')
        BY <1>0, <1>2, TruncateStep
    <2>2. AllSafe' /\ Issued'
        BY <1>0, <1>2, <2>1, SameContentsSafe DEF Truncate, Recoverable
    <2>3. TypeOK'
        BY <1>0, <1>2, <2>1 DEF Truncate, TypeOK, Steps
    <2>4. Whole(file') => GoodLen(file') = Len(file')
        BY <2>1, WholeIsSound
    <2>5. AtStep'
        BY <1>0, <1>2, <2>1, <2>4 DEF Truncate, AtStep
    <2> QED
        BY <2>2, <2>3, <2>5 DEF IInv
<1>3. CASE Terminate
    <2>1. /\ file' \in Seq(LogLine) /\ Whole(file') /\ Len(file') = Len(file)
          /\ Replayed(file') = Replayed(file)
        BY <1>0, <1>3, TerminateStep
    <2>2. Sound(file') /\ GoodLen(file') = Len(file)
        BY <2>1, WholeIsSound
    <2>3. AllSafe' /\ Issued'
        BY <1>0, <1>3, <2>1, <2>2, SameContentsSafe DEF Terminate, Recoverable
    <2>4. TypeOK'
        BY <1>0, <1>3, <2>1 DEF Terminate, TypeOK, Steps
    <2>5. GoodLen(file) = Len(file)
        <3>1. file # <<>> /\ file[Len(file)].frame = "unterminated"
            BY <1>0, <1>3 DEF AtStep, Terminate
        <3> QED
            BY <1>a, <3>1, GoodLenIs DEF Kept
    <2>6. AtStep'
        BY <1>0, <1>3, <2>1, <2>2, <2>5 DEF Terminate, AtStep
    <2> QED
        BY <2>3, <2>4, <2>6 DEF IInv
<1>4. CASE TerminateSync
    <2>1. file' = file /\ disk' = {file} /\ prior' = {}
        BY <1>4 DEF TerminateSync, Synced
    <2>2. AllSafe' /\ Issued'
        BY <1>0, <1>4, <2>1, SameContentsSafe DEF TerminateSync, Recoverable
    <2>3. TypeOK'
        BY <1>0, <1>4, <2>1 DEF TerminateSync, TypeOK, Steps
    <2>4. AtStep'
        BY <1>0, <1>4, <1>d, <2>1 DEF TerminateSync, AtStep
    <2> QED
        BY <2>2, <2>3, <2>4 DEF IInv
<1>5. CASE Write
    <2>1. /\ file' = Stages(file, Line(nextSeq, {issued'}))[4]
          /\ disk' = disk \cup Partial(file, Line(nextSeq, {issued'}), 4)
          /\ NewOp /\ pc' = "sync" /\ 4 \in 1..4
        BY <1>5 DEF Write, Stages
    <2>2. /\ AllSafe' /\ Issued' /\ file' \in Seq(LogLine)
          /\ \A lines \in disk' \cup prior' : lines \in Seq(LogLine)
          /\ base' \in [Ops -> SUBSET Ops]
        BY <1>0, <2>1, NewOpSafe
    <2>3. Whole(file') /\ Len(file') = nextSeq /\ Replayed(file') = Replayed(file) \cup {issued'}
        BY <1>0, <2>1, NewOpStep
    <2>a. issued' \in 0..MaxOps
        BY <1>0, <2>1, BoundsAssumption DEF NewOp, TypeOK
    <2>4. TypeOK'
        BY <1>0, <2>1, <2>2, <2>a DEF NewOp, TypeOK, Steps
    <2>5. AtStep'
        BY <1>0, <2>1, <2>3 DEF NewOp, AtStep
    <2> QED
        BY <2>2, <2>4, <2>5 DEF IInv
<1>6. CASE WriteCutShort
    <2>1. PICK stage \in 1..3 :
              /\ file' = Stages(file, Line(nextSeq, {issued'}))[stage]
              /\ disk' = disk \cup Partial(file, Line(nextSeq, {issued'}), stage)
        BY <1>6 DEF WriteCutShort
    <2>2. NewOp /\ pc' = "down" /\ stage \in 1..4
        BY <1>6 DEF WriteCutShort
    <2>3. /\ AllSafe' /\ Issued' /\ file' \in Seq(LogLine)
          /\ \A lines \in disk' \cup prior' : lines \in Seq(LogLine)
          /\ base' \in [Ops -> SUBSET Ops]
        BY <1>0, <2>1, <2>2, NewOpSafe
    <2>4. TypeOK'
        BY <1>0, <2>2, <2>3, BoundsAssumption DEF NewOp, TypeOK, Steps
    <2>5. AtStep'
        BY <2>2 DEF AtStep
    <2> QED
        BY <2>3, <2>4, <2>5 DEF IInv
<1>7. CASE Sync
    <2>1. file' = file /\ disk' = {file} /\ prior' = {}
        BY <1>7 DEF Sync, Synced
    <2>2. AllSafe' /\ Issued'
        BY <1>0, <1>7, <2>1, SameContentsSafe DEF Sync, Recoverable
    <2>3. Whole(file) /\ nextSeq = Len(file) /\ Replayed(file) = mem \cup {issued}
        BY <1>0, <1>7 DEF Sync, AtStep
    <2>4. TypeOK'
        BY <1>0, <1>7, <1>c, <2>1, <2>3 DEF Sync, TypeOK, Steps
    <2>5. AtStep'
        BY <1>7, <2>1, <2>3 DEF Sync, AtStep
    <2> QED
        BY <2>2, <2>4, <2>5 DEF IInv
<1>8. CASE Report
    <2>1. AllSafe' /\ Issued' /\ acked' \in SUBSET Ops
        BY <1>0, <1>8, ReportSafe
    <2>2. TypeOK'
        BY <1>0, <1>8, <2>1 DEF Report, TypeOK, Steps
    <2>3. AtStep'
        BY <1>0, <1>8 DEF Report, AtStep
    <2> QED
        BY <2>1, <2>2, <2>3 DEF IInv
<1>9. CASE WriteSnapshot
    <2>1. AllSafe' /\ Issued'
        BY <1>0, <1>9, SameContentsSafe DEF WriteSnapshot, Recoverable
    <2>2. <<Line(1, mem)>> \in Seq(LogLine)
        BY <1>0, SnapshotWhole DEF TypeOK
    <2>a. rewrites' \in 0..MaxRewrites
        BY <1>0, <1>9, BoundsAssumption DEF WriteSnapshot, TypeOK
    <2>3. TypeOK'
        BY <1>0, <1>9, <2>2, <2>a DEF WriteSnapshot, TypeOK, Steps
    <2>4. AtStep'
        BY <1>0, <1>9 DEF WriteSnapshot, AtStep
    <2> QED
        BY <2>1, <2>3, <2>4 DEF IInv
<1>10. CASE SyncSnapshot
    <2>1. AllSafe' /\ Issued'
        BY <1>0, <1>10, SameContentsSafe DEF SyncSnapshot, Recoverable
    <2>2. TypeOK'
        BY <1>0, <1>10 DEF SyncSnapshot, TypeOK, Steps
    <2>3. AtStep'
        BY <1>0, <1>10 DEF SyncSnapshot, AtStep
    <2> QED
        BY <2>1, <2>2, <2>3 DEF IInv
<1>11. CASE Rename
    <2>1. tmp = <<Line(1, mem)>> /\ tmpSynced /\ mem = Replayed(file)
        BY <1>0, <1>11 DEF Rename, AtStep
    <2>2. file' = tmp /\ disk' = {tmp} /\ prior' = prior \cup disk
        BY <1>11, <2>1 DEF Rename
    <2>3. tmp \in Seq(LogLine) /\ Sound(tmp) /\ Replayed(tmp) = Replayed(file)
        BY <1>c, <2>1, SnapshotWhole, WholeIsSound
    <2>4. AllSafe' /\ Issued'
        BY <1>0, <1>11, <2>2, <2>3, SameContentsSafe DEF Rename, Recoverable
    <2>5. TypeOK'
        BY <1>0, <1>11, <2>2, <2>3 DEF Rename, TypeOK, Steps
    <2>6. AtStep'
        BY <1>11, <2>1, <2>2 DEF Rename, AtStep
    <2> QED
        BY <2>4, <2>5, <2>6 DEF IInv
<1>12. CASE SyncDir
    <2>1. AllSafe' /\ Issued'
        BY <1>0, <1>12, SameContentsSafe DEF SyncDir, Recoverable
    <2>2. TypeOK'
        BY <1>0, <1>12 DEF SyncDir, TypeOK, Steps
    <2>3. AtStep'
        BY <1>0, <1>12 DEF SyncDir, AtStep
    <2> QED
        BY <2>1, <2>2, <2>3 DEF IInv
<1>13. CASE Reopen
    <2>1. AllSafe' /\ Issued'
        BY <1>0, <1>13, SameContentsSafe DEF Reopen, Recoverable
    <2>2. file = <<Line(1, mem)>> /\ mem \in SUBSET Ops
        BY <1>0, <1>13 DEF Reopen, AtStep, TypeOK
    <2>3. Whole(file) /\ Replayed(file) = mem
        BY <2>2, SnapshotWhole
    <2>4. TypeOK'
        BY <1>0, <1>13, <1>b DEF Reopen, Opened, TypeOK, Steps
    <2>5. AtStep'
        BY <1>13, <1>d, <2>3 DEF Reopen, Opened, AtStep
    <2> QED
        BY <2>1, <2>4, <2>5 DEF IInv
<1>14. CASE Exit
    <2>1. AllSafe' /\ Issued'
        BY <1>0, <1>14, SameContentsSafe DEF Exit, Recoverable
    <2>2. TypeOK'
        BY <1>0, <1>14 DEF Exit, TypeOK, Steps
    <2>3. AtStep'
        BY <1>14 DEF Exit, AtStep
    <2> QED
        BY <2>1, <2>2, <2>3 DEF IInv
<1>15. CASE PowerLoss
    <2>1. AllSafe' /\ Issued' /\ file' \in Seq(LogLine)
        BY <1>0, <1>15, PowerLossSafe
    <2>2. TypeOK'
        BY <1>0, <1>15, <2>1 DEF PowerLoss, TypeOK, Steps
    <2>3. AtStep'
        BY <1>15 DEF PowerLoss, AtStep
    <2> QED
        BY <2>1, <2>2, <2>3 DEF IInv
<1>16. CASE UNCHANGED vars
    <2>1. AllSafe' /\ Issued'
        BY <1>0, <1>16, SameContentsSafe DEF vars, Recoverable
    <2>2. TypeOK'
        BY <1>0, <1>16 DEF vars, TypeOK
    <2>3. AtStep'
        BY <1>0, <1>16 DEF vars, AtStep
    <2> QED
        BY <2>1, <2>2, <2>3 DEF IInv
<1> QED
    BY <1>1, <1>2, <1>3, <1>4, <1>5, <1>6, <1>7, <1>8, <1>9, <1>10, <1>11, <1>12, <1>13,
       <1>14, <1>15, <1>16 DEF Next

-----------------------------------------------------------------------------
(***************************************************************************)
(* Where fsync of the log covers its name, all of it holds in every        *)
(* reachable state, whatever is stopped wherever.                          *)
(***************************************************************************)
LEMMA InvHolds == ASSUME FsyncCoversName PROVE Spec => []IInv
<1>1. Init => IInv
    BY InitInv
<1>2. IInv /\ [Next]_vars => IInv'
    BY NextInv
<1> QED
    BY <1>1, <1>2, PTL DEF Spec

(***************************************************************************)
(* Every operation reported as done is in whatever the next Open finds:    *)
(* the append's fsync before its report, the snapshot's before the rename, *)
(* and a repair that drops only what no report covers.                     *)
(***************************************************************************)
THEOREM AckedAlwaysSurvive == ASSUME FsyncCoversName PROVE Spec => []AckedSurvive
<1>1. IInv => AckedSurvive
    BY DEF IInv, AllSafe, Safe, AckedSurvive
<1> QED
    BY <1>1, InvHolds, PTL

(***************************************************************************)
(* Once anything is acknowledged, nothing a crash leaves makes Open return *)
(* ErrCorrupt: neither its test for damage before the last line nor its    *)
(* refusal of a damaged only record ever meets a torn write.               *)
(***************************************************************************)
THEOREM AlwaysOpens == ASSUME FsyncCoversName PROVE Spec => []NeverRefused
<1>1. IInv => NeverRefused
    <2> SUFFICES ASSUME IInv, acked # {}, NEW lines \in Recoverable
                 PROVE  ~Corrupt(lines)
        BY DEF NeverRefused
    <2>1. lines \in Seq(LogLine)
        BY DEF IInv, TypeOK, Recoverable
    <2>2. Sound(lines) /\ Replayed(lines) # {}
        BY DEF IInv, AllSafe, Safe
    <2> QED
        BY <2>1, <2>2, SoundNotCorrupt
<1> QED
    BY <1>1, InvHolds, PTL

(***************************************************************************)
(* A process that is about to append has replayed exactly the file, and    *)
(* its record goes on a line of its own with the next sequence number.     *)
(***************************************************************************)
THEOREM AppendsContinue == ASSUME FsyncCoversName PROVE Spec => []AppendContinues
<1>1. IInv => AppendContinues
    <2> SUFFICES ASSUME IInv, pc = "ready"
                 PROVE  /\ ~Torn(file) /\ nextSeq = Len(file) + 1
                        /\ GoodLen(file) = Len(file) /\ mem = Replayed(file)
        BY DEF AppendContinues
    <2>1. file \in Seq(LogLine) /\ Whole(file)
        BY DEF IInv, TypeOK, AtStep
    <2> QED
        BY <2>1, WholeIsSound DEF IInv, AtStep
<1> QED
    BY <1>1, InvHolds, PTL

(***************************************************************************)
(* The state of the log has its type.                                      *)
(***************************************************************************)
THEOREM WalTypeCorrect == ASSUME FsyncCoversName PROVE Spec => []TypeOK
<1>1. IInv => TypeOK
    BY DEF IInv
<1> QED
    BY <1>1, InvHolds, PTL

-----------------------------------------------------------------------------
(***************************************************************************)
(* The log implements DurableLog: a write of a record, whole or cut short, *)
(* is its Write or its Miss, a report is its Ack, a power loss is its      *)
(* Lose, and everything else, repair and compaction included, a stutter.   *)
(***************************************************************************)
LEMMA WalInitImplements == Init => Durable!Init
<1> SUFFICES ASSUME Init PROVE Durable!Init
    OBVIOUS
<1>1. Replayed(<<>>) = {}
    BY EmptyLog
<1> QED
    BY <1>1 DEF Init, Durable!Init

LEMMA WalNextImplements ==
    ASSUME IInv, [Next]_vars
    PROVE  [Durable!Next]_(Durable!vars)
<1> USE DEF fileVars, tmpVars, procVars, userVars
<1>0. TypeOK /\ AllSafe /\ Issued /\ AtStep
    BY DEF IInv
<1>1. ASSUME Replayed(file') = Replayed(file), UNCHANGED <<acked, base>>
      PROVE  UNCHANGED Durable!vars
    BY <1>1 DEF Durable!vars
<1>2. CASE Open \/ TerminateSync \/ Sync \/ WriteSnapshot \/ SyncSnapshot \/ SyncDir
           \/ Reopen \/ Exit \/ UNCHANGED vars
    <2>1. file' = file /\ UNCHANGED <<acked, base>>
        BY <1>2 DEF Open, TerminateSync, Sync, WriteSnapshot, SyncSnapshot, SyncDir,
                    Reopen, Exit, vars
    <2> QED
        BY <1>1, <2>1
<1>3. CASE Truncate
    <2>1. Replayed(file') = Replayed(file)
        BY <1>0, <1>3, TruncateStep
    <2> QED
        BY <1>1, <1>3, <2>1 DEF Truncate
<1>4. CASE Terminate
    <2>1. Replayed(file') = Replayed(file)
        BY <1>0, <1>4, TerminateStep
    <2> QED
        BY <1>1, <1>4, <2>1 DEF Terminate
<1>5. CASE Rename
    <2>1. file' = <<Line(1, mem)>> /\ mem = Replayed(file) /\ mem \in SUBSET Ops
        BY <1>0, <1>5 DEF Rename, AtStep, TypeOK
    <2>2. Replayed(file') = Replayed(file)
        BY <2>1, SnapshotWhole
    <2> QED
        BY <1>1, <1>5, <2>2 DEF Rename
<1>6. CASE Write \/ WriteCutShort
    <2>1. PICK stage \in 1..4 : file' = Stages(file, Line(nextSeq, {issued'}))[stage]
        BY <1>6 DEF Write, WriteCutShort, Stages
    <2>2. NewOp
        BY <1>6 DEF Write, WriteCutShort
    <2>3. /\ issued' \in Ops /\ issued' \notin Replayed(file)
          /\ base' = [base EXCEPT ![issued'] = Replayed(file)]
          /\ Replayed(file') =
                Replayed(file) \cup (IF stage \in {3, 4} THEN {issued'} ELSE {})
        BY <1>0, <2>1, <2>2, NewOpStep
    <2>4. Durable!Write(issued') \/ Durable!Miss(issued')
        BY <2>2, <2>3 DEF NewOp, Durable!Write, Durable!Miss
    <2> QED
        BY <2>3, <2>4 DEF Durable!Next
<1>7. CASE Report
    <2>1. issued \in Replayed(file)
        BY <1>0, <1>7 DEF AtStep, Report
    <2>2. issued \in Ops
        BY <1>0, <2>1, BoundsAssumption DEF Issued, TypeOK, Ops
    <2>3. Durable!Ack(issued)
        BY <1>7, <2>1 DEF Report, Durable!Ack
    <2> QED
        BY <2>2, <2>3 DEF Durable!Next
<1>8. CASE PowerLoss
    <2>1. file' \in Recoverable
        BY <1>8 DEF PowerLoss, Recoverable
    <2>2. Safe(file')
        BY <1>0, <2>1 DEF AllSafe
    <2>3. Durable!Lose(Replayed(file')) /\ Replayed(file') \in SUBSET Replayed(file)
        BY <1>8, <2>2 DEF PowerLoss, Safe, Durable!Lose
    <2> QED
        BY <2>3 DEF Durable!Next
<1> QED
    BY <1>2, <1>3, <1>4, <1>5, <1>6, <1>7, <1>8 DEF Next

(***************************************************************************)
(* So Wal keeps DurableLog's promise for any number of operations, crashes *)
(* and compactions.                                                        *)
(***************************************************************************)
THEOREM WalImplementsDurableLog ==
    ASSUME FsyncCoversName PROVE Spec => ImplementsDurableLog
<1>1. Init => Durable!Init
    BY WalInitImplements
<1>2. IInv /\ [Next]_vars => [Durable!Next]_(Durable!vars)
    BY WalNextImplements
<1> QED
    BY <1>1, <1>2, InvHolds, PTL DEF Spec, ImplementsDurableLog, Durable!Spec
=============================================================================
