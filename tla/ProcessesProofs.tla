--------------------------- MODULE ProcessesProofs ---------------------------
(***************************************************************************)
(* Theorems about Processes, for any number of commands and operations.    *)
(*                                                                         *)
(* The invariant says what each command's memory and sequence number are   *)
(* worth against the file: as long as the file ends where the command      *)
(* believes it does, its memory is what the file replays to, so a record   *)
(* that fits is a record that is not stale (OneHistory).  Without damage   *)
(* no command repairs anything, and the file only grows (Undisturbed); when*)
(* the writers take turns it is in order at every moment, compactions      *)
(* included (InOrder).                                                     *)
(***************************************************************************)
EXTENDS Processes, WellFoundedInduction, NaturalsInduction, SequenceTheorems, TLAPS

-----------------------------------------------------------------------------
(***************************************************************************)
(* Lines.                                                                  *)
(***************************************************************************)
LEMMA LineType ==
    ASSUME NEW seq \in Nat, NEW ops \in SUBSET Ops
    PROVE  /\ Line(seq, ops) \in LogLine /\ Unterminated(Line(seq, ops)) \in LogLine
           /\ Damaged \in LogLine /\ Garbled \in LogLine
           /\ Parsed(Line(seq, ops)) /\ Parsed(Unterminated(Line(seq, ops)))
           /\ Unterminated(Line(seq, ops)).ops = ops /\ Unterminated(Line(seq, ops)).seq = seq
           /\ ~Parsed(Damaged) /\ ~Parsed(Garbled)
BY DEF Line, LogLine, Frames, Unparsable, Unterminated, Damaged, Garbled, Parsed

\* Every list of lines has a valid prefix and, if more follows, an invalid line
\* right behind it.
LEMMA GoodLenIs ==
    ASSUME NEW lines \in Seq(LogLine)
    PROVE  /\ GoodLen(lines) \in 0..Len(lines)
           /\ \A i \in 1..GoodLen(lines) : Valid(lines, i)
           /\ GoodLen(lines) < Len(lines) => ~Valid(lines, GoodLen(lines) + 1)
<1> DEFINE Good(n) == /\ \A i \in 1..n : Valid(lines, i)
                      /\ n < Len(lines) => ~Valid(lines, n + 1)
           S == {n \in Nat : n < Len(lines) /\ ~Valid(lines, n + 1)}
           R == OpToRel(<, Nat)
<1>1. Len(lines) \in Nat
  OBVIOUS
<1>2. \E n \in 0..Len(lines) : Good(n)
  <2>1. CASE S = {}
    <3>1. ASSUME NEW i \in 1..Len(lines) PROVE Valid(lines, i)
      <4>1. i - 1 \in Nat /\ i - 1 < Len(lines) /\ (i - 1) + 1 = i
        BY <1>1, <3>1
      <4> QED
        BY <2>1, <4>1
    <3> QED
      BY <1>1, <3>1
  <2>2. CASE S # {}
    <3>1. \A m, n \in Nat : <<m, n>> \in R <=> m < n
      BY DEF OpToRel
    <3>2. IsWellFoundedOn(R, Nat)
      BY NatLessThanWellFounded
    <3> HIDE DEF R
    <3>3. PICK n \in S : \A m \in S : <<m, n>> \notin R
      BY <2>2, <3>2, WFMin
    <3>4. n \in Nat /\ n < Len(lines) /\ ~Valid(lines, n + 1)
      BY <3>3
    <3>5. ASSUME NEW i \in 1..n PROVE Valid(lines, i)
      <4>1. i - 1 \in Nat /\ i - 1 < n /\ i - 1 < Len(lines) /\ (i - 1) + 1 = i
        BY <1>1, <3>4, <3>5
      <4>2. i - 1 \notin S
        BY <3>1, <3>3, <3>4, <4>1
      <4> QED
        BY <4>1, <4>2
    <3> QED
      BY <1>1, <3>4, <3>5
  <2> QED
    BY <2>1, <2>2
<1> HIDE DEF Good
<1>3. GoodLen(lines) = CHOOSE n \in 0..Len(lines) : Good(n)
  BY DEF GoodLen, Good
<1>4. GoodLen(lines) \in 0..Len(lines) /\ Good(GoodLen(lines))
  BY <1>2, <1>3
<1> QED
  BY <1>4 DEF Good

\* Where the valid prefix ends.
LEMMA GoodLenAtLeast ==
    ASSUME NEW lines \in Seq(LogLine), NEW n \in 0..Len(lines),
           \A i \in 1..n : Valid(lines, i)
    PROVE  n <= GoodLen(lines)
<1>1. GoodLen(lines) \in 0..Len(lines) /\ Len(lines) \in Nat
  BY GoodLenIs
<1>2. ASSUME GoodLen(lines) < n PROVE FALSE
  <2>1. GoodLen(lines) < Len(lines) /\ GoodLen(lines) + 1 \in 1..n
    BY <1>1, <1>2
  <2> QED
    BY <2>1, GoodLenIs
<1> QED
  BY <1>1, <1>2

LEMMA GoodLenBelow ==
    ASSUME NEW lines \in Seq(LogLine), NEW i \in 1..Len(lines), ~Valid(lines, i)
    PROVE  GoodLen(lines) < i
<1>1. GoodLen(lines) \in 0..Len(lines) /\ Len(lines) \in Nat
  BY GoodLenIs
<1>2. ASSUME i <= GoodLen(lines) PROVE FALSE
  <2>1. i \in 1..GoodLen(lines)
    BY <1>1, <1>2
  <2> QED
    BY <2>1, GoodLenIs
<1> QED
  BY <1>1, <1>2

\* The operations of the first n lines.
Upto(lines, n) == UNION {lines[j].ops : j \in 1..n}

\* What a repair may make of a list of lines: none becomes valid, and no
\* operation is new.
Repaired(old, new) ==
    /\ new \in Seq(LogLine)
    /\ GoodLen(new) <= GoodLen(old)
    /\ \A i \in 1..GoodLen(new) : new[i].ops = old[i].ops
    /\ \A i \in 1..Len(new) : new[i].ops \subseteq Upto(old, Len(old))

LEMMA RepairedBy ==
    ASSUME NEW old \in Seq(LogLine), NEW new \in Seq(LogLine),
           \A i \in 1..Len(new) :
               \/ new[i].ops = {} /\ ~Parsed(new[i])
               \/ i <= Len(old) /\ new[i].ops = old[i].ops
                                /\ (Parsed(new[i]) => Parsed(old[i]))
                                /\ new[i].seq = old[i].seq
    PROVE  Repaired(old, new)
<1>1. /\ Len(old) \in Nat /\ Len(new) \in Nat
      /\ GoodLen(old) \in 0..Len(old) /\ GoodLen(new) \in 0..Len(new)
  BY GoodLenIs
<1>2. ASSUME NEW i \in 1..GoodLen(new)
      PROVE  i \in 1..Len(old) /\ new[i].ops = old[i].ops /\ Valid(old, i)
  <2>1. i \in 1..Len(new) /\ Valid(new, i)
    BY <1>1, <1>2, GoodLenIs
  <2> QED
    BY <1>1, <2>1 DEF Valid
<1>3. GoodLen(new) <= GoodLen(old)
  <2>1. CASE GoodLen(new) = 0
    BY <1>1, <2>1
  <2>2. CASE GoodLen(new) # 0
    <3>1. GoodLen(new) \in 1..GoodLen(new)
      BY <1>1, <2>2
    <3>2. GoodLen(new) \in 0..Len(old)
      BY <1>1, <1>2, <3>1
    <3> QED
      BY <1>2, <3>2, GoodLenAtLeast
  <2> QED
    BY <2>1, <2>2
<1>4. \A i \in 1..Len(new) : new[i].ops \subseteq Upto(old, Len(old))
  BY <1>1 DEF Upto
<1> QED
  BY <1>2, <1>3, <1>4 DEF Repaired

LEMMA RepairedTwice ==
    ASSUME NEW old, NEW mid, NEW new, old \in Seq(LogLine),
           Repaired(old, mid), Repaired(mid, new)
    PROVE  Repaired(old, new)
<1>1. /\ mid \in Seq(LogLine) /\ new \in Seq(LogLine)
      /\ GoodLen(old) \in Nat /\ GoodLen(mid) \in Nat /\ GoodLen(new) \in Nat
  BY GoodLenIs DEF Repaired
<1>2. GoodLen(new) <= GoodLen(mid) /\ GoodLen(mid) <= GoodLen(old)
  BY DEF Repaired
<1>3. \A i \in 1..GoodLen(new) : new[i].ops = old[i].ops
  BY <1>1, <1>2 DEF Repaired
<1>4. Upto(mid, Len(mid)) \subseteq Upto(old, Len(old))
  BY DEF Repaired, Upto
<1>5. \A i \in 1..Len(new) : new[i].ops \subseteq Upto(old, Len(old))
  BY <1>4 DEF Repaired
<1> QED
  BY <1>1, <1>2, <1>3, <1>5 DEF Repaired

LEMMA NotEmpty ==
    ASSUME NEW lines \in Seq(LogLine), lines # <<>>
    PROVE  Len(lines) \in 1..Len(lines) /\ lines[Len(lines)] \in LogLine
<1>1. Len(lines) \in Nat \ {0}
  BY EmptySeq
<1>2. Len(lines) \in 1..Len(lines)
  BY <1>1
<1> QED
  BY <1>2, ElementOfSeq

\* The last line put in another state.
LEMMA RepairedLast ==
    ASSUME NEW lines \in Seq(LogLine), NEW k \in 1..Len(lines), NEW line \in LogLine,
           \/ line.ops = {} /\ ~Parsed(line)
           \/ line.ops = lines[k].ops /\ line.seq = lines[k].seq /\ (Parsed(line) => Parsed(lines[k]))
    PROVE  Repaired(lines, [lines EXCEPT ![k] = line])
<1> DEFINE new == [lines EXCEPT ![k] = line]
<1>1. /\ new \in Seq(LogLine) /\ Len(new) = Len(lines)
      /\ \A j \in 1..Len(lines) : new[j] = IF j = k THEN line ELSE lines[j]
  BY ExceptSeq
<1>2. Len(lines) \in Nat
  OBVIOUS
<1> HIDE DEF new
<1>3. ASSUME NEW i \in 1..Len(new)
      PROVE  \/ new[i].ops = {} /\ ~Parsed(new[i])
             \/ i <= Len(lines) /\ new[i].ops = lines[i].ops
                                /\ (Parsed(new[i]) => Parsed(lines[i]))
                                /\ new[i].seq = lines[i].seq
  <2>1. i \in 1..Len(lines) /\ i <= Len(lines)
    BY <1>1, <1>2, <1>3
  <2>2. CASE i = k
    <3>1. new[i] = line
      BY <1>1, <2>1, <2>2
    <3> QED
      BY <2>1, <2>2, <3>1
  <2>3. CASE i # k
    <3>1. new[i] = lines[i]
      BY <1>1, <2>1, <2>3
    <3> QED
      BY <2>1, <3>1
  <2> QED
    BY <2>2, <2>3
<1>4. Repaired(lines, new)
  BY <1>1, <1>3, RepairedBy
<1> QED
  BY <1>4 DEF new

\* A line that does not parse put after the others.
LEMMA RepairedAppend ==
    ASSUME NEW lines \in Seq(LogLine), NEW line \in LogLine, line.ops = {}, ~Parsed(line)
    PROVE  Repaired(lines, Append(lines, line))
<1> DEFINE new == Append(lines, line)
<1>1. /\ new \in Seq(LogLine) /\ Len(new) = Len(lines) + 1 /\ Len(lines) \in Nat
      /\ \A i \in 1..Len(lines) : new[i] = lines[i]
      /\ new[Len(lines) + 1] = line
  BY AppendProperties
<1> HIDE DEF new
<1>2. ASSUME NEW i \in 1..Len(new)
      PROVE  \/ new[i].ops = {} /\ ~Parsed(new[i])
             \/ i <= Len(lines) /\ new[i].ops = lines[i].ops
                                /\ (Parsed(new[i]) => Parsed(lines[i]))
                                /\ new[i].seq = lines[i].seq
  <2>1. CASE i = Len(lines) + 1
    BY <1>1, <2>1
  <2>2. CASE i # Len(lines) + 1
    <3>1. i \in 1..Len(lines) /\ i <= Len(lines)
      BY <1>1, <1>2, <2>2
    <3>2. new[i] = lines[i]
      BY <1>1, <3>1
    <3> QED
      BY <3>1, <3>2
  <2> QED
    BY <2>1, <2>2
<1>3. Repaired(lines, new)
  BY <1>1, <1>2, RepairedBy
<1> QED
  BY <1>3 DEF new

\* The first of them only.
LEMMA RepairedPrefix ==
    ASSUME NEW lines \in Seq(LogLine), NEW k \in 0..Len(lines)
    PROVE  /\ Repaired(lines, SubSeq(lines, 1, k))
           /\ SubSeq(lines, 1, k) \in Seq(LogLine) /\ Len(SubSeq(lines, 1, k)) = k
           /\ \A i \in 1..k : SubSeq(lines, 1, k)[i] = lines[i]
<1> DEFINE new == SubSeq(lines, 1, k)
<1>0. Len(lines) \in Nat /\ k \in Nat /\ k <= Len(lines)
  OBVIOUS
<1>1. \A i \in 1..k : lines[i] \in LogLine
  BY <1>0, ElementOfSeq
<1>2. /\ new \in Seq(LogLine) /\ Len(new) = IF 1 <= k THEN k - 1 + 1 ELSE 0
      /\ \A i \in 1..k - 1 + 1 : new[i] = lines[1 + i - 1]
  BY <1>0, <1>1, SubSeqProperties
<1> HIDE DEF new
<1>3. Len(new) = k /\ k - 1 + 1 = k
  BY <1>0, <1>2
<1>4. \A i \in 1..k : new[i] = lines[i]
  BY <1>0, <1>2
<1>5. Repaired(lines, new)
  BY <1>0, <1>2, <1>3, <1>4, RepairedBy
<1> QED
  BY <1>2, <1>3, <1>4, <1>5 DEF new

LEMMA ExtendIs ==
    ASSUME NEW lines \in Seq(LogLine), NEW line \in LogLine
    PROVE  /\ Extend(lines, line) \in Seq(LogLine)
           /\ EndsInNewline(lines) => Extend(lines, line) = Append(lines, line)
           /\ ~EndsInNewline(lines) => Repaired(lines, Extend(lines, line))
<1>1. CASE EndsInNewline(lines)
  <2>1. Extend(lines, line) = Append(lines, line)
    BY <1>1 DEF Extend
  <2> QED
    BY <1>1, <2>1, AppendProperties
<1>2. CASE ~EndsInNewline(lines)
  <2> DEFINE last == IF line.frame \in {"whole", "garbled"} THEN Garbled ELSE Damaged
  <2>1. Extend(lines, line) = [lines EXCEPT ![Len(lines)] = last]
    BY <1>2 DEF Extend
  <2>2. Len(lines) \in 1..Len(lines)
    BY <1>2, NotEmpty DEF EndsInNewline
  <2>3. last \in LogLine /\ last.ops = {} /\ ~Parsed(last)
    BY DEF Garbled, Damaged, LogLine, Frames, Parsed, Unparsable
  <2> HIDE DEF last
  <2>4. Repaired(lines, [lines EXCEPT ![Len(lines)] = last])
    BY <2>2, <2>3, RepairedLast
  <2> QED
    BY <1>2, <2>1, <2>4 DEF Repaired
<1> QED
  BY <1>1, <1>2

LEMMA DamagedExtends ==
    ASSUME NEW lines \in Seq(LogLine)
    PROVE  Repaired(lines, Extend(lines, Damaged))
<1>1. Damaged \in LogLine /\ Damaged.ops = {} /\ ~Parsed(Damaged)
  BY DEF Damaged, LogLine, Frames, Parsed, Unparsable
<1>2. Extend(lines, Damaged) = Append(lines, Damaged) \/ Repaired(lines, Extend(lines, Damaged))
  BY <1>1, ExtendIs
<1> QED
  BY <1>1, <1>2, RepairedAppend

LEMMA TerminatedIs ==
    ASSUME NEW lines \in Seq(LogLine)
    PROVE  Repaired(lines, Terminated(lines))
<1>1. Garbled \in LogLine /\ Garbled.ops = {} /\ ~Parsed(Garbled)
  BY DEF Garbled, LogLine, Frames, Parsed, Unparsable
<1>2. CASE EndsInNewline(lines)
  BY <1>1, <1>2, RepairedAppend DEF Terminated
<1>3. CASE ~EndsInNewline(lines)
  <2> DEFINE line == lines[Len(lines)]
             last == IF Parsed(line) THEN [line EXCEPT !.frame = "whole"] ELSE Garbled
  <2>1. Terminated(lines) = [lines EXCEPT ![Len(lines)] = last]
    BY <1>3 DEF Terminated
  <2>2. Len(lines) \in 1..Len(lines) /\ line \in LogLine
    BY <1>3, NotEmpty DEF EndsInNewline
  <2>3. /\ last \in LogLine
        /\ \/ last.ops = {} /\ ~Parsed(last)
           \/ last.ops = line.ops /\ last.seq = line.seq /\ (Parsed(last) => Parsed(line))
    BY <1>1, <2>2 DEF LogLine, Frames
  <2> HIDE DEF last
  <2>4. Repaired(lines, [lines EXCEPT ![Len(lines)] = last])
    BY <2>2, <2>3, RepairedLast
  <2> QED
    BY <2>1, <2>4
<1> QED
  BY <1>2, <1>3

LEMMA UnterminatedIs ==
    ASSUME NEW line \in LogLine
    PROVE  /\ Unterminated(line) \in LogLine
           /\ Unterminated(line).ops = line.ops /\ Unterminated(line).seq = line.seq
BY DEF Unterminated, LogLine, Frames

LEMMA TruncatedIs ==
    ASSUME NEW lines \in Seq(LogLine), NEW prefix \in Seq(LogLine), NEW new \in Truncated(lines, prefix)
    PROVE  Repaired(lines, new)
<1>1. Len(lines) \in Nat /\ Len(prefix) \in Nat
  OBVIOUS
<1>2. CASE Begins(lines, prefix)
  <2>1. new = prefix
    BY <1>2 DEF Truncated
  <2>2. ASSUME NEW i \in 1..Len(prefix)
        PROVE  /\ i <= Len(lines) /\ prefix[i].ops = lines[i].ops
               /\ Parsed(prefix[i]) => Parsed(lines[i])
               /\ prefix[i].seq = lines[i].seq
    <3>1. i \in 1..Len(lines)
      BY <1>1, <1>2 DEF Begins
    <3>2. lines[i] \in LogLine
      BY <3>1, ElementOfSeq
    <3>3. prefix[i] = lines[i] \/ (Parsed(lines[i]) /\ prefix[i] = Unterminated(lines[i]))
      BY <1>2 DEF Begins
    <3> QED
      BY <1>1, <3>1, <3>2, <3>3, UnterminatedIs
  <2> QED
    BY <2>1, <2>2, RepairedBy
<1>3. CASE ~Begins(lines, prefix)
  <2>1. PICK k \in 0..Len(lines) :
           LET kept == SubSeq(lines, 1, k)
           IN  new \in {kept, Extend(kept, Damaged)} \cup
                        IF k > 0 /\ Parsed(lines[k])
                        THEN {[kept EXCEPT ![k] = Unterminated(lines[k])]} ELSE {}
    BY <1>3 DEF Truncated
  <2> DEFINE kept == SubSeq(lines, 1, k)
  <2>2. /\ Repaired(lines, kept) /\ kept \in Seq(LogLine) /\ Len(kept) = k
        /\ \A i \in 1..k : kept[i] = lines[i]
    BY RepairedPrefix
  <2>3. \/ new = kept
        \/ new = Extend(kept, Damaged)
        \/ k > 0 /\ Parsed(lines[k]) /\ new = [kept EXCEPT ![k] = Unterminated(lines[k])]
    BY <2>1
  <2> HIDE DEF kept
  <2>4. CASE new = kept
    BY <2>2, <2>4
  <2>5. CASE new = Extend(kept, Damaged)
    <3>1. Repaired(kept, new)
      BY <2>2, <2>5, DamagedExtends
    <3> QED
      BY <2>2, <3>1, RepairedTwice
  <2>6. CASE k > 0 /\ Parsed(lines[k]) /\ new = [kept EXCEPT ![k] = Unterminated(lines[k])]
    <3>1. k \in 1..k /\ k \in 1..Len(lines)
      BY <1>1, <2>6
    <3>2. kept[k] = lines[k] /\ lines[k] \in LogLine
      BY <2>2, <3>1, ElementOfSeq
    <3>3. k \in 1..Len(kept)
      BY <2>2, <3>1
    <3> DEFINE line == Unterminated(lines[k])
    <3>4. line \in LogLine /\ line.ops = kept[k].ops /\ line.seq = kept[k].seq
      BY <3>2, UnterminatedIs
    <3>5. Parsed(kept[k]) /\ new = [kept EXCEPT ![k] = line]
      BY <2>6, <3>2
    <3> HIDE DEF line
    <3>6. Repaired(kept, [kept EXCEPT ![k] = line])
      BY <2>2, <3>3, <3>4, <3>5, RepairedLast
    <3> QED
      BY <2>2, <3>5, <3>6, RepairedTwice
  <2> QED
    BY <2>3, <2>4, <2>5, <2>6
<1> QED
  BY <1>2, <1>3

\* What a write of a whole record adds: its operations are replayed only if
\* the lines before it all are, and its number fits.
OneMore(lines, new, line) ==
    /\ new \in Seq(LogLine) /\ Len(new) = Len(lines) + 1
    /\ GoodLen(new) = IF GoodLen(lines) = Len(lines) /\ Parsed(line) /\ line.seq = Len(new)
                      THEN Len(new) ELSE GoodLen(lines)
    /\ \A n \in 0..Len(lines) : Upto(new, n) = Upto(lines, n)
    /\ Upto(new, Len(new)) = Upto(lines, Len(lines)) \cup line.ops
    /\ \A i \in 1..Len(lines) : new[i] = lines[i]
    /\ new[Len(new)] = line

LEMMA OneMoreLine ==
    ASSUME NEW lines \in Seq(LogLine), NEW new \in Seq(LogLine), Len(new) = Len(lines) + 1,
           \A i \in 1..Len(lines) : new[i] = lines[i],
           NEW line, new[Len(new)] = line
    PROVE  /\ GoodLen(new) = IF GoodLen(lines) = Len(lines) /\ Parsed(line) /\ line.seq = Len(new)
                             THEN Len(new) ELSE GoodLen(lines)
           /\ \A n \in 0..Len(lines) : Upto(new, n) = Upto(lines, n)
           /\ Upto(new, Len(new)) = Upto(lines, Len(lines)) \cup line.ops
<1>1. Len(lines) \in Nat /\ Len(new) \in Nat
  OBVIOUS
<1>2. /\ GoodLen(lines) \in 0..Len(lines) /\ GoodLen(new) \in 0..Len(new)
      /\ GoodLen(lines) \in 0..Len(new)
      /\ \A i \in 1..GoodLen(lines) : Valid(lines, i)
  BY <1>1, GoodLenIs
<1>3. \A i \in 1..Len(lines) : Valid(new, i) = Valid(lines, i)
  BY <1>1 DEF Valid
<1>4. \A i \in 1..GoodLen(lines) : Valid(new, i)
  BY <1>1, <1>2, <1>3
<1>5. GoodLen(lines) <= GoodLen(new)
  BY <1>1, <1>2, <1>4, GoodLenAtLeast
<1>6. GoodLen(new) = IF GoodLen(lines) = Len(lines) /\ Parsed(line) /\ line.seq = Len(new)
                     THEN Len(new) ELSE GoodLen(lines)
  <2>1. CASE GoodLen(lines) < Len(lines)
    <3>1. GoodLen(lines) + 1 \in 1..Len(lines) /\ ~Valid(lines, GoodLen(lines) + 1)
      BY <1>1, <1>2, <2>1, GoodLenIs
    <3>2. GoodLen(lines) + 1 \in 1..Len(new) /\ ~Valid(new, GoodLen(lines) + 1)
      BY <1>1, <1>3, <3>1
    <3>3. GoodLen(new) < GoodLen(lines) + 1
      BY <1>1, <3>2, GoodLenBelow
    <3> QED
      BY <1>1, <1>2, <1>5, <2>1, <3>3
  <2>2. CASE GoodLen(lines) = Len(lines) /\ Valid(new, Len(new))
    <3>1. \A i \in 1..Len(new) : Valid(new, i)
      BY <1>1, <1>4, <2>2
    <3>2. Len(new) \in 0..Len(new)
      BY <1>1
    <3>3. Len(new) <= GoodLen(new)
      BY <1>1, <3>1, <3>2, GoodLenAtLeast
    <3> QED
      BY <1>1, <1>2, <2>2, <3>3 DEF Valid
  <2>3. CASE GoodLen(lines) = Len(lines) /\ ~Valid(new, Len(new))
    <3>1. Len(new) \in 1..Len(new)
      BY <1>1
    <3>2. GoodLen(new) < Len(new)
      BY <1>1, <2>3, <3>1, GoodLenBelow
    <3> QED
      BY <1>1, <1>2, <1>5, <2>3, <3>2 DEF Valid
  <2> QED
    BY <1>1, <1>2, <2>1, <2>2, <2>3
<1>7. ASSUME NEW n \in 0..Len(lines) PROVE Upto(new, n) = Upto(lines, n)
  BY <1>1 DEF Upto
<1>8. Upto(new, Len(new)) = Upto(lines, Len(lines)) \cup line.ops
  <2>1. 1..Len(new) = 1..Len(lines) \cup {Len(new)}
    BY <1>1
  <2>2. \A x : (\E i \in 1..Len(new) : x \in new[i].ops)
                 <=> (\E i \in 1..Len(lines) : x \in lines[i].ops) \/ x \in line.ops
    BY <1>1, <2>1
  <2> QED
    BY <2>2 DEF Upto
<1> QED
  BY <1>6, <1>7, <1>8

LEMMA AppendIs ==
    ASSUME NEW lines \in Seq(LogLine), NEW line \in LogLine
    PROVE  OneMore(lines, Append(lines, line), line)
<1> DEFINE new == Append(lines, line)
<1>1. /\ new \in Seq(LogLine) /\ Len(new) = Len(lines) + 1
      /\ \A i \in 1..Len(lines) : new[i] = lines[i]
      /\ new[Len(lines) + 1] = line
  BY AppendProperties
<1> HIDE DEF new
<1>2. new[Len(new)] = line
  BY <1>1
<1>3. OneMore(lines, new, line)
  BY <1>1, <1>2, OneMoreLine DEF OneMore
<1> QED
  BY <1>3 DEF new

LEMMA OverwrittenIs ==
    ASSUME NEW lines \in Seq(LogLine), NEW line \in LogLine, NEW new \in Overwritten(lines, line)
    PROVE  new \in Seq(LogLine) /\ (lines = <<>> => new = <<line>>)
<1>1. CASE lines = <<>>
  <2>1. new = <<line>>
    BY <1>1 DEF Overwritten
  <2>2. <<line>> \in Seq(LogLine)
    OBVIOUS
  <2> QED
    BY <2>1, <2>2
<1>2. CASE lines # <<>>
  <2>1. PICK k \in 2..Len(lines) + 1 :
           LET behind == SubSeq(lines, k, Len(lines))
           IN  new \in {<<line>> \o behind, <<line, Garbled>> \o behind}
    BY <1>2 DEF Overwritten
  <2>2. Garbled \in LogLine /\ Len(lines) \in Nat
    BY DEF Garbled, LogLine, Frames, Unparsable
  <2>3. <<line>> \in Seq(LogLine) /\ <<line, Garbled>> \in Seq(LogLine)
    BY <2>2
  <2>4. k \in Int /\ Len(lines) \in Int /\ \A i \in k..Len(lines) : lines[i] \in LogLine
    BY <2>2, ElementOfSeq
  <2>5. SubSeq(lines, k, Len(lines)) \in Seq(LogLine)
    BY <2>4, SubSeqProperties
  <2>6. \/ new = <<line>> \o SubSeq(lines, k, Len(lines))
        \/ new = <<line, Garbled>> \o SubSeq(lines, k, Len(lines))
    BY <2>1
  <2>7. new \in Seq(LogLine)
    BY <2>3, <2>5, <2>6, ConcatProperties
  <2> QED
    BY <1>2, <2>7
<1> QED
  BY <1>1, <1>2

LEMMA ReplayedIs ==
    ASSUME NEW lines \in Seq(LogLine)
    PROVE  /\ GoodLen(lines) \in Nat /\ GoodLen(lines) + 1 \in Nat \ {0}
           /\ SubSeq(lines, 1, GoodLen(lines)) \in Seq(LogLine)
           /\ Replayed(lines) = Upto(lines, GoodLen(lines))
           /\ Replayed(lines) \in SUBSET Ops
<1>1. GoodLen(lines) \in 0..Len(lines) /\ Len(lines) \in Nat
  BY GoodLenIs
<1>2. SubSeq(lines, 1, GoodLen(lines)) \in Seq(LogLine)
  BY <1>1, RepairedPrefix
<1>3. \A i \in 1..GoodLen(lines) : lines[i] \in LogLine
  BY <1>1, ElementOfSeq
<1>4. \A i \in 1..GoodLen(lines) : lines[i].ops \subseteq Ops
  BY <1>3 DEF LogLine
<1>5. Replayed(lines) \in SUBSET Ops
  BY <1>4 DEF Replayed
<1> QED
  BY <1>1, <1>2, <1>5 DEF Replayed, Upto

-----------------------------------------------------------------------------
(***************************************************************************)
(* Types, and which command can be at which system call.                   *)
(***************************************************************************)
Up(p) == pc[p] # "down"

Appending == {"writing", "sync", "report"}

Compacting == {"snapshot", "writingsnapshot", "rename", "reopen"}

FilesTyped == files \in [Files -> Seq(LogLine)]

NamesTyped ==
    /\ log \in Files /\ compacting \in (Files \ {log}) \cup {0}
    /\ log <= rewrites + 1 /\ compacting <= rewrites + 1

ProcsTyped ==
    /\ pc \in [Procs -> Steps]
    /\ handle \in [Procs -> Files \cup {0}]
    /\ good \in [Procs -> Seq(LogLine)]
    /\ nextSeq \in [Procs -> Nat]
    /\ mem \in [Procs -> SUBSET Ops]
    /\ op \in [Procs -> Ops \cup {0}]

UserTyped == issued \in Ops /\ acked \in SUBSET Ops /\ base \in [Ops -> SUBSET Ops]

BoundsTyped == use \in Uses /\ rewrites \in 0..use.rewrites /\ cuts \in 0..use.cuts

RolesKept ==
    \A p \in Procs :
        /\ pc[p] \in Appending => p \in Appenders /\ op[p] \in 1..issued
        /\ pc[p] \in Compacting => p \in Compacters
        /\ pc[p] \in {"ready", "snapshot", "writingsnapshot", "rename"} \cup Appending => handle[p] # 0
        /\ Up(p) => nextSeq[p] # 0

Typed ==
    /\ FilesTyped /\ NamesTyped /\ ProcsTyped /\ UserTyped /\ BoundsTyped
    /\ RolesKept

LEMMA TypedIsTypeOK == Typed => TypeOK
BY DEF Typed, FilesTyped, NamesTyped, ProcsTyped, UserTyped, BoundsTyped, TypeOK

LEMMA BoundTypes ==
    ASSUME BoundsTyped
    PROVE  /\ use.turns \in BOOLEAN /\ use.torn \in BOOLEAN
           /\ use.ops \in Ops /\ use.rewrites \in 0..MaxRewrites /\ use.cuts \in Nat
           /\ MaxRewrites \in Nat /\ MaxOps \in Nat
           /\ rewrites \in Nat /\ cuts \in Nat
<1>1. use \in Use /\ MaxRewrites \in Nat /\ MaxOps \in Nat
  BY UsesAssumption DEF BoundsTyped
<1>2. /\ use.turns \in BOOLEAN /\ use.torn \in BOOLEAN
      /\ use.ops \in Ops /\ use.rewrites \in 0..MaxRewrites /\ use.cuts \in Nat
  BY <1>1 DEF Use
<1> QED
  BY <1>1, <1>2 DEF BoundsTyped

LEMMA InitTyped == Init => Typed
<1> SUFFICES ASSUME Init PROVE Typed
  OBVIOUS
<1>1. use \in Use /\ MaxRewrites \in Nat /\ MaxOps \in Nat
  BY UsesAssumption DEF Init
<1>2. use.ops \in Ops /\ use.rewrites \in 0..MaxRewrites /\ use.cuts \in Nat
  BY <1>1 DEF Use
<1>3. 1 \in Ops /\ 1 \in Files
  BY <1>1, <1>2 DEF Ops, Files
<1>4. BoundsTyped
  BY <1>1, <1>2 DEF Init, BoundsTyped
<1>5. FilesTyped
  <2>1. Line(1, {1}) \in LogLine
    BY <1>3, LineType
  <2>2. <<Line(1, {1})>> \in Seq(LogLine)
    BY <2>1
  <2> QED
    BY <2>2 DEF Init, FilesTyped
<1>6. NamesTyped
  BY <1>1, <1>3 DEF Init, NamesTyped
<1>7. ProcsTyped
  BY DEF Init, ProcsTyped, Steps
<1>8. UserTyped
  BY <1>3 DEF Init, UserTyped
<1>9. RolesKept
  BY DEF Init, RolesKept, Appending, Compacting, Up
<1> QED
  BY <1>4, <1>5, <1>6, <1>7, <1>8, <1>9 DEF Typed

\* What a read may take for the log is a list of lines.
LEMMA SeenIs ==
    ASSUME Typed, NEW lines \in Seen(log)
    PROVE  /\ lines \in Seq(LogLine)
           /\ \/ lines = Lines
              \/ use.torn /\ \E q \in Appenders : pc[q] = "writing"
<1>1. Lines \in Seq(LogLine)
  BY DEF Typed, FilesTyped, NamesTyped, Lines
<1>2. CASE lines = Lines
  BY <1>1, <1>2
<1>3. CASE lines # Lines
  <2>1. PICK q \in Appenders :
           /\ use.torn /\ Writing(q, log)
           /\ lines \in {Extend(files[log], Damaged), Extend(files[log], Unterminated(Record(q)))}
    BY <1>3 DEF Seen, Lines
  <2>2. q \in Procs
    BY DEF Procs, Writers
  <2>3. pc[q] = "writing" /\ q \notin Compacters
    BY <2>1, <2>2, RolesAssumption DEF Typed, RolesKept, Writing, Compacting
  <2>4. op[q] \in Ops /\ nextSeq[q] \in Nat
    <3>1. op[q] \in 1..issued /\ issued \in Ops
      BY <2>2, <2>3 DEF Typed, RolesKept, UserTyped, Appending
    <3>2. MaxOps \in Nat
      BY UsesAssumption
    <3> QED
      BY <2>2, <3>1, <3>2 DEF Typed, ProcsTyped, Ops
  <2>5. Damaged \in LogLine /\ Unterminated(Record(q)) \in LogLine
    BY <2>4, LineType DEF Record
  <2>6. lines \in Seq(LogLine)
    BY <1>1, <2>1, <2>5, ExtendIs DEF Lines
  <2> QED
    BY <2>1, <2>3, <2>6
<1> QED
  BY <1>2, <1>3

LEMMA RecordIs ==
    ASSUME Typed, NEW p \in Procs, pc[p] \in Appending
    PROVE  /\ p \in Appenders /\ op[p] \in Ops /\ op[p] \in 1..issued /\ nextSeq[p] \in Nat
           /\ Record(p) \in LogLine /\ Unterminated(Record(p)) \in LogLine /\ Damaged \in LogLine
<1>1. p \in Appenders /\ op[p] \in 1..issued /\ issued \in Ops
  BY DEF Typed, RolesKept, UserTyped
<1>2. MaxOps \in Nat
  BY UsesAssumption
<1>3. op[p] \in Ops /\ nextSeq[p] \in Nat
  BY <1>1, <1>2 DEF Typed, ProcsTyped, Ops
<1> QED
  BY <1>1, <1>3, LineType DEF Record

\* A command that has ended is at no system call and has no file.
LEMMA EndedTyped ==
    ASSUME Typed, NEW p \in Procs, Ended(p), issued' = issued
    PROVE  ProcsTyped' /\ RolesKept'
<1>1. 0 \in Files \cup {0} /\ <<>> \in Seq(LogLine) /\ "down" \in Steps
  BY DEF Steps
<1>2. ProcsTyped'
  BY <1>1 DEF Typed, ProcsTyped, Ended
<1>3. RolesKept'
  BY DEF Typed, ProcsTyped, RolesKept, Ended, Up, Appending, Compacting
<1> QED
  BY <1>2, <1>3

LEMMA ReadTyped ==
    ASSUME Typed, NEW p \in Procs, NEW step, Read(p, step)
    PROVE  ProcsTyped' /\ RolesKept'
<1>1. PICK lines \in Seen(log) :
         /\ good' = [good EXCEPT ![p] = SubSeq(lines, 1, GoodLen(lines))]
         /\ nextSeq' = [nextSeq EXCEPT ![p] = GoodLen(lines) + 1]
         /\ mem' = IF step = "reopen" THEN mem ELSE [mem EXCEPT ![p] = Replayed(lines)]
         /\ Goto(p, IF Torn(lines) THEN "truncate" ELSE "openfile")
         /\ UNCHANGED <<handle, op, issued>>
  BY DEF Read, userVars
<1>2. lines \in Seq(LogLine)
  BY SeenIs
<1>3. /\ GoodLen(lines) + 1 \in Nat \ {0} /\ Replayed(lines) \in SUBSET Ops
      /\ SubSeq(lines, 1, GoodLen(lines)) \in Seq(LogLine)
  BY <1>2, ReplayedIs
<1> DEFINE prefix == SubSeq(lines, 1, GoodLen(lines))
           number == GoodLen(lines) + 1
           found == Replayed(lines)
           torn == Torn(lines)
<1>4. /\ good' = [good EXCEPT ![p] = prefix] /\ nextSeq' = [nextSeq EXCEPT ![p] = number]
      /\ mem' = IF step = "reopen" THEN mem ELSE [mem EXCEPT ![p] = found]
      /\ pc' = [pc EXCEPT ![p] = IF torn THEN "truncate" ELSE "openfile"]
      /\ prefix \in Seq(LogLine) /\ number \in Nat \ {0} /\ found \in SUBSET Ops
  BY <1>1, <1>3 DEF Goto
<1> HIDE DEF prefix, number, found, torn
<1>5. ProcsTyped'
  <2>1. mem \in [Procs -> SUBSET Ops] /\ [mem EXCEPT ![p] = found] \in [Procs -> SUBSET Ops]
    BY <1>4 DEF Typed, ProcsTyped
  <2>2. mem' \in [Procs -> SUBSET Ops]
    BY <1>4, <2>1
  <2>3. /\ pc' \in [Procs -> Steps] /\ good' \in [Procs -> Seq(LogLine)]
        /\ nextSeq' \in [Procs -> Nat]
    BY <1>4 DEF Typed, ProcsTyped, Steps
  <2> QED
    BY <1>1, <2>2, <2>3 DEF Typed, ProcsTyped
<1>6. RolesKept'
  BY <1>1, <1>4 DEF Typed, ProcsTyped, RolesKept, Up, Appending, Compacting
<1> QED
  BY <1>5, <1>6

LEMMA PutTyped ==
    ASSUME Typed, NEW p \in Procs, NEW line \in LogLine, Put(p, line)
    PROVE  FilesTyped'
<1>1. CASE handle[p] \in Files
  <2>1. files[handle[p]] \in Seq(LogLine)
    BY <1>1 DEF Typed, FilesTyped
  <2>2. Extend(files[handle[p]], line) \in Seq(LogLine)
    BY <2>1, ExtendIs
  <2> QED
    BY <2>2 DEF Typed, FilesTyped, Put
<1>2. CASE handle[p] \notin Files
  BY <1>2 DEF Typed, FilesTyped, Put
<1> QED
  BY <1>1, <1>2

\* Where a compaction writes its snapshot.
LEMMA SnapshotIs ==
    ASSUME Typed, NEW p \in Procs, pc[p] \in {"snapshot", "writingsnapshot"}
    PROVE  /\ Snapshot(p) \in LogLine /\ Unterminated(Snapshot(p)) \in LogLine
           /\ Damaged \in LogLine /\ Garbled \in LogLine
           /\ handle[p] \in Files /\ files[handle[p]] \in Seq(LogLine)
<1>1. mem[p] \in SUBSET Ops /\ handle[p] \in Files
  BY DEF Typed, ProcsTyped, RolesKept
<1> QED
  BY <1>1, LineType DEF Snapshot, Typed, FilesTyped

LEMMA TypedStep == Typed /\ [Next]_vars => Typed'
<1> SUFFICES ASSUME Typed, [Next]_vars PROVE Typed'
  OBVIOUS
<1>1. /\ FilesTyped /\ NamesTyped /\ ProcsTyped /\ UserTyped /\ BoundsTyped /\ RolesKept
      /\ Lines \in Seq(LogLine) /\ log \in Files
  BY DEF Typed, FilesTyped, NamesTyped, Lines
<1>2. /\ use.ops \in Ops /\ use.rewrites \in 0..MaxRewrites /\ use.cuts \in Nat
      /\ MaxRewrites \in Nat /\ MaxOps \in Nat /\ rewrites \in Nat /\ cuts \in Nat
  BY <1>1, BoundTypes
<1>3. ASSUME NEW f, NEW lines \in Seq(LogLine), files' = [files EXCEPT ![f] = lines]
      PROVE  FilesTyped'
  BY <1>1, <1>3 DEF FilesTyped
<1>4. UNCHANGED files => FilesTyped'
  BY <1>1 DEF FilesTyped
<1>5. UNCHANGED <<nameVars, rewrites>> => NamesTyped'
  BY <1>1 DEF NamesTyped, nameVars
<1>6. UNCHANGED userVars => UserTyped'
  BY <1>1 DEF UserTyped, userVars
<1>7. UNCHANGED bounds => BoundsTyped'
  BY <1>1 DEF BoundsTyped, bounds
<1>8. ASSUME NEW p \in Procs, NEW step, Read(p, step)
      PROVE  Typed'
  <2>1. UNCHANGED <<files, nameVars, userVars, bounds, rewrites>>
    BY <1>8 DEF Read, bounds
  <2> QED
    BY <1>4, <1>5, <1>6, <1>7, <1>8, <2>1, ReadTyped DEF Typed
<1>9. ASSUME NEW p \in Procs, Truncate(p) PROVE Typed'
  <2>1. PICK lines \in Truncated(files[log], good[p]) : files' = [files EXCEPT ![log] = lines]
    BY <1>9 DEF Truncate
  <2>2. good[p] \in Seq(LogLine)
    BY <1>1 DEF ProcsTyped
  <2>3. lines \in Seq(LogLine)
    BY <1>1, <2>2, TruncatedIs DEF Repaired, Lines
  <2>4. FilesTyped'
    BY <1>3, <2>1, <2>3
  <2>5. UNCHANGED <<nameVars, procVars, userVars, bounds, rewrites>>
    BY <1>9 DEF Truncate, bounds
  <2>6. ProcsTyped'
    BY <1>1, <1>9, <2>5 DEF Truncate, ProcsTyped, Goto, Steps, procVars
  <2>7. RolesKept'
    BY <1>1, <1>9, <2>5
       DEF Truncate, ProcsTyped, RolesKept, Up, At, Goto, Appending, Compacting, procVars, userVars
  <2> QED
    BY <1>5, <1>6, <1>7, <2>4, <2>5, <2>6, <2>7 DEF Typed
<1>10. ASSUME NEW p \in Procs, Terminate(p) PROVE Typed'
  <2>1. Terminated(files[log]) \in Seq(LogLine)
    BY <1>1, TerminatedIs DEF Repaired, Lines
  <2>2. FilesTyped'
    BY <1>3, <1>10, <2>1 DEF Terminate
  <2>3. UNCHANGED <<nameVars, procVars, userVars, bounds, rewrites>>
    BY <1>10 DEF Terminate, bounds
  <2>4. ProcsTyped'
    BY <1>1, <1>10, <2>3 DEF Terminate, ProcsTyped, Goto, Steps, procVars
  <2>5. RolesKept'
    BY <1>1, <1>10, <2>3
       DEF Terminate, ProcsTyped, RolesKept, Up, At, Goto, Appending, Compacting, procVars, userVars
  <2> QED
    BY <1>5, <1>6, <1>7, <2>2, <2>3, <2>4, <2>5 DEF Typed
<1>11. ASSUME NEW p \in Procs, OpenFile(p) PROVE Typed'
  <2>1. UNCHANGED <<files, nameVars, userVars, bounds, rewrites>>
    BY <1>11 DEF OpenFile, bounds
  <2>2. ProcsTyped'
    BY <1>1, <1>11 DEF OpenFile, ProcsTyped, Goto, Steps
  <2>3. log # 0
    BY <1>1 DEF Files
  <2>4. RolesKept'
    BY <1>1, <1>11, <2>3
       DEF OpenFile, ProcsTyped, RolesKept, Up, At, Goto, Appending, Compacting, userVars
  <2> QED
    BY <1>4, <1>5, <1>6, <1>7, <2>1, <2>2, <2>4 DEF Typed
<1>12. ASSUME NEW p \in Procs, Write(p) PROVE Typed'
  <2>1. UNCHANGED <<files, nameVars, bounds, rewrites>> /\ p \in Appenders
    BY <1>12 DEF Write, bounds
  <2>2. issued \in Nat \ {0} /\ issued' = issued + 1 /\ issued' \in Ops
    BY <1>1, <1>2, <1>12 DEF Write, UserTyped, Ops
  <2>3. UserTyped'
    BY <1>1, <1>12, <2>2 DEF Write, UserTyped, ProcsTyped
  <2>4. ProcsTyped'
    BY <1>1, <1>12, <2>2 DEF Write, ProcsTyped, Goto, Steps
  <2>5. \A o : o \in 1..issued => o \in 1..issued'
    BY <2>2
  <2>6. issued' \in 1..issued'
    BY <2>2
  <2>7. RolesKept'
    BY <1>1, <1>12, <2>5, <2>6
       DEF Write, ProcsTyped, RolesKept, Up, At, Goto, Appending, Compacting
  <2> QED
    BY <1>4, <1>5, <1>7, <2>1, <2>3, <2>4, <2>7 DEF Typed
<1>13. ASSUME NEW p \in Procs, WriteDone(p) PROVE Typed'
  <2>1. At(p, "writing") /\ Put(p, Record(p))
    BY <1>13 DEF WriteDone, Written
  <2>2. FilesTyped'
    BY <2>1, RecordIs, PutTyped DEF At, Appending
  <2>3. UNCHANGED <<nameVars, procVars, userVars, bounds, rewrites>>
    BY <1>13 DEF WriteDone, bounds
  <2>4. ProcsTyped'
    BY <1>1, <1>13, <2>3 DEF WriteDone, ProcsTyped, Goto, Steps, procVars
  <2>5. RolesKept'
    BY <1>1, <1>13, <2>3
       DEF WriteDone, ProcsTyped, RolesKept, Up, At, Goto, Appending, Compacting, procVars, userVars
  <2> QED
    BY <1>5, <1>6, <1>7, <2>2, <2>3, <2>4, <2>5 DEF Typed
<1>14. ASSUME NEW p \in Procs, WriteCutShort(p) PROVE Typed'
  <2>1. /\ pc[p] \in Appending /\ Ended(p) /\ cuts < use.cuts /\ cuts' = cuts + 1
        /\ UNCHANGED <<nameVars, userVars, rewrites, use>>
    BY <1>14 DEF WriteCutShort, At, Appending
  <2>2. Put(p, Damaged) \/ Put(p, Unterminated(Record(p)))
    BY <1>14 DEF WriteCutShort
  <2>3. FilesTyped'
    BY <2>1, <2>2, RecordIs, PutTyped
  <2>4. BoundsTyped'
    BY <1>1, <1>2, <2>1 DEF BoundsTyped
  <2>5. issued' = issued
    BY <2>1 DEF userVars
  <2>6. ProcsTyped' /\ RolesKept'
    BY <2>1, <2>5, EndedTyped
  <2> QED
    BY <1>5, <1>6, <2>1, <2>3, <2>4, <2>6 DEF Typed
<1>15. ASSUME NEW p \in Procs, Sync(p) PROVE Typed'
  <2>1. UNCHANGED <<files, nameVars, userVars, bounds, rewrites>>
    BY <1>15 DEF Sync, bounds
  <2>2. op[p] \in Ops /\ nextSeq[p] + 1 \in Nat \ {0}
    BY <1>15, RecordIs DEF Sync, At, Appending
  <2>3. ProcsTyped'
    BY <1>1, <1>15, <2>2 DEF Sync, ProcsTyped, Goto, Steps
  <2> DEFINE next == nextSeq[p] + 1
  <2>4. next # 0 /\ nextSeq' = [nextSeq EXCEPT ![p] = next]
    BY <1>15, <2>2 DEF Sync
  <2> HIDE DEF next
  <2>5. RolesKept'
    BY <1>1, <1>15, <2>4 DEF Sync, ProcsTyped, RolesKept, Up, At, Goto, Appending, Compacting, userVars
  <2> QED
    BY <1>4, <1>5, <1>6, <1>7, <2>1, <2>3, <2>5 DEF Typed
<1>16. ASSUME NEW p \in Procs, Report(p) PROVE Typed'
  <2>1. UNCHANGED <<files, nameVars, procVars, issued, base, bounds, rewrites>>
    BY <1>16 DEF Report, bounds
  <2>2. op[p] \in Ops
    BY <1>16, RecordIs DEF Report, At, Appending
  <2>3. UserTyped'
    BY <1>1, <1>16, <2>1, <2>2 DEF Report, UserTyped
  <2>4. ProcsTyped'
    BY <1>1, <1>16, <2>1 DEF Report, ProcsTyped, Goto, Steps, procVars
  <2>5. RolesKept'
    BY <1>1, <1>16, <2>1
       DEF Report, ProcsTyped, RolesKept, Up, At, Goto, Appending, Compacting, procVars
  <2> QED
    BY <1>4, <1>5, <1>7, <2>1, <2>3, <2>4, <2>5 DEF Typed
<1>17. ASSUME NEW p \in Procs, OpenCompacting(p) PROVE Typed'
  <2>1. /\ At(p, "ready") /\ p \in Compacters /\ rewrites < use.rewrites /\ rewrites' = rewrites + 1
        /\ compacting' = IF compacting = 0 THEN rewrites + 2 ELSE compacting
        /\ handle' = [handle EXCEPT ![p] = compacting'] /\ Goto(p, "snapshot")
        /\ files' = [files EXCEPT ![compacting'] = <<>>]
        /\ UNCHANGED <<log, good, nextSeq, mem, op, userVars, use, cuts>>
    BY <1>17 DEF OpenCompacting, FileTruncated
  <2>2. FilesTyped'
    <3>1. <<>> \in Seq(LogLine)
      OBVIOUS
    <3> QED
      BY <1>1, <2>1, <3>1 DEF FilesTyped
  <2>3. /\ compacting' \in Files /\ compacting' # 0 /\ compacting' # log
        /\ compacting' <= rewrites' + 1 /\ log <= rewrites' + 1
    BY <1>1, <1>2, <2>1 DEF NamesTyped, Files
  <2>4. NamesTyped'
    BY <1>1, <2>1, <2>3 DEF NamesTyped
  <2>5. BoundsTyped'
    BY <1>1, <1>2, <2>1 DEF BoundsTyped
  <2>6. ProcsTyped'
    BY <1>1, <2>1, <2>3 DEF ProcsTyped, Goto, Steps
  <2>7. RolesKept'
    BY <1>1, <2>1, <2>3 DEF ProcsTyped, RolesKept, Up, At, Goto, Appending, Compacting, userVars
  <2> QED
    BY <1>6, <2>1, <2>2, <2>4, <2>5, <2>6, <2>7 DEF Typed
<1>18. ASSUME NEW p \in Procs, WriteSnapshot(p) PROVE Typed'
  <2>1. UNCHANGED <<files, nameVars, procVars, userVars, bounds, rewrites>>
    BY <1>18 DEF WriteSnapshot, bounds
  <2>2. ProcsTyped'
    BY <1>1, <1>18, <2>1 DEF WriteSnapshot, ProcsTyped, Goto, Steps, procVars
  <2>3. RolesKept'
    BY <1>1, <1>18, <2>1
       DEF WriteSnapshot, ProcsTyped, RolesKept, Up, At, Goto, Appending, Compacting, procVars, userVars
  <2> QED
    BY <1>4, <1>5, <1>6, <1>7, <2>1, <2>2, <2>3 DEF Typed
<1>19. ASSUME NEW p \in Procs, SnapshotDone(p) PROVE Typed'
  <2>1. PICK lines \in Overwritten(files[handle[p]], Snapshot(p)) :
           files' = [files EXCEPT ![handle[p]] = lines]
    BY <1>19 DEF SnapshotDone
  <2>2. pc[p] \in {"snapshot", "writingsnapshot"}
    BY <1>19 DEF SnapshotDone, At
  <2>3. lines \in Seq(LogLine)
    BY <2>2, SnapshotIs, OverwrittenIs
  <2>4. FilesTyped'
    BY <1>3, <2>1, <2>3
  <2>5. UNCHANGED <<nameVars, procVars, userVars, bounds, rewrites>>
    BY <1>19 DEF SnapshotDone, bounds
  <2>6. ProcsTyped'
    BY <1>1, <1>19, <2>5 DEF SnapshotDone, ProcsTyped, Goto, Steps, procVars
  <2>7. RolesKept'
    BY <1>1, <1>19, <2>5
       DEF SnapshotDone, ProcsTyped, RolesKept, Up, At, Goto, Appending, Compacting, procVars, userVars
  <2> QED
    BY <1>5, <1>6, <1>7, <2>4, <2>5, <2>6, <2>7 DEF Typed
<1>20. ASSUME NEW p \in Procs, SnapshotCutShort(p) PROVE Typed'
  <2>1. \E lines \in IF files[handle[p]] = <<>>
                     THEN {<<Damaged>>, <<Unterminated(Snapshot(p))>>}
                     ELSE {<<Garbled>> \o Tail(files[handle[p]])} :
           files' = [files EXCEPT ![handle[p]] = lines]
    BY <1>20 DEF SnapshotCutShort
  <2>2. pc[p] \in {"snapshot", "writingsnapshot"}
    BY <1>20 DEF SnapshotCutShort, At
  <2>3. /\ Unterminated(Snapshot(p)) \in LogLine /\ Damaged \in LogLine /\ Garbled \in LogLine
        /\ files[handle[p]] \in Seq(LogLine)
    BY <2>2, SnapshotIs
  <2>4. ASSUME files[handle[p]] = <<>> PROVE FilesTyped'
    <3>1. \/ files' = [files EXCEPT ![handle[p]] = <<Damaged>>]
          \/ files' = [files EXCEPT ![handle[p]] = <<Unterminated(Snapshot(p))>>]
      BY <2>1, <2>4
    <3>2. <<Damaged>> \in Seq(LogLine) /\ <<Unterminated(Snapshot(p))>> \in Seq(LogLine)
      BY <2>3
    <3> QED
      BY <1>3, <3>1, <3>2
  <2>5. ASSUME files[handle[p]] # <<>> PROVE FilesTyped'
    <3>1. files' = [files EXCEPT ![handle[p]] = <<Garbled>> \o Tail(files[handle[p]])]
      BY <2>1, <2>5
    <3>2. Tail(files[handle[p]]) \in Seq(LogLine) /\ <<Garbled>> \in Seq(LogLine)
      BY <2>3, <2>5, HeadTailProperties
    <3>3. <<Garbled>> \o Tail(files[handle[p]]) \in Seq(LogLine)
      BY <3>2, ConcatProperties
    <3> QED
      BY <1>3, <3>1, <3>3
  <2>6. FilesTyped'
    BY <2>4, <2>5
  <2>7. Ended(p) /\ UNCHANGED <<nameVars, userVars, bounds, rewrites, issued>>
    BY <1>20 DEF SnapshotCutShort, bounds, userVars
  <2>8. ProcsTyped' /\ RolesKept'
    BY <2>7, EndedTyped
  <2> QED
    BY <1>5, <1>6, <1>7, <2>6, <2>7, <2>8 DEF Typed
<1>21. ASSUME NEW p \in Procs, Rename(p) PROVE Typed'
  <2>1. /\ At(p, "rename") /\ compacting # 0 /\ log' = compacting /\ compacting' = 0
        /\ Goto(p, "reopen") /\ UNCHANGED <<files, procVars, userVars, bounds, rewrites>>
    BY <1>21 DEF Rename, Renamed, bounds
  <2>2. NamesTyped'
    BY <1>1, <1>2, <2>1 DEF NamesTyped
  <2>3. ProcsTyped'
    BY <1>1, <2>1 DEF ProcsTyped, Goto, Steps, procVars
  <2>4. RolesKept'
    BY <1>1, <2>1 DEF ProcsTyped, RolesKept, Up, At, Goto, Appending, Compacting, procVars, userVars
  <2> QED
    BY <1>4, <1>6, <1>7, <2>1, <2>2, <2>3, <2>4 DEF Typed
<1>22. ASSUME NEW p \in Procs, Exit(p) PROVE Typed'
  <2>1. Ended(p) /\ UNCHANGED <<files, nameVars, userVars, bounds, rewrites, issued>>
    BY <1>22 DEF Exit, bounds, userVars
  <2>2. ProcsTyped' /\ RolesKept'
    BY <2>1, EndedTyped
  <2> QED
    BY <1>4, <1>5, <1>6, <1>7, <2>1, <2>2 DEF Typed
<1>23. CASE UNCHANGED vars
  <2>1. /\ UNCHANGED <<files, nameVars, userVars, bounds, rewrites>>
        /\ UNCHANGED <<pc, handle, good, nextSeq, mem, op, issued>>
    BY <1>23 DEF vars, bounds, procVars, userVars
  <2>2. ProcsTyped' /\ RolesKept'
    BY <1>1, <2>1 DEF ProcsTyped, RolesKept, Up
  <2> QED
    BY <1>4, <1>5, <1>6, <1>7, <2>1, <2>2 DEF Typed
<1> QED
  BY <1>8, <1>9, <1>10, <1>11, <1>12, <1>13, <1>14, <1>15, <1>16, <1>17, <1>18, <1>19, <1>20, <1>21,
     <1>22, <1>23 DEF Next, Open, Reopen

(***************************************************************************)
(* The state has its type; the two file names never name one file.         *)
(***************************************************************************)
THEOREM TypeCorrect == Spec => []TypeOK
<1>1. Init => Typed
  BY InitTyped
<1>2. Typed /\ [Next]_vars => Typed'
  BY TypedStep
<1>3. Typed => TypeOK
  BY TypedIsTypeOK
<1> QED
  BY <1>1, <1>2, <1>3, PTL DEF Spec

-----------------------------------------------------------------------------
(***************************************************************************)
(* What a command has in memory, against what the file holds.  `place` is  *)
(* the last line the command counts on.  Commands that take turns are never*)
(* behind the lines that count; those that overlap never count on more     *)
(* lines than there are.                                                   *)
(***************************************************************************)
Fits(lines, turns, place, memory) ==
    /\ (turns \/ GoodLen(lines) = Len(lines)) /\ place <= GoodLen(lines) =>
           memory = Upto(lines, place)
    /\ IF turns THEN GoodLen(lines) <= place ELSE place <= Len(lines)

\* Each replayed operation was made on the operations before it.
ToldBy(lines, bases) ==
    \A i \in 2..GoodLen(lines) : \A o \in lines[i].ops : bases[o] = Upto(lines, i - 1)

NoneAbove(lines, n) == \A i \in 1..Len(lines) : lines[i].ops \subseteq 1..n

LEMMA RepairedUpto ==
    ASSUME NEW old \in Seq(LogLine), NEW new, Repaired(old, new), NEW n \in Nat, n <= GoodLen(new)
    PROVE  Upto(new, n) = Upto(old, n)
<1>1. new \in Seq(LogLine) /\ \A i \in 1..GoodLen(new) : new[i].ops = old[i].ops
  BY DEF Repaired
<1>2. GoodLen(new) \in Nat
  BY <1>1, GoodLenIs
<1>3. \A j \in 1..n : new[j].ops = old[j].ops
  BY <1>1, <1>2
<1> QED
  BY <1>3 DEF Upto

LEMMA FitsRepaired ==
    ASSUME NEW old \in Seq(LogLine), NEW new, Repaired(old, new),
           NEW place \in Nat, NEW memory, Fits(old, TRUE, place, memory)
    PROVE  Fits(new, TRUE, place, memory)
<1>1. /\ new \in Seq(LogLine) /\ GoodLen(new) <= GoodLen(old)
      /\ GoodLen(new) \in Nat /\ GoodLen(old) \in Nat
  BY GoodLenIs DEF Repaired
<1>2. GoodLen(old) <= place /\ (place <= GoodLen(old) => memory = Upto(old, place))
  BY DEF Fits
<1>3. GoodLen(new) <= place
  BY <1>1, <1>2
<1>4. ASSUME place <= GoodLen(new) PROVE memory = Upto(new, place)
  BY <1>1, <1>2, <1>4, RepairedUpto
<1> QED
  BY <1>3, <1>4 DEF Fits

\* A write on a torn tail, which the next read throws away.
LEMMA FitsMerged ==
    ASSUME NEW old \in Seq(LogLine), NEW new, Repaired(old, new),
           NEW place \in Nat, NEW memory, NEW after, Fits(old, TRUE, place, memory)
    PROVE  Fits(new, TRUE, place + 1, after)
<1>1. /\ GoodLen(new) <= GoodLen(old)
      /\ GoodLen(new) \in Nat /\ GoodLen(old) \in Nat
  BY GoodLenIs DEF Repaired
<1>2. GoodLen(old) <= place
  BY DEF Fits
<1>3. GoodLen(new) <= place + 1 /\ ~(place + 1 <= GoodLen(new))
  BY <1>1, <1>2
<1> QED
  BY <1>3 DEF Fits

LEMMA FitsOpened ==
    ASSUME NEW lines \in Seq(LogLine), NEW turns \in BOOLEAN
    PROVE  Fits(lines, turns, GoodLen(lines), Upto(lines, GoodLen(lines)))
<1>1. GoodLen(lines) \in 0..Len(lines) /\ Len(lines) \in Nat
  BY GoodLenIs
<1>2. GoodLen(lines) <= GoodLen(lines) /\ GoodLen(lines) <= Len(lines)
  BY <1>1
<1> QED
  BY <1>2 DEF Fits

\* A record of another command.
LEMMA FitsAppended ==
    ASSUME NEW old \in Seq(LogLine), NEW line \in LogLine,
           NEW place \in Nat, NEW memory, Fits(old, FALSE, place, memory)
    PROVE  Fits(Append(old, line), FALSE, place, memory)
<1> DEFINE new == Append(old, line)
<1>0. OneMore(old, new, line)
  BY AppendIs
<1> HIDE DEF new
<1>1. /\ Len(new) = Len(old) + 1 /\ Len(old) \in Nat
      /\ GoodLen(new) = IF GoodLen(old) = Len(old) /\ Parsed(line) /\ line.seq = Len(new)
                        THEN Len(new) ELSE GoodLen(old)
      /\ \A n \in 0..Len(old) : Upto(new, n) = Upto(old, n)
  BY <1>0 DEF OneMore
<1>2. GoodLen(old) \in 0..Len(old)
  BY GoodLenIs
<1>3. place \in 0..Len(old) /\ place <= Len(new)
  BY <1>1, <1>2 DEF Fits
<1>4. ASSUME GoodLen(new) = Len(new) PROVE memory = Upto(new, place)
  <2>1. GoodLen(old) = Len(old)
    BY <1>1, <1>2, <1>4
  <2>2. memory = Upto(old, place)
    BY <1>3, <2>1 DEF Fits
  <2> QED
    BY <1>1, <1>2, <1>3, <2>2
<1>5. Fits(new, FALSE, place, memory)
  BY <1>3, <1>4 DEF Fits
<1> QED
  BY <1>5 DEF new

\* A record of one's own, and what it was made on.
LEMMA FitsWritten ==
    ASSUME NEW old \in Seq(LogLine), NEW line \in LogLine, NEW turns \in BOOLEAN,
           NEW place \in Nat, NEW memory, Fits(old, turns, place, memory), line.seq = place + 1,
           NEW bases, ToldBy(old, bases), \A o \in line.ops : bases[o] = memory
    PROVE  /\ Fits(Append(old, line), turns, place + 1, memory \cup line.ops)
           /\ ToldBy(Append(old, line), bases)
<1> DEFINE new == Append(old, line)
<1>0. OneMore(old, new, line)
  BY AppendIs
<1> HIDE DEF new
<1>1. /\ Len(new) = Len(old) + 1 /\ Len(old) \in Nat
      /\ GoodLen(new) = IF GoodLen(old) = Len(old) /\ Parsed(line) /\ line.seq = Len(new)
                        THEN Len(new) ELSE GoodLen(old)
      /\ \A n \in 0..Len(old) : Upto(new, n) = Upto(old, n)
      /\ Upto(new, Len(new)) = Upto(old, Len(old)) \cup line.ops
      /\ \A i \in 1..Len(old) : new[i] = old[i]
      /\ new[Len(new)] = line
  BY <1>0 DEF OneMore
<1>2. GoodLen(old) \in 0..Len(old)
  BY GoodLenIs
<1>3. ASSUME GoodLen(new) = Len(new)
      PROVE  Fits(new, turns, place + 1, memory \cup line.ops) /\ ToldBy(new, bases)
  <2>1. GoodLen(old) = Len(old) /\ line.seq = Len(new)
    BY <1>1, <1>2, <1>3
  <2>2. place = Len(old) /\ place <= GoodLen(old)
    BY <1>1, <1>2, <2>1
  <2>3. memory = Upto(old, Len(old))
    BY <2>1, <2>2 DEF Fits
  <2>4. place + 1 = Len(new) /\ memory \cup line.ops = Upto(new, Len(new))
    BY <1>1, <1>2, <2>2, <2>3
  <2>5. GoodLen(new) <= place + 1 /\ place + 1 <= Len(new)
    BY <1>1, <1>2, <1>3, <2>4
  <2>6. Fits(new, turns, place + 1, memory \cup line.ops)
    BY <2>4, <2>5 DEF Fits
  <2>7. ASSUME NEW i \in 2..GoodLen(new), NEW o \in new[i].ops
        PROVE  bases[o] = Upto(new, i - 1)
    <3>1. i - 1 \in 0..Len(old)
      BY <1>1, <1>2, <1>3, <2>7
    <3>2. CASE i = Len(new)
      <4>1. new[i] = line /\ i - 1 = Len(old)
        BY <1>1, <1>2, <3>2
      <4> QED
        BY <1>1, <1>2, <2>3, <2>7, <3>1, <4>1
    <3>3. CASE i # Len(new)
      <4>1. i \in 1..Len(old) /\ i \in 2..GoodLen(old)
        BY <1>1, <1>2, <1>3, <2>1, <2>7, <3>3
      <4>2. new[i] = old[i]
        BY <1>1, <1>2, <4>1
      <4>3. bases[o] = Upto(old, i - 1)
        BY <2>7, <4>1, <4>2 DEF ToldBy
      <4> QED
        BY <1>1, <1>2, <3>1, <4>3
    <3> QED
      BY <3>2, <3>3
  <2>8. ToldBy(new, bases)
    BY <2>7 DEF ToldBy
  <2> QED
    BY <2>6, <2>8
<1>4. ASSUME GoodLen(new) # Len(new)
      PROVE  Fits(new, turns, place + 1, memory \cup line.ops) /\ ToldBy(new, bases)
  <2>1. GoodLen(new) = GoodLen(old)
    BY <1>1, <1>2, <1>4
  <2>2. IF turns THEN GoodLen(new) <= place + 1 ELSE place + 1 <= Len(new)
    BY <1>1, <1>2, <2>1 DEF Fits
  <2>3. turns => ~(place + 1 <= GoodLen(new))
    BY <1>1, <1>2, <2>1 DEF Fits
  <2>4. Fits(new, turns, place + 1, memory \cup line.ops)
    BY <1>4, <2>2, <2>3 DEF Fits
  <2>5. ASSUME NEW i \in 2..GoodLen(new), NEW o \in new[i].ops
        PROVE  bases[o] = Upto(new, i - 1)
    <3>1. i \in 1..Len(old) /\ i \in 2..GoodLen(old) /\ i - 1 \in 0..Len(old)
      BY <1>1, <1>2, <2>1, <2>5
    <3>2. new[i] = old[i] /\ Upto(new, i - 1) = Upto(old, i - 1)
      BY <1>1, <1>2, <3>1
    <3> QED
      BY <2>5, <3>1, <3>2 DEF ToldBy
  <2>6. ToldBy(new, bases)
    BY <2>5 DEF ToldBy
  <2> QED
    BY <2>4, <2>6
<1>5. Fits(new, turns, place + 1, memory \cup line.ops) /\ ToldBy(new, bases)
  BY <1>3, <1>4
<1> QED
  BY <1>5 DEF new

LEMMA ToldRepaired ==
    ASSUME NEW old \in Seq(LogLine), NEW new, Repaired(old, new),
           NEW n, NoneAbove(old, n), NEW bases, NEW after, \A o \in 1..n : after[o] = bases[o],
           ToldBy(old, bases)
    PROVE  ToldBy(new, after)
<1>1. /\ new \in Seq(LogLine) /\ GoodLen(new) <= GoodLen(old) /\ GoodLen(new) \in Nat
      /\ GoodLen(old) \in 0..Len(old) /\ Len(old) \in Nat
      /\ \A i \in 1..GoodLen(new) : new[i].ops = old[i].ops
  BY GoodLenIs DEF Repaired
<1>2. ASSUME NEW i \in 2..GoodLen(new), NEW o \in new[i].ops
      PROVE  after[o] = Upto(new, i - 1)
  <2>1. i \in 1..GoodLen(new) /\ i \in 2..GoodLen(old) /\ i \in 1..Len(old)
    BY <1>1, <1>2
  <2>2. i - 1 \in Nat /\ i - 1 <= GoodLen(new)
    BY <1>1, <1>2
  <2>3. o \in old[i].ops /\ o \in 1..n
    BY <1>1, <1>2, <2>1 DEF NoneAbove
  <2>4. bases[o] = Upto(old, i - 1)
    BY <2>1, <2>3 DEF ToldBy
  <2>5. Upto(new, i - 1) = Upto(old, i - 1)
    BY <2>2, RepairedUpto
  <2> QED
    BY <2>3, <2>4, <2>5
<1> QED
  BY <1>2 DEF ToldBy

LEMMA NoneAboveRepaired ==
    ASSUME NEW old, NEW new, Repaired(old, new), NEW n, NoneAbove(old, n)
    PROVE  NoneAbove(new, n)
<1>1. Upto(old, Len(old)) \subseteq 1..n
  BY DEF NoneAbove, Upto
<1> QED
  BY <1>1 DEF NoneAbove, Repaired

LEMMA NoneAboveAppended ==
    ASSUME NEW old \in Seq(LogLine), NEW line \in LogLine, NEW n, NoneAbove(old, n),
           line.ops \subseteq 1..n
    PROVE  NoneAbove(Append(old, line), n)
<1> DEFINE new == Append(old, line)
<1>0. OneMore(old, new, line)
  BY AppendIs
<1> HIDE DEF new
<1>1. /\ Len(new) = Len(old) + 1 /\ Len(old) \in Nat
      /\ \A i \in 1..Len(old) : new[i] = old[i]
      /\ new[Len(new)] = line
  BY <1>0 DEF OneMore
<1>2. ASSUME NEW i \in 1..Len(new) PROVE new[i].ops \subseteq 1..n
  <2>1. i = Len(new) \/ i \in 1..Len(old)
    BY <1>1
  <2> QED
    BY <1>1, <2>1 DEF NoneAbove
<1>3. NoneAbove(new, n)
  BY <1>2 DEF NoneAbove
<1> QED
  BY <1>3 DEF new

-----------------------------------------------------------------------------
(***************************************************************************)
(* One history, until the first compaction.                                *)
(***************************************************************************)
\* The last line a command counts on, its own write included, and the
\* operations up to it.
Place(p) == IF pc[p] = "sync" THEN nextSeq[p] ELSE nextSeq[p] - 1

Memory(p) == IF pc[p] = "sync" THEN mem[p] \cup {op[p]} ELSE mem[p]

First == files[1]

AllWhole(lines) == \A i \in 1..Len(lines) : lines[i].frame = "whole"

TurnsKept == use.turns => \A p, q \in Writers : Up(p) /\ Up(q) => p = q

OneFile ==
    rewrites = 0 =>
        /\ log = 1 /\ compacting = 0
        /\ \A p \in Procs : handle[p] \in {0, 1} /\ pc[p] \notin Compacting

Known(p) ==
    Up(p) => /\ Fits(First, use.turns, Place(p), Memory(p))
             /\ pc[p] = "writing" => base[op[p]] = mem[p]

OneHistory ==
    rewrites = 0 =>
        /\ NoneAbove(First, issued)
        /\ use.turns \/ Undamaged => ToldBy(First, base) /\ \A p \in Appenders : Known(p)

Undisturbed ==
    Undamaged /\ rewrites = 0 =>
        /\ First # <<>> /\ AllWhole(First)
        /\ acked \subseteq Upto(First, Len(First))
        /\ \A p \in Procs :
              /\ pc[p] \notin {"truncate", "terminate"}
              /\ pc[p] \in {"sync", "report"} => op[p] \in Upto(First, Len(First))

Step(p) ==
    \/ Open(p) \/ Truncate(p) \/ Terminate(p) \/ OpenFile(p)
    \/ Write(p) \/ WriteDone(p) \/ WriteCutShort(p) \/ Sync(p) \/ Report(p)
    \/ OpenCompacting(p) \/ WriteSnapshot(p) \/ SnapshotDone(p) \/ SnapshotCutShort(p)
    \/ Rename(p) \/ Reopen(p) \/ Exit(p)

Same(p) == /\ pc'[p] = pc[p] /\ handle'[p] = handle[p] /\ nextSeq'[p] = nextSeq[p]
           /\ mem'[p] = mem[p] /\ op'[p] = op[p]

\* A step of one command leaves the others alone.
LEMMA OthersSame ==
    ASSUME Typed, NEW p \in Procs, Step(p), NEW q \in Procs, q # p
    PROVE  Same(q)
<1>1. ProcsTyped
  BY DEF Typed
<1>2. CASE Open(p)
  BY <1>1, <1>2 DEF Open, Read, Goto, Same, ProcsTyped
<1>3. CASE Reopen(p)
  BY <1>1, <1>3 DEF Reopen, Read, Goto, Same, ProcsTyped
<1>4. CASE Truncate(p)
  BY <1>1, <1>4 DEF Truncate, Goto, Same, ProcsTyped, procVars
<1>5. CASE Terminate(p)
  BY <1>1, <1>5 DEF Terminate, Goto, Same, ProcsTyped, procVars
<1>6. CASE OpenFile(p)
  BY <1>1, <1>6 DEF OpenFile, Goto, Same, ProcsTyped
<1>7. CASE Write(p)
  BY <1>1, <1>7 DEF Write, Goto, Same, ProcsTyped
<1>8. CASE WriteDone(p)
  BY <1>1, <1>8 DEF WriteDone, Goto, Same, ProcsTyped, procVars
<1>9. CASE WriteCutShort(p)
  BY <1>1, <1>9 DEF WriteCutShort, Ended, Same, ProcsTyped
<1>10. CASE Sync(p)
  BY <1>1, <1>10 DEF Sync, Goto, Same, ProcsTyped
<1>11. CASE Report(p)
  BY <1>1, <1>11 DEF Report, Goto, Same, ProcsTyped, procVars
<1>12. CASE OpenCompacting(p)
  BY <1>1, <1>12 DEF OpenCompacting, FileTruncated, Goto, Same, ProcsTyped
<1>13. CASE WriteSnapshot(p)
  BY <1>1, <1>13 DEF WriteSnapshot, Goto, Same, ProcsTyped, procVars
<1>14. CASE SnapshotDone(p)
  BY <1>1, <1>14 DEF SnapshotDone, Goto, Same, ProcsTyped, procVars
<1>15. CASE SnapshotCutShort(p)
  BY <1>1, <1>15 DEF SnapshotCutShort, Ended, Same, ProcsTyped
<1>16. CASE Rename(p)
  BY <1>1, <1>16 DEF Rename, Goto, Same, ProcsTyped, procVars
<1>17. CASE Exit(p)
  BY <1>1, <1>17 DEF Exit, Ended, Same, ProcsTyped
<1> QED
  BY <1>2, <1>3, <1>4, <1>5, <1>6, <1>7, <1>8, <1>9, <1>10, <1>11, <1>12, <1>13, <1>14, <1>15,
     <1>16, <1>17 DEF Step

\* A command that is down comes up by an Open, which waits for its turn.
LEMMA StartsInTurn ==
    ASSUME Typed, NEW p \in Procs, Step(p), ~Up(p)
    PROVE  Open(p)
BY DEF Up, Step, Truncate, Terminate, OpenFile, Write, WriteDone, WriteCutShort, Sync, Report,
       OpenCompacting, WriteSnapshot, SnapshotDone, SnapshotCutShort, Rename, Reopen, Read, Exit, At

LEMMA BoundsGrow ==
    ASSUME Typed, NEW p \in Procs, Step(p)
    PROVE  /\ use' = use
           /\ rewrites' = 0 => rewrites = 0
           /\ cuts' = 0 => cuts = 0
           /\ Undamaged' => Undamaged
<1>1. rewrites \in Nat /\ cuts \in Nat
  BY BoundTypes DEF Typed
<1>2. /\ use' = use
      /\ rewrites' = rewrites \/ rewrites' = rewrites + 1
      /\ cuts' = cuts \/ cuts' = cuts + 1
  BY DEF Step, Open, Truncate, Terminate, OpenFile, Write, WriteDone, WriteCutShort, Sync, Report,
         OpenCompacting, WriteSnapshot, SnapshotDone, SnapshotCutShort, Rename, Reopen, Read, Exit,
         bounds
<1>3. (rewrites' = 0 => rewrites = 0) /\ (cuts' = 0 => cuts = 0)
  BY <1>1, <1>2
<1> QED
  BY <1>2, <1>3 DEF Undamaged

LEMMA TurnsStep ==
    ASSUME Typed, TurnsKept, NEW p \in Procs, Step(p)
    PROVE  TurnsKept'
<1> SUFFICES ASSUME use.turns', NEW q \in Writers, NEW r \in Writers, Up(q)', Up(r)', q # r
             PROVE  FALSE
  BY DEF TurnsKept
<1>1. use.turns /\ q \in Procs /\ r \in Procs
  BY BoundsGrow DEF Procs
<1>2. \A s \in Procs \ {p} : Up(s)' = Up(s)
  BY OthersSame DEF Up, Same
<1>3. ASSUME NEW s \in Writers, NEW t \in Writers, Up(s)', Up(t)', s # t, s = p
      PROVE  FALSE
  <2>1. t # p /\ t \in Procs /\ Up(t)
    BY <1>2, <1>3 DEF Procs
  <2>2. CASE Up(p)
    BY <1>1, <1>3, <2>1, <2>2 DEF TurnsKept
  <2>3. CASE ~Up(p)
    <3>1. MayStart(p)
      BY <2>3, StartsInTurn DEF Open
    <3> QED
      BY <1>1, <1>3, <2>1, <3>1 DEF MayStart, Up
  <2> QED
    BY <2>2, <2>3
<1>4. CASE q = p
  BY <1>3, <1>4
<1>5. CASE r = p
  BY <1>3, <1>5
<1>6. CASE q # p /\ r # p
  BY <1>1, <1>2, <1>6 DEF TurnsKept
<1> QED
  BY <1>4, <1>5, <1>6

LEMMA OneFileStep ==
    ASSUME Typed, OneFile, NEW p \in Procs, Step(p)
    PROVE  OneFile'
<1> SUFFICES ASSUME rewrites' = 0
             PROVE  /\ log' = 1 /\ compacting' = 0
                    /\ \A q \in Procs : handle'[q] \in {0, 1} /\ pc'[q] \notin Compacting
  BY DEF OneFile
<1>1. rewrites = 0 /\ rewrites \in Nat /\ ProcsTyped
  BY BoundsGrow, BoundTypes DEF Typed
<1>2. /\ log = 1 /\ compacting = 0
      /\ \A q \in Procs : handle[q] \in {0, 1} /\ pc[q] \notin Compacting
  BY <1>1 DEF OneFile
<1>3. \A q \in Procs \ {p} : handle'[q] = handle[q] /\ pc'[q] = pc[q]
  BY OthersSame DEF Same
<1>4. SUFFICES log' = 1 /\ compacting' = 0 /\ handle'[p] \in {0, 1} /\ pc'[p] \notin Compacting
  BY <1>2, <1>3
<1>5. pc[p] \notin Compacting
  BY <1>2
<1>6. CASE Open(p)
  BY <1>1, <1>2, <1>6 DEF Open, Read, Goto, ProcsTyped, nameVars, Compacting
<1>7. CASE Truncate(p)
  BY <1>1, <1>2, <1>7 DEF Truncate, Goto, ProcsTyped, procVars, nameVars, Compacting
<1>8. CASE Terminate(p)
  BY <1>1, <1>2, <1>8 DEF Terminate, Goto, ProcsTyped, procVars, nameVars, Compacting
<1>9. CASE OpenFile(p)
  BY <1>1, <1>2, <1>9 DEF OpenFile, Goto, ProcsTyped, nameVars, Compacting
<1>10. CASE Write(p)
  BY <1>1, <1>2, <1>10 DEF Write, Goto, ProcsTyped, nameVars, Compacting
<1>11. CASE WriteDone(p)
  BY <1>1, <1>2, <1>11 DEF WriteDone, Goto, ProcsTyped, procVars, nameVars, Compacting
<1>12. CASE WriteCutShort(p)
  BY <1>1, <1>2, <1>12 DEF WriteCutShort, Ended, ProcsTyped, nameVars, Compacting
<1>13. CASE Sync(p)
  BY <1>1, <1>2, <1>13 DEF Sync, Goto, ProcsTyped, nameVars, Compacting
<1>14. CASE Report(p)
  BY <1>1, <1>2, <1>14 DEF Report, Goto, ProcsTyped, procVars, nameVars, Compacting
<1>15. CASE OpenCompacting(p)
  BY <1>1, <1>15 DEF OpenCompacting
<1>16. CASE WriteSnapshot(p) \/ SnapshotDone(p) \/ SnapshotCutShort(p) \/ Rename(p) \/ Reopen(p)
  BY <1>5, <1>16 DEF WriteSnapshot, SnapshotDone, SnapshotCutShort, Rename, Reopen, Read, At, Compacting
<1>17. CASE Exit(p)
  BY <1>1, <1>2, <1>17 DEF Exit, Ended, ProcsTyped, nameVars, Compacting
<1> QED
  BY <1>6, <1>7, <1>8, <1>9, <1>10, <1>11, <1>12, <1>13, <1>14, <1>15, <1>16, <1>17 DEF Step

LEMMA PlaceIs ==
    ASSUME Typed, NEW p \in Procs, Up(p)
    PROVE  Place(p) \in Nat /\ nextSeq[p] \in Nat \ {0}
BY DEF Typed, ProcsTyped, RolesKept, Place

\* Whoever keeps its place and its memory knows as much as before.
Remembers(q) ==
    /\ Up(q) /\ Place(q)' = Place(q) /\ Memory(q)' = Memory(q)
    /\ pc'[q] = "writing" => base'[op'[q]] = mem'[q]

\* Whoever has just opened the log knows what it replays to.
Refound(q) ==
    /\ pc'[q] # "writing"
    /\ Place(q)' = GoodLen(First) /\ Memory(q)' = Upto(First, GoodLen(First))

LEMMA HistoryUnchanged ==
    ASSUME Typed, OneHistory, NEW p \in Procs, Step(p), rewrites' = 0,
           First' = First, issued' >= issued, \A o \in 1..issued : base'[o] = base[o],
           use.turns \/ Undamaged =>
               \A q \in Appenders : Up(q)' => (Known(q) => Remembers(q)) \/ Refound(q)
    PROVE  OneHistory'
<1>1. rewrites = 0 /\ use' = use /\ (use.turns \/ Undamaged' => use.turns \/ Undamaged)
  BY BoundsGrow
<1>2. First \in Seq(LogLine) /\ issued \in Nat /\ issued' \in Nat /\ use.turns \in BOOLEAN
  <2>1. Typed' /\ MaxOps \in Nat
    BY TypedStep, UsesAssumption DEF Step, Next
  <2>2. 1 \in Files
    BY UsesAssumption DEF Files
  <2> QED
    BY <2>1, <2>2, BoundTypes DEF Typed, FilesTyped, First, UserTyped, Ops
<1>3. NoneAbove(First, issued)
  BY <1>1 DEF OneHistory
<1>4. NoneAbove(First, issued)'
  BY <1>2, <1>3 DEF NoneAbove
<1>5. SUFFICES ASSUME use.turns \/ Undamaged
               PROVE  ToldBy(First, base') /\ \A q \in Appenders : Known(q)'
  BY <1>1, <1>4 DEF OneHistory, ToldBy
<1>6. ToldBy(First, base) /\ \A q \in Appenders : Known(q)
  BY <1>1, <1>5 DEF OneHistory
<1>7. ToldBy(First, base')
  <2>1. ASSUME NEW i \in 2..GoodLen(First), NEW o \in First[i].ops
        PROVE  base'[o] = Upto(First, i - 1)
    <3>1. i \in 1..Len(First)
      BY <1>2, <2>1, GoodLenIs
    <3>2. o \in 1..issued
      BY <1>3, <2>1, <3>1 DEF NoneAbove
    <3> QED
      BY <1>6, <2>1, <3>2 DEF ToldBy
  <2> QED
    BY <2>1 DEF ToldBy
<1>8. ASSUME NEW q \in Appenders, Up(q)'
      PROVE  Known(q)'
  <2>1. CASE Remembers(q)
    BY <1>1, <1>6, <1>8, <2>1 DEF Known, Remembers
  <2>2. CASE Refound(q)
    <3>1. Fits(First, use.turns, GoodLen(First), Upto(First, GoodLen(First)))
      BY <1>2, FitsOpened
    <3> QED
      BY <1>1, <2>2, <3>1 DEF Known, Refound
  <2> QED
    BY <1>5, <1>6, <1>8, <2>1, <2>2
<1> QED
  BY <1>7, <1>8 DEF Known

\* A repair, which only a command that takes its turns makes.
LEMMA HistoryRepaired ==
    ASSUME Typed, OneHistory, NEW p \in Procs, Step(p), rewrites' = 0,
           Repaired(First, First'), issued' = issued, base' = base,
           Undamaged' => use.turns,
           \A q \in Appenders : Up(q)' => (Known(q) => Remembers(q))
    PROVE  OneHistory'
<1>1. rewrites = 0 /\ use' = use
  BY BoundsGrow
<1>2. First \in Seq(LogLine) /\ 1 \in Files
  <2>1. 1 \in Files
    BY UsesAssumption DEF Files
  <2> QED
    BY <2>1 DEF Typed, FilesTyped, First
<1>3. NoneAbove(First, issued)
  BY <1>1 DEF OneHistory
<1>4. NoneAbove(First', issued')
  BY <1>3, NoneAboveRepaired
<1>5. SUFFICES ASSUME use.turns
               PROVE  ToldBy(First', base') /\ \A q \in Appenders : Known(q)'
  BY <1>1, <1>4 DEF OneHistory
<1>6. ToldBy(First, base) /\ \A q \in Appenders : Known(q)
  BY <1>1, <1>5 DEF OneHistory
<1>7. ToldBy(First', base')
  BY <1>2, <1>3, <1>6, ToldRepaired
<1>8. ASSUME NEW q \in Appenders, Up(q)'
      PROVE  Known(q)'
  <2>1. /\ Up(q) /\ Place(q)' = Place(q) /\ Memory(q)' = Memory(q)
        /\ pc'[q] = "writing" => base'[op'[q]] = mem'[q]
    BY <1>6, <1>8 DEF Remembers
  <2>2. Fits(First, TRUE, Place(q), Memory(q)) /\ use.turns = TRUE
    BY <1>2, <1>5, <1>6, <2>1, BoundTypes DEF Known, Typed
  <2>3. q \in Procs /\ Place(q) \in Nat
    BY <2>1, PlaceIs DEF Procs, Writers
  <2>4. Fits(First', TRUE, Place(q), Memory(q))
    BY <1>2, <2>2, <2>3, FitsRepaired
  <2> QED
    BY <1>1, <2>1, <2>2, <2>4 DEF Known
<1> QED
  BY <1>7, <1>8 DEF Known

\* Where the lines of an undisturbed log end, a write begins a line.
LEMMA WholeEnds ==
    ASSUME NEW lines \in Seq(LogLine), lines # <<>>, AllWhole(lines)
    PROVE  EndsInNewline(lines) /\ ~Torn(lines)
BY NotEmpty DEF AllWhole, EndsInNewline, Torn

LEMMA HistoryWritten ==
    ASSUME Typed, TurnsKept, OneFile, OneHistory, Undisturbed,
           NEW p \in Procs, WriteDone(p), rewrites' = 0
    PROVE  OneHistory'
<1>0. Step(p)
  BY DEF Step
<1>1. /\ rewrites = 0 /\ use' = use /\ 1 \in Files
      /\ (use'.turns \/ Undamaged' => use.turns \/ Undamaged)
  BY <1>0, BoundsGrow, UsesAssumption DEF Files
<1>2. /\ pc[p] = "writing" /\ Put(p, Record(p)) /\ pc' = [pc EXCEPT ![p] = "sync"]
      /\ UNCHANGED <<procVars, userVars>>
  BY DEF WriteDone, At, Goto, Written
<1>3. pc[p] \in Appending /\ Up(p)
  BY <1>2 DEF Appending, Up
<1>4. /\ p \in Appenders /\ op[p] \in 1..issued /\ nextSeq[p] \in Nat \ {0}
      /\ Record(p) \in LogLine /\ Place(p) \in Nat
  BY <1>3, RecordIs, PlaceIs
<1>5. First \in Seq(LogLine)
  BY <1>1 DEF Typed, FilesTyped, First
<1>6. First' = Extend(First, Record(p))
  <2>1. handle[p] = 1
    BY <1>1, <1>3 DEF OneFile, Typed, RolesKept
  <2> QED
    BY <1>1, <1>2, <2>1 DEF Put, First, Typed, FilesTyped
<1>7. NoneAbove(First, issued) /\ issued' = issued /\ base' = base
  BY <1>1, <1>2 DEF OneHistory, userVars
<1>8. /\ Place(p) = nextSeq[p] - 1 /\ Memory(p) = mem[p]
      /\ Place(p)' = Place(p) + 1 /\ Memory(p)' = mem[p] \cup {op[p]}
      /\ Record(p).seq = Place(p) + 1 /\ Record(p).ops = {op[p]} /\ pc'[p] # "writing"
  BY <1>2, <1>4 DEF Place, Memory, procVars, Typed, ProcsTyped, Record, Line
<1>9. ASSUME NEW q \in Appenders, q # p, Up(q)'
      PROVE  /\ Up(q) /\ Place(q)' = Place(q) /\ Memory(q)' = Memory(q) /\ ~use.turns
             /\ q \in Procs /\ (pc'[q] = "writing" => pc[q] = "writing")
             /\ op'[q] = op[q] /\ mem'[q] = mem[q]
  <2>1. q \in Procs /\ Same(q)
    BY <1>0, <1>9, OthersSame DEF Procs, Writers
  <2> QED
    BY <1>3, <1>4, <1>9, <2>1 DEF Same, Up, Place, Memory, TurnsKept, Writers
<1>10. CASE EndsInNewline(First)
  <2>1. First' = Append(First, Record(p))
    BY <1>4, <1>5, <1>6, <1>10, ExtendIs
  <2>2. NoneAbove(First', issued')
    <3>1. {op[p]} \subseteq 1..issued
      BY <1>4
    <3> QED
      BY <1>4, <1>5, <1>7, <1>8, <2>1, <3>1, NoneAboveAppended
  <2>3. SUFFICES ASSUME use.turns \/ Undamaged
                 PROVE  ToldBy(First', base') /\ \A q \in Appenders : Known(q)'
    BY <1>1, <2>2 DEF OneHistory
  <2>4. ToldBy(First, base) /\ \A q \in Appenders : Known(q)
    BY <1>1, <2>3 DEF OneHistory
  <2>5. Fits(First, use.turns, Place(p), mem[p]) /\ base[op[p]] = mem[p] /\ use.turns \in BOOLEAN
    BY <1>2, <1>3, <1>4, <1>8, <2>4, BoundTypes DEF Known, Typed
  <2>6. \A o \in Record(p).ops : base[o] = mem[p]
    BY <1>8, <2>5
  <2>7. /\ Fits(First', use.turns, Place(p) + 1, mem[p] \cup Record(p).ops)
        /\ ToldBy(First', base)
    BY <1>4, <1>5, <1>8, <2>1, <2>4, <2>5, <2>6, FitsWritten
  <2>8. Known(p)'
    BY <1>1, <1>8, <2>7 DEF Known
  <2>9. ASSUME NEW q \in Appenders, q # p, Up(q)'
        PROVE  Known(q)'
    <3>1. Up(q) /\ use.turns = FALSE /\ q \in Procs
      BY <1>9, <2>5, <2>9
    <3>2. Fits(First, FALSE, Place(q), Memory(q)) /\ Place(q) \in Nat
      BY <2>4, <3>1, PlaceIs DEF Known
    <3>3. Fits(First', FALSE, Place(q), Memory(q))
      BY <1>4, <1>5, <2>1, <3>2, FitsAppended
    <3> QED
      BY <1>1, <1>7, <1>9, <2>4, <2>9, <3>1, <3>3 DEF Known
  <2> QED
    BY <1>7, <2>7, <2>8, <2>9 DEF Known
<1>11. CASE ~EndsInNewline(First)
  <2>1. Repaired(First, First')
    BY <1>4, <1>5, <1>6, <1>11, ExtendIs
  <2>2. NoneAbove(First', issued')
    BY <1>7, <2>1, NoneAboveRepaired
  <2>3. ~Undamaged
    BY <1>1, <1>5, <1>11, WholeEnds DEF Undisturbed
  <2>4. SUFFICES ASSUME use.turns
                 PROVE  ToldBy(First', base') /\ \A q \in Appenders : Known(q)'
    BY <1>1, <2>2, <2>3 DEF OneHistory
  <2>5. ToldBy(First, base) /\ \A q \in Appenders : Known(q)
    BY <1>1, <2>4 DEF OneHistory
  <2>6. ToldBy(First', base')
    BY <1>5, <1>7, <2>1, <2>5, ToldRepaired
  <2>7. use.turns = TRUE
    BY <2>4, BoundTypes DEF Typed
  <2>8. Fits(First, TRUE, Place(p), Memory(p))
    BY <1>3, <1>4, <2>5, <2>7 DEF Known
  <2>9. Fits(First', TRUE, Place(p) + 1, Memory(p)')
    BY <1>4, <1>5, <2>1, <2>8, FitsMerged
  <2>10. Known(p)'
    BY <1>1, <1>8, <2>7, <2>9 DEF Known
  <2> QED
    BY <1>9, <2>4, <2>6, <2>10 DEF Known
<1> QED
  BY <1>10, <1>11

LEMMA HistoryCutShort ==
    ASSUME Typed, TurnsKept, OneFile, OneHistory, NEW p \in Procs, WriteCutShort(p), rewrites' = 0
    PROVE  OneHistory'
<1>0. Step(p)
  BY DEF Step
<1>1. /\ rewrites = 0 /\ use' = use /\ 1 \in Files
  BY <1>0, BoundsGrow, UsesAssumption DEF Files
<1>2. /\ pc[p] = "writing" /\ (Put(p, Damaged) \/ Put(p, Unterminated(Record(p))))
      /\ ~Up(p)' /\ cuts' = cuts + 1 /\ UNCHANGED userVars
  BY DEF WriteCutShort, At, Ended, Up, Typed, ProcsTyped
<1>3. pc[p] \in Appending /\ Up(p)
  BY <1>2 DEF Appending, Up
<1>4. /\ p \in Appenders /\ op[p] \in 1..issued /\ nextSeq[p] \in Nat \ {0}
      /\ Unterminated(Record(p)) \in LogLine /\ Damaged \in LogLine /\ Place(p) \in Nat
  BY <1>3, RecordIs, PlaceIs
<1>5. First \in Seq(LogLine)
  BY <1>1 DEF Typed, FilesTyped, First
<1>6. First' = Extend(First, Damaged) \/ First' = Extend(First, Unterminated(Record(p)))
  <2>1. handle[p] = 1
    BY <1>1, <1>3 DEF OneFile, Typed, RolesKept
  <2> QED
    BY <1>1, <1>2, <2>1 DEF Put, First, Typed, FilesTyped
<1>7. NoneAbove(First, issued) /\ issued' = issued /\ base' = base
  BY <1>1, <1>2 DEF OneHistory, userVars
<1>8. ~Undamaged'
  BY <1>2, BoundTypes DEF Undamaged, Typed
<1>9. ASSUME use.turns, NEW q \in Appenders PROVE ~Up(q)'
  BY <1>0, <1>2, <1>3, <1>4, <1>9, OthersSame DEF Same, Up, TurnsKept, Writers, Procs
<1>10. ASSUME Repaired(First, First') PROVE OneHistory'
  <2>1. NoneAbove(First', issued')
    BY <1>7, <1>10, NoneAboveRepaired
  <2>2. use.turns => ToldBy(First', base')
    BY <1>1, <1>5, <1>7, <1>10, ToldRepaired DEF OneHistory
  <2> QED
    BY <1>1, <1>8, <1>9, <2>1, <2>2 DEF OneHistory, Known
<1>11. ASSUME First' = Append(First, Unterminated(Record(p))) PROVE OneHistory'
  <2> DEFINE line == Unterminated(Record(p))
  <2>1. line \in LogLine /\ line.ops = {op[p]} /\ line.seq = Place(p) + 1 /\ Memory(p) = mem[p]
    BY <1>2, <1>4 DEF Unterminated, Record, Line, Place, Memory
  <2>2. First' = Append(First, line)
    BY <1>11
  <2> HIDE DEF line
  <2>3. NoneAbove(First', issued')
    <3>1. {op[p]} \subseteq 1..issued
      BY <1>4
    <3> QED
      BY <1>5, <1>7, <2>1, <2>2, <3>1, NoneAboveAppended
  <2>4. ASSUME use.turns PROVE ToldBy(First', base')
    <3>1. /\ ToldBy(First, base) /\ Fits(First, use.turns, Place(p), mem[p])
          /\ base[op[p]] = mem[p] /\ use.turns \in BOOLEAN
      BY <1>1, <1>2, <1>3, <1>4, <2>1, <2>4, BoundTypes DEF OneHistory, Known, Typed
    <3>2. \A o \in line.ops : base[o] = mem[p]
      BY <2>1, <3>1
    <3>3. First \in Seq(LogLine) /\ Place(p) \in Nat
      BY <1>4, <1>5
    <3>4. ToldBy(Append(First, line), base)
      BY <2>1, <3>1, <3>2, <3>3, FitsWritten
    <3> QED
      BY <1>7, <2>2, <3>4
  <2> QED
    BY <1>1, <1>8, <1>9, <2>3, <2>4 DEF OneHistory, Known
<1>12. CASE First' = Extend(First, Damaged)
  BY <1>5, <1>10, <1>12, DamagedExtends
<1>13. CASE First' = Extend(First, Unterminated(Record(p)))
  BY <1>4, <1>5, <1>10, <1>11, <1>13, ExtendIs
<1> QED
  BY <1>6, <1>12, <1>13

LEMMA HistoryStep ==
    ASSUME Typed, TurnsKept, OneFile, OneHistory, Undisturbed, NEW p \in Procs, Step(p)
    PROVE  OneHistory'
<1> SUFFICES ASSUME rewrites' = 0 PROVE OneHistory'
  BY DEF OneHistory
<1>1. /\ rewrites = 0 /\ log = 1 /\ pc[p] \notin Compacting /\ use' = use
      /\ (Undamaged' => Undamaged)
  BY BoundsGrow DEF OneFile
<1>2. ProcsTyped /\ 1 \in Files /\ First \in Seq(LogLine) /\ issued \in Nat
  BY UsesAssumption DEF Typed, Files, FilesTyped, First, UserTyped, Ops
<1>3. ASSUME NEW q \in Appenders, q # p, base' = base, Up(q)'
      PROVE  q \in Procs /\ (Known(q) => Remembers(q))
  BY <1>3, OthersSame DEF Same, Remembers, Known, Up, Place, Memory, Procs, Writers
\* Files, operations and bases stay as they are.
<1>4. ASSUME First' = First, issued' = issued, base' = base,
             p \in Appenders /\ Up(p)' => (Known(p) => Remembers(p))
      PROVE  OneHistory'
  <2>1. issued' >= issued /\ \A o \in 1..issued : base'[o] = base[o]
    BY <1>2, <1>4
  <2>2. \A q \in Appenders : Up(q)' => (Known(q) => Remembers(q))
    BY <1>3, <1>4
  <2> QED
    BY <1>4, <2>1, <2>2, HistoryUnchanged
<1>5. ASSUME Repaired(First, First'), issued' = issued, base' = base, Undamaged' => use.turns,
             p \in Appenders /\ Up(p)' => (Known(p) => Remembers(p))
      PROVE  OneHistory'
  <2>1. \A q \in Appenders : Up(q)' => (Known(q) => Remembers(q))
    BY <1>3, <1>5
  <2> QED
    BY <1>5, <2>1, HistoryRepaired
<1>6. CASE Open(p)
  <2>1. PICK lines \in Seen(log) :
           /\ nextSeq' = [nextSeq EXCEPT ![p] = GoodLen(lines) + 1]
           /\ mem' = [mem EXCEPT ![p] = Replayed(lines)]
           /\ pc' = [pc EXCEPT ![p] = IF Torn(lines) THEN "truncate" ELSE "openfile"]
           /\ UNCHANGED <<files, userVars>> /\ MayStart(p)
    BY <1>6 DEF Open, Read, Goto
  <2>2. First' = First /\ issued' = issued /\ base' = base
    BY <2>1 DEF First, userVars
  <2>3. lines \in Seq(LogLine) /\ (lines = Lines \/ (use.torn /\ \E q \in Appenders : pc[q] = "writing"))
    BY SeenIs
  <2>4. Lines = First
    BY <1>1 DEF Lines, First
  <2>5. ASSUME p \in Appenders, use.turns \/ Undamaged PROVE Refound(p)
    <3>1. lines = First
      BY <2>1, <2>3, <2>4, <2>5 DEF MayStart, Undamaged, Writers
    <3>2. /\ pc'[p] \in {"truncate", "openfile"}
          /\ nextSeq'[p] = GoodLen(First) + 1 /\ mem'[p] = Replayed(First)
      BY <1>2, <2>1, <3>1 DEF ProcsTyped
    <3>3. GoodLen(First) \in Nat /\ Replayed(First) = Upto(First, GoodLen(First))
      BY <1>2, ReplayedIs
    <3> QED
      BY <3>2, <3>3 DEF Place, Memory, Refound
  <2>6. issued' >= issued /\ \A o \in 1..issued : base'[o] = base[o]
    BY <1>2, <2>2
  <2> QED
    BY <1>3, <2>2, <2>5, <2>6, HistoryUnchanged
<1>7. CASE Truncate(p)
  <2>1. PICK lines \in Truncated(files[log], good[p]) : files' = [files EXCEPT ![log] = lines]
    BY <1>7 DEF Truncate
  <2>2. good[p] \in Seq(LogLine)
    BY <1>2 DEF ProcsTyped
  <2>3. First' = lines
    BY <1>1, <1>2, <2>1 DEF First, Typed, FilesTyped
  <2>4. Repaired(First, First')
    BY <1>1, <1>2, <2>2, <2>3, TruncatedIs DEF First
  <2>5. /\ pc[p] = "truncate" /\ pc'[p] \in {"terminate", "openfile"}
        /\ UNCHANGED <<nextSeq, mem, op, issued, base>>
    BY <1>2, <1>7 DEF Truncate, At, Goto, procVars, userVars, ProcsTyped
  <2>6. Undamaged' => use.turns
    BY <1>1, <2>5 DEF Undisturbed
  <2>7. Remembers(p)
    BY <2>5 DEF Remembers, Up, Place, Memory
  <2> QED
    BY <1>5, <2>4, <2>5, <2>6, <2>7
<1>8. CASE Terminate(p)
  <2>1. First' = Terminated(First)
    BY <1>1, <1>2, <1>8 DEF Terminate, First, Typed, FilesTyped
  <2>2. Repaired(First, First')
    BY <1>2, <2>1, TerminatedIs
  <2>3. /\ pc[p] = "terminate" /\ pc'[p] = "openfile"
        /\ UNCHANGED <<nextSeq, mem, op, issued, base>>
    BY <1>2, <1>8 DEF Terminate, At, Goto, procVars, userVars, ProcsTyped
  <2>4. Undamaged' => use.turns
    BY <1>1, <2>3 DEF Undisturbed
  <2>5. Remembers(p)
    BY <2>3 DEF Remembers, Up, Place, Memory
  <2> QED
    BY <1>5, <2>2, <2>3, <2>4, <2>5
<1>9. CASE OpenFile(p)
  <2>1. /\ pc[p] = "openfile" /\ pc'[p] = "ready"
        /\ UNCHANGED <<files, nextSeq, mem, op, issued, base>>
    BY <1>2, <1>9 DEF OpenFile, At, Goto, userVars, ProcsTyped
  <2>2. Remembers(p)
    BY <2>1 DEF Remembers, Up, Place, Memory
  <2> QED
    BY <1>4, <2>1, <2>2 DEF First
<1>10. CASE Write(p)
  <2>1. /\ pc[p] = "ready" /\ pc'[p] = "writing" /\ issued' = issued + 1
        /\ op' = [op EXCEPT ![p] = issued'] /\ base' = [base EXCEPT ![issued'] = mem[p]]
        /\ UNCHANGED <<files, nextSeq, mem>>
    BY <1>2, <1>10 DEF Write, At, Goto, ProcsTyped
  <2>2. issued' \in Ops
    BY <1>10, TypedStep DEF Step, Next, Typed, UserTyped
  <2>3. issued' >= issued /\ \A o \in 1..issued : base'[o] = base[o]
    BY <1>2, <2>1, <2>2 DEF Typed, UserTyped
  <2>4. op'[p] = issued' /\ base'[issued'] = mem[p]
    BY <1>2, <2>1, <2>2 DEF ProcsTyped, Typed, UserTyped
  <2>5. Remembers(p)
    BY <2>1, <2>4 DEF Remembers, Up, Place, Memory
  <2>6. ASSUME NEW q \in Appenders, q # p, Up(q)', Known(q)
        PROVE  Remembers(q)
    <3>1. Same(q) /\ q \in Procs
      BY <1>10, <2>6, OthersSame DEF Step, Procs, Writers
    <3>2. pc'[q] = "writing" => base'[op'[q]] = mem'[q]
      <4> HAVE pc'[q] = "writing"
      <4>1. pc[q] = "writing" /\ op[q] \in 1..issued
        BY <3>1, RecordIs DEF Same, Appending
      <4>2. base[op[q]] = mem[q]
        BY <2>6, <4>1 DEF Known, Up
      <4> QED
        BY <2>3, <3>1, <4>1, <4>2 DEF Same
    <3> QED
      BY <2>6, <3>1, <3>2 DEF Remembers, Same, Up, Place, Memory
  <2>7. First' = First
    BY <2>1 DEF First
  <2> QED
    BY <2>3, <2>5, <2>6, <2>7, HistoryUnchanged
<1>11. CASE WriteDone(p)
  BY <1>11, HistoryWritten
<1>12. CASE WriteCutShort(p)
  BY <1>12, HistoryCutShort
<1>13. CASE Sync(p)
  <2>1. /\ pc[p] = "sync" /\ pc'[p] = "report"
        /\ nextSeq'[p] = nextSeq[p] + 1 /\ mem'[p] = mem[p] \cup {op[p]}
        /\ nextSeq[p] \in Nat
        /\ UNCHANGED <<files, op, issued, base>>
    BY <1>2, <1>13 DEF Sync, At, Goto, userVars, ProcsTyped
  <2>2. Remembers(p)
    BY <2>1 DEF Remembers, Up, Place, Memory
  <2> QED
    BY <1>4, <2>1, <2>2 DEF First
<1>14. CASE Report(p)
  <2>1. /\ pc[p] = "report" /\ pc'[p] = "ready"
        /\ UNCHANGED <<files, nextSeq, mem, op, issued, base>>
    BY <1>2, <1>14 DEF Report, At, Goto, procVars, ProcsTyped
  <2>2. Remembers(p)
    BY <2>1 DEF Remembers, Up, Place, Memory
  <2> QED
    BY <1>4, <2>1, <2>2 DEF First
<1>15. CASE OpenCompacting(p)
  <2>1. rewrites' = 1
    BY <1>1, <1>15 DEF OpenCompacting
  <2> QED
    BY <2>1
<1>16. CASE WriteSnapshot(p) \/ SnapshotDone(p) \/ SnapshotCutShort(p) \/ Rename(p) \/ Reopen(p)
  BY <1>1, <1>16 DEF WriteSnapshot, SnapshotDone, SnapshotCutShort, Rename, Reopen, Read, At, Compacting
<1>17. CASE Exit(p)
  <2>1. ~Up(p)' /\ UNCHANGED <<files, issued, base>>
    BY <1>2, <1>17 DEF Exit, Ended, Up, ProcsTyped, userVars
  <2> QED
    BY <1>4, <2>1 DEF First
<1> QED
  BY <1>6, <1>7, <1>8, <1>9, <1>10, <1>11, <1>12, <1>13, <1>14, <1>15, <1>16, <1>17 DEF Step

\* Without damage to repair the log of the first history only grows.
LEMMA UndisturbedStep ==
    ASSUME Typed, OneFile, Undisturbed, NEW p \in Procs, Step(p)
    PROVE  Undisturbed'
<1> SUFFICES ASSUME Undamaged', rewrites' = 0 PROVE Undisturbed'
  BY DEF Undisturbed
<1>1. /\ rewrites = 0 /\ log = 1 /\ pc[p] \notin Compacting /\ use' = use /\ Undamaged
  BY BoundsGrow DEF OneFile
<1>2. ProcsTyped /\ 1 \in Files /\ First \in Seq(LogLine)
  BY UsesAssumption DEF Typed, Files, FilesTyped, First
<1>3. /\ First # <<>> /\ AllWhole(First)
      /\ acked \subseteq Upto(First, Len(First))
      /\ \A q \in Procs :
            /\ pc[q] \notin {"truncate", "terminate"}
            /\ pc[q] \in {"sync", "report"} => op[q] \in Upto(First, Len(First))
  BY <1>1 DEF Undisturbed
\* The file stays as it is.
<1>4. ASSUME First' = First, acked' \subseteq Upto(First, Len(First)),
             pc'[p] \notin {"truncate", "terminate"},
             pc'[p] \in {"sync", "report"} => op'[p] \in Upto(First, Len(First))
      PROVE  Undisturbed'
  BY <1>3, <1>4, OthersSame DEF Undisturbed, Same
<1>5. CASE Open(p)
  <2>1. PICK lines \in Seen(log) :
           /\ pc' = [pc EXCEPT ![p] = IF Torn(lines) THEN "truncate" ELSE "openfile"]
           /\ UNCHANGED <<files, acked>>
    BY <1>5 DEF Open, Read, Goto, userVars
  <2>2. lines = First
    BY <1>1, SeenIs DEF Undamaged, Lines, First
  <2>3. ~Torn(lines)
    BY <1>2, <1>3, <2>2, WholeEnds
  <2>4. pc'[p] = "openfile"
    BY <1>2, <2>1, <2>3 DEF ProcsTyped
  <2> QED
    BY <1>3, <1>4, <2>1, <2>4 DEF First
<1>6. CASE Truncate(p) \/ Terminate(p)
  BY <1>3, <1>6 DEF Truncate, Terminate, At
<1>7. CASE OpenFile(p)
  <2>1. pc'[p] = "ready" /\ UNCHANGED <<files, acked>>
    BY <1>2, <1>7 DEF OpenFile, Goto, userVars, ProcsTyped
  <2> QED
    BY <1>3, <1>4, <2>1 DEF First
<1>8. CASE Write(p)
  <2>1. pc'[p] = "writing" /\ UNCHANGED <<files, acked>>
    BY <1>2, <1>8 DEF Write, Goto, ProcsTyped
  <2> QED
    BY <1>3, <1>4, <2>1 DEF First
<1>9. CASE WriteDone(p)
  <2>1. /\ pc[p] = "writing" /\ Put(p, Record(p)) /\ pc'[p] = "sync"
        /\ UNCHANGED <<op, acked>>
    BY <1>2, <1>9 DEF WriteDone, Written, At, Goto, procVars, userVars, ProcsTyped
  <2>2. Record(p) \in LogLine /\ Record(p).frame = "whole" /\ Record(p).ops = {op[p]}
    BY <2>1, RecordIs DEF Appending, Record, Line
  <2>3. handle[p] = 1
    BY <1>1, <2>1 DEF OneFile, Typed, RolesKept, Appending
  <2>4. First' = Append(First, Record(p))
    BY <1>2, <1>3, <2>1, <2>2, <2>3, WholeEnds, ExtendIs DEF Put, First, Typed, FilesTyped
  <2>5. OneMore(First, First', Record(p))
    BY <1>2, <2>2, <2>4, AppendIs
  <2>6. /\ First' \in Seq(LogLine) /\ Len(First') = Len(First) + 1 /\ Len(First) \in Nat
        /\ Upto(First', Len(First')) = Upto(First, Len(First)) \cup {op[p]}
        /\ \A i \in 1..Len(First) : First'[i] = First[i]
        /\ First'[Len(First')] = Record(p)
    BY <1>2, <2>2, <2>5 DEF OneMore
  <2>7. First' # <<>>
    BY <2>6
  <2>8. ASSUME NEW i \in 1..Len(First') PROVE First'[i].frame = "whole"
    <3>1. i \in 1..Len(First) \/ i = Len(First')
      BY <2>6
    <3> QED
      BY <1>3, <2>2, <2>6, <3>1 DEF AllWhole
  <2>9. ASSUME NEW q \in Procs
        PROVE  /\ pc'[q] \notin {"truncate", "terminate"}
               /\ pc'[q] \in {"sync", "report"} => op'[q] \in Upto(First', Len(First'))
    <3>1. CASE q = p
      BY <2>1, <2>6, <3>1
    <3>2. CASE q # p
      BY <1>3, <2>6, <3>2, OthersSame DEF Same
    <3> QED
      BY <3>1, <3>2
  <2>10. acked' \subseteq Upto(First', Len(First'))
    BY <1>3, <2>1, <2>6
  <2> QED
    BY <2>7, <2>8, <2>9, <2>10 DEF Undisturbed, AllWhole
<1>10. CASE WriteCutShort(p)
  <2>1. cuts' = cuts + 1 /\ cuts = 0
    BY <1>1, <1>10 DEF WriteCutShort, Undamaged
  <2> QED
    BY <2>1 DEF Undamaged
<1>11. CASE Sync(p)
  <2>1. pc[p] = "sync" /\ UNCHANGED <<files, op, acked>> /\ pc'[p] = "report"
    BY <1>2, <1>11 DEF Sync, At, Goto, userVars, ProcsTyped
  <2> QED
    BY <1>3, <1>4, <2>1 DEF First
<1>12. CASE Report(p)
  <2>1. pc[p] = "report" /\ UNCHANGED <<files, op>> /\ pc'[p] = "ready" /\ acked' = acked \cup {op[p]}
    BY <1>2, <1>12 DEF Report, At, Goto, procVars, ProcsTyped
  <2> QED
    BY <1>3, <1>4, <2>1 DEF First
<1>13. CASE OpenCompacting(p)
  <2>1. rewrites' = 1
    BY <1>1, <1>13 DEF OpenCompacting
  <2> QED
    BY <2>1
<1>14. CASE WriteSnapshot(p) \/ SnapshotDone(p) \/ SnapshotCutShort(p) \/ Rename(p) \/ Reopen(p)
  BY <1>1, <1>14 DEF WriteSnapshot, SnapshotDone, SnapshotCutShort, Rename, Reopen, Read, At, Compacting
<1>15. CASE Exit(p)
  <2>1. pc'[p] = "down" /\ UNCHANGED <<files, acked>>
    BY <1>2, <1>15 DEF Exit, Ended, ProcsTyped, userVars
  <2> QED
    BY <1>3, <1>4, <2>1 DEF First
<1> QED
  BY <1>5, <1>6, <1>7, <1>8, <1>9, <1>10, <1>11, <1>12, <1>13, <1>14, <1>15 DEF Step

-----------------------------------------------------------------------------
HInv == Typed /\ TurnsKept /\ OneFile /\ OneHistory /\ Undisturbed

\* The log that Init lets the commands find.
LEMMA FirstLog ==
    ASSUME Init
    PROVE  /\ First = <<Line(1, {1})>> /\ First \in Seq(LogLine) /\ First # <<>>
           /\ Len(First) = 1 /\ First[1] = Line(1, {1}) /\ GoodLen(First) = 1
           /\ Upto(First, 1) = {1} /\ AllWhole(First)
<1>1. Typed /\ 1 \in Files
  BY InitTyped, UsesAssumption DEF Files
<1>2. First = <<Line(1, {1})>> /\ First \in Seq(LogLine)
  BY <1>1 DEF Init, First, Typed, FilesTyped
<1>3. Len(First) = 1 /\ First[1] = Line(1, {1}) /\ First # <<>>
  BY <1>2
<1>4. \A i \in 1..1 : Valid(First, i)
  <2>1. Valid(First, 1)
    BY <1>3 DEF Valid, Parsed, Unparsable, Line
  <2> QED
    BY <2>1
<1>5. GoodLen(First) \in 0..1 /\ 1 <= GoodLen(First)
  <2>1. GoodLen(First) \in 0..1
    BY <1>2, <1>3, GoodLenIs
  <2>2. 1 \in 0..Len(First)
    BY <1>3
  <2> QED
    BY <1>2, <1>4, <2>1, <2>2, GoodLenAtLeast
<1>6. Upto(First, 1) = {1}
  BY <1>3 DEF Upto, Line
<1> QED
  BY <1>2, <1>3, <1>5, <1>6 DEF AllWhole, Line

LEMMA HInvInit == Init => HInv
<1> SUFFICES ASSUME Init PROVE HInv
  OBVIOUS
<1>1. Typed
  BY InitTyped
<1>2. /\ \A p \in Procs : pc[p] = "down" /\ handle[p] = 0
      /\ log = 1 /\ compacting = 0 /\ issued = 1 /\ acked = {1}
  BY DEF Init
<1>3. TurnsKept /\ OneFile
  BY <1>2 DEF TurnsKept, OneFile, Up, Writers, Procs, Compacting
<1>4. OneHistory
  <2>1. NoneAbove(First, issued)
    <3>1. First[1].ops = {1} /\ Len(First) = 1
      BY FirstLog DEF Line
    <3>2. \A i \in 1..Len(First) : First[i].ops \subseteq 1..issued
      BY <1>2, <3>1
    <3> QED
      BY <3>2 DEF NoneAbove
  <2>2. ToldBy(First, base)
    BY FirstLog DEF ToldBy
  <2> QED
    BY <1>2, <2>1, <2>2 DEF OneHistory, Known, Up, Procs, Writers
<1>5. Undisturbed
  BY <1>2, FirstLog DEF Undisturbed
<1> QED
  BY <1>1, <1>3, <1>4, <1>5 DEF HInv

LEMMA HInvStep == HInv /\ [Next]_vars => HInv'
<1> SUFFICES ASSUME HInv, [Next]_vars PROVE HInv'
  OBVIOUS
<1>1. Typed'
  BY TypedStep DEF HInv
<1>2. CASE Next
  <2>1. PICK p \in Procs : Step(p)
    BY <1>2 DEF Next, Step
  <2> QED
    BY <1>1, <2>1, TurnsStep, OneFileStep, HistoryStep, UndisturbedStep DEF HInv
<1>3. CASE UNCHANGED vars
  BY <1>1, <1>3
     DEF HInv, TurnsKept, OneFile, OneHistory, Undisturbed, Known, Place, Memory, Up, First, Undamaged,
         ToldBy, vars, nameVars, procVars, userVars, bounds
<1> QED
  BY <1>2, <1>3

(***************************************************************************)
(* What the log replays to is one history, however the commands overlap    *)
(* and, when they take turns, whatever was cut short and repaired.         *)
(***************************************************************************)
THEOREM HistoriesAreNotStale == Spec => []NothingStale
<1>1. HInv => NothingStale
  <2> SUFFICES ASSUME HInv, rewrites = 0, use.turns \/ Undamaged PROVE NothingStale
    BY DEF NothingStale
  <2>1. ToldBy(Lines, base)
    BY DEF HInv, OneHistory, OneFile, Lines, First
  <2> QED
    BY <2>1 DEF NothingStale, ToldBy, Upto
<1> QED
  BY <1>1, HInvInit, HInvStep, PTL DEF Spec

(***************************************************************************)
(* However the commands overlap, a command that was told its operation is  *)
(* done finds it again or is told that the log is corrupt.                 *)
(***************************************************************************)
THEOREM LossIsReported == Spec => []NothingLostSilently
<1>1. HInv => NothingLostSilently
  <2> SUFFICES ASSUME HInv, rewrites = 0, Undamaged, ~Corrupt(Lines)
               PROVE  acked \subseteq Replayed(Lines)
    BY DEF NothingLostSilently
  <2>1. Lines = First /\ First \in Seq(LogLine) /\ AllWhole(First) /\ acked \subseteq Upto(First, Len(First))
    BY UsesAssumption DEF HInv, OneFile, Undisturbed, Lines, First, Typed, FilesTyped, Files
  <2>2. GoodLen(First) \in 0..Len(First) /\ Len(First) \in Nat
    BY <2>1, GoodLenIs
  <2>3. ASSUME GoodLen(First) < Len(First) PROVE FALSE
    <3>1. GoodLen(First) + 1 \in 1..Len(First)
      BY <2>2, <2>3
    <3>2. Parsed(First[GoodLen(First) + 1])
      BY <2>1, <3>1 DEF AllWhole, Parsed, Unparsable
    <3> QED
      BY <2>1, <2>3, <3>2 DEF Corrupt
  <2>4. GoodLen(First) = Len(First)
    BY <2>2, <2>3
  <2> QED
    BY <2>1, <2>4, ReplayedIs
<1> QED
  BY <1>1, HInvInit, HInvStep, PTL DEF Spec

-----------------------------------------------------------------------------
(***************************************************************************)
(* Commands that take turns, through compactions too.  At each system call *)
(* of the one command that writes, the log holds its memory and nothing    *)
(* else, and the file that a compaction prepares is its own.               *)
(***************************************************************************)
Ordered(lines) ==
    lines # <<>> /\ \A i \in 1..Len(lines) : lines[i].frame = "whole" /\ lines[i].seq = i

\* What the one command that writes has in hand.
InStep(p) ==
    /\ Memory(p) = Upto(Lines, Len(Lines))
    /\ pc[p] \in {"openfile", "ready"} \cup Appending => Place(p) = Len(Lines)
    /\ pc[p] \in {"ready"} \cup Appending => handle[p] = log
    /\ pc[p] \in {"snapshot", "writingsnapshot", "rename"} =>
           compacting # 0 /\ handle[p] = compacting
    /\ pc[p] \in {"snapshot", "writingsnapshot"} => files[compacting] = <<>>
    /\ pc[p] = "rename" => files[compacting] = <<Line(1, mem[p])>>
    /\ pc[p] = "report" => op[p] \in mem[p]

InOrder ==
    use.turns /\ Undamaged =>
        /\ Ordered(Lines)
        /\ \A p \in Procs : pc[p] \notin {"truncate", "terminate"}
        /\ acked \subseteq Upto(Lines, Len(Lines))
        /\ \A p \in Writers : Up(p) => InStep(p)

LEMMA OrderedIs ==
    ASSUME NEW lines \in Seq(LogLine), Ordered(lines)
    PROVE  /\ GoodLen(lines) = Len(lines) /\ Replayed(lines) = Upto(lines, Len(lines))
           /\ ~Corrupt(lines) /\ ~Torn(lines) /\ EndsInNewline(lines)
<1>1. Len(lines) \in Nat /\ GoodLen(lines) \in 0..Len(lines)
  BY GoodLenIs
<1>2. \A i \in 1..Len(lines) : Valid(lines, i)
  BY DEF Ordered, Valid, Parsed, Unparsable
<1>3. Len(lines) \in 0..Len(lines)
  BY <1>1
<1>4. Len(lines) <= GoodLen(lines)
  BY <1>2, <1>3, GoodLenAtLeast
<1>5. GoodLen(lines) = Len(lines)
  BY <1>1, <1>4
<1>6. ~Corrupt(lines)
  BY <1>1, <1>5 DEF Corrupt
<1>7. ~Torn(lines) /\ EndsInNewline(lines)
  BY WholeEnds DEF Ordered, AllWhole
<1> QED
  BY <1>5, <1>6, <1>7, ReplayedIs

LEMMA OrderedAppended ==
    ASSUME NEW lines \in Seq(LogLine), Ordered(lines),
           NEW line \in LogLine, line.frame = "whole", line.seq = Len(lines) + 1
    PROVE  /\ Ordered(Append(lines, line)) /\ Len(Append(lines, line)) = Len(lines) + 1
           /\ Upto(Append(lines, line), Len(lines) + 1) = Upto(lines, Len(lines)) \cup line.ops
<1> DEFINE new == Append(lines, line)
<1>1. OneMore(lines, new, line)
  BY AppendIs
<1> HIDE DEF new
<1>2. /\ new \in Seq(LogLine) /\ Len(new) = Len(lines) + 1 /\ Len(lines) \in Nat
      /\ Upto(new, Len(new)) = Upto(lines, Len(lines)) \cup line.ops
      /\ \A i \in 1..Len(lines) : new[i] = lines[i]
      /\ new[Len(new)] = line
  BY <1>1 DEF OneMore
<1>3. new # <<>>
  BY <1>2
<1>4. ASSUME NEW i \in 1..Len(new) PROVE new[i].frame = "whole" /\ new[i].seq = i
  <2>1. i \in 1..Len(lines) \/ i = Len(new)
    BY <1>2
  <2> QED
    BY <1>2, <2>1 DEF Ordered
<1>5. Ordered(new)
  BY <1>3, <1>4 DEF Ordered
<1> QED
  BY <1>2, <1>5 DEF new

\* A compacted log.
LEMMA OrderedSnapshot ==
    ASSUME NEW ops \in SUBSET Ops, NEW lines, lines = <<Line(1, ops)>>
    PROVE  Ordered(lines) /\ Len(lines) = 1 /\ Upto(lines, Len(lines)) = ops
<1>1. Len(lines) = 1 /\ lines[1] = Line(1, ops) /\ lines # <<>>
  OBVIOUS
<1>2. Line(1, ops).ops = ops /\ Line(1, ops).seq = 1 /\ Line(1, ops).frame = "whole"
  BY DEF Line
<1>3. Upto(lines, 1) = ops
  BY <1>1, <1>2 DEF Upto
<1>4. \A i \in 1..1 : lines[i].frame = "whole" /\ lines[i].seq = i
  BY <1>1, <1>2
<1> QED
  BY <1>1, <1>3, <1>4 DEF Ordered

\* A step that leaves the named log as it is, and the prepared file as well
\* unless the command itself writes it.
LEMMA InOrderUnchanged ==
    ASSUME Typed, TurnsKept, InOrder, NEW p \in Procs, Step(p), use.turns, Undamaged,
           Lines' = Lines, log' = log, acked' \subseteq Upto(Lines, Len(Lines)),
           pc'[p] \notin {"truncate", "terminate"},
           p \in Writers /\ Up(p)' => InStep(p)',
           p \notin Writers => compacting' = compacting /\ files' = files
    PROVE  InOrder'
<1>1. /\ Ordered(Lines)
      /\ \A q \in Procs : pc[q] \notin {"truncate", "terminate"}
      /\ \A q \in Writers : Up(q) => InStep(q)
  BY DEF InOrder
<1>2. \A q \in Procs \ {p} : Same(q)
  BY OthersSame
<1>3. ASSUME NEW q \in Writers, Up(q)' PROVE InStep(q)'
  <2>1. CASE q = p
    BY <1>3, <2>1
  <2>2. CASE q # p /\ p \in Writers
    <3>1. Up(q) /\ q \in Procs
      BY <1>2, <1>3, <2>2 DEF Same, Up, Procs
    <3>2. ~Up(p)
      BY <2>2, <3>1 DEF TurnsKept
    <3>3. MayStart(p)
      BY <3>2, StartsInTurn DEF Open
    <3> QED
      BY <2>2, <3>1, <3>3 DEF MayStart, Up
  <2>3. CASE p \notin Writers
    <3>1. q \in Procs \ {p}
      BY <2>3 DEF Procs
    <3>2. Same(q) /\ Up(q)
      BY <1>2, <1>3, <3>1 DEF Same, Up
    <3>3. InStep(q)
      BY <1>1, <3>2
    <3> QED
      BY <2>3, <3>2, <3>3 DEF InStep, Same, Memory, Place
  <2> QED
    BY <2>1, <2>2, <2>3
<1>4. \A q \in Procs : pc'[q] \notin {"truncate", "terminate"}
  BY <1>1, <1>2 DEF Same
<1> QED
  BY <1>1, <1>3, <1>4 DEF InOrder

\* A step of the one command that writes.
LEMMA InOrderWritten ==
    ASSUME Typed, TurnsKept, InOrder, NEW p \in Writers, Step(p), use.turns, Undamaged, Up(p),
           Ordered(Lines'), acked' \subseteq Upto(Lines', Len(Lines')),
           pc'[p] \notin {"truncate", "terminate"}, Up(p)' => InStep(p)'
    PROVE  InOrder'
<1>1. p \in Procs /\ \A q \in Procs : pc[q] \notin {"truncate", "terminate"}
  BY DEF InOrder, Procs
<1>2. \A q \in Procs \ {p} : Same(q)
  BY <1>1, OthersSame
<1>3. ASSUME NEW q \in Writers, q # p PROVE ~Up(q)'
  BY <1>2, <1>3 DEF Same, Up, Procs, TurnsKept
<1>4. \A q \in Procs : pc'[q] \notin {"truncate", "terminate"}
  BY <1>1, <1>2 DEF Same
<1> QED
  BY <1>3, <1>4 DEF InOrder

LEMMA InOrderStep ==
    ASSUME Typed, TurnsKept, InOrder, NEW p \in Procs, Step(p)
    PROVE  InOrder'
<1> SUFFICES ASSUME use.turns', Undamaged' PROVE InOrder'
  BY DEF InOrder
<1>1. use.turns /\ Undamaged /\ use' = use
  BY BoundsGrow
<1>2. ProcsTyped /\ FilesTyped /\ log \in Files /\ compacting \in (Files \ {log}) \cup {0}
  BY DEF Typed, NamesTyped
<1>3. Lines \in Seq(LogLine)
  BY <1>2 DEF Lines, FilesTyped
<1>4. /\ Ordered(Lines)
      /\ \A q \in Procs : pc[q] \notin {"truncate", "terminate"}
      /\ acked \subseteq Upto(Lines, Len(Lines))
      /\ p \in Writers /\ Up(p) => InStep(p)
  BY <1>1 DEF InOrder
\* The files, their names and what was reported stay as they are.
<1>5. ASSUME UNCHANGED <<files, nameVars, acked>>, pc'[p] \notin {"truncate", "terminate"},
             p \in Writers /\ Up(p)' => InStep(p)'
      PROVE  InOrder'
  <2>1. Lines' = Lines /\ log' = log /\ compacting' = compacting /\ files' = files
    BY <1>5 DEF Lines, nameVars
  <2> QED
    BY <1>1, <1>4, <1>5, <2>1, InOrderUnchanged
<1>6. ASSUME NEW step \in {"down", "reopen"}, Read(p, step)
      PROVE  /\ pc[p] = step /\ pc'[p] = "openfile" /\ UNCHANGED <<files, nameVars, acked, op>>
             /\ nextSeq'[p] = Len(Lines) + 1
             /\ mem'[p] = IF step = "reopen" THEN mem[p] ELSE Upto(Lines, Len(Lines))
  <2>1. PICK lines \in Seen(log) :
           /\ nextSeq' = [nextSeq EXCEPT ![p] = GoodLen(lines) + 1]
           /\ mem' = IF step = "reopen" THEN mem ELSE [mem EXCEPT ![p] = Replayed(lines)]
           /\ pc' = [pc EXCEPT ![p] = IF Torn(lines) THEN "truncate" ELSE "openfile"]
           /\ UNCHANGED <<files, nameVars, acked, op>> /\ pc[p] = step
    BY <1>6 DEF Read, Goto, At, userVars
  <2>2. lines = Lines
    BY <1>1, SeenIs DEF Undamaged
  <2>3. GoodLen(lines) = Len(Lines) /\ Replayed(lines) = Upto(Lines, Len(Lines)) /\ ~Torn(lines)
    BY <1>3, <1>4, <2>2, OrderedIs
  <2> HIDE DEF Lines
  <2>4. pc'[p] = "openfile" /\ nextSeq'[p] = Len(Lines) + 1
    BY <1>2, <2>1, <2>3 DEF ProcsTyped
  <2>5. mem'[p] = IF step = "reopen" THEN mem[p] ELSE Upto(Lines, Len(Lines))
    BY <1>2, <2>1, <2>3 DEF ProcsTyped
  <2> QED
    BY <2>1, <2>4, <2>5
<1>7. CASE Open(p)
  <2>1. /\ pc'[p] = "openfile" /\ UNCHANGED <<files, nameVars, acked>>
        /\ nextSeq'[p] = Len(Lines) + 1 /\ mem'[p] = Upto(Lines, Len(Lines))
    BY <1>6, <1>7 DEF Open
  <2>2. InStep(p)'
    BY <1>3, <2>1 DEF InStep, Memory, Place, Lines, nameVars, Appending
  <2> QED
    BY <1>5, <2>1, <2>2
<1>8. CASE Reopen(p)
  <2>1. /\ pc[p] = "reopen" /\ pc'[p] = "openfile" /\ UNCHANGED <<files, nameVars, acked>>
        /\ nextSeq'[p] = Len(Lines) + 1 /\ mem'[p] = mem[p]
    BY <1>6, <1>8 DEF Reopen
  <2>2. p \in Writers /\ Up(p)
    BY <2>1 DEF Typed, RolesKept, Compacting, Writers, Up
  <2>3. mem[p] = Upto(Lines, Len(Lines))
    BY <1>4, <2>1, <2>2 DEF InStep, Memory
  <2>4. InStep(p)'
    BY <1>3, <2>1, <2>3 DEF InStep, Memory, Place, Lines, nameVars, Appending
  <2> QED
    BY <1>5, <2>1, <2>4
<1>9. CASE Truncate(p) \/ Terminate(p)
  BY <1>4, <1>9 DEF Truncate, Terminate, At
<1>10. CASE OpenFile(p)
  <2>1. /\ pc[p] = "openfile" /\ pc'[p] = "ready" /\ handle'[p] = log
        /\ UNCHANGED <<files, nameVars, nextSeq, mem, op, acked>>
    BY <1>2, <1>10 DEF OpenFile, At, Goto, userVars, ProcsTyped
  <2>2. ASSUME p \in Writers PROVE InStep(p)'
    BY <1>4, <2>1, <2>2 DEF InStep, Memory, Place, Lines, nameVars, Appending, Up
  <2> QED
    BY <1>5, <2>1, <2>2
<1>11. CASE Write(p)
  <2>1. /\ pc[p] = "ready" /\ pc'[p] = "writing"
        /\ UNCHANGED <<files, nameVars, handle, nextSeq, mem, acked>>
    BY <1>2, <1>11 DEF Write, At, Goto, ProcsTyped
  <2>2. ASSUME p \in Writers PROVE InStep(p)'
    BY <1>4, <2>1, <2>2 DEF InStep, Memory, Place, Lines, nameVars, Appending, Up
  <2> QED
    BY <1>5, <2>1, <2>2
<1>12. CASE WriteDone(p)
  <2>1. /\ pc[p] = "writing" /\ Put(p, Record(p)) /\ pc'[p] = "sync"
        /\ UNCHANGED <<nameVars, handle, nextSeq, mem, op, acked>>
    BY <1>2, <1>12 DEF WriteDone, Written, At, Goto, procVars, userVars, ProcsTyped
  <2>2. /\ p \in Writers /\ Up(p) /\ Record(p) \in LogLine /\ nextSeq[p] \in Nat
        /\ Record(p).frame = "whole" /\ Record(p).ops = {op[p]} /\ Record(p).seq = nextSeq[p]
    BY <2>1, RecordIs DEF Appending, Record, Line, Writers, Up
  <2>3. /\ handle[p] = log /\ nextSeq[p] = Len(Lines) + 1
        /\ mem[p] = Upto(Lines, Len(Lines))
    BY <1>3, <1>4, <2>1, <2>2 DEF InStep, Memory, Place, Appending
  <2>4. Lines' = Append(Lines, Record(p))
    BY <1>2, <1>3, <1>4, <2>1, <2>2, <2>3, OrderedIs, ExtendIs DEF Put, Lines, FilesTyped, nameVars
  <2>5. /\ Ordered(Lines') /\ Len(Lines') = nextSeq[p]
        /\ Upto(Lines', nextSeq[p]) = mem[p] \cup {op[p]}
    BY <1>3, <1>4, <2>2, <2>3, <2>4, OrderedAppended
  <2>6. InStep(p)'
    BY <2>1, <2>3, <2>5 DEF InStep, Memory, Place, nameVars
  <2>7. acked' \subseteq Upto(Lines', Len(Lines'))
    BY <1>4, <2>1, <2>3, <2>5
  <2> QED
    BY <1>1, <2>1, <2>2, <2>5, <2>6, <2>7, InOrderWritten
<1>13. CASE WriteCutShort(p)
  <2>1. cuts' = cuts + 1 /\ cuts = 0
    BY <1>1, <1>13 DEF WriteCutShort, Undamaged
  <2> QED
    BY <2>1 DEF Undamaged
<1>14. CASE Sync(p)
  <2>1. /\ pc[p] = "sync" /\ pc'[p] = "report"
        /\ nextSeq'[p] = nextSeq[p] + 1 /\ mem'[p] = mem[p] \cup {op[p]} /\ nextSeq[p] \in Nat
        /\ UNCHANGED <<files, nameVars, handle, op, acked>>
    BY <1>2, <1>14 DEF Sync, At, Goto, userVars, ProcsTyped
  <2>2. ASSUME p \in Writers PROVE InStep(p)'
    BY <1>4, <2>1, <2>2 DEF InStep, Memory, Place, Lines, nameVars, Appending, Up
  <2> QED
    BY <1>5, <2>1, <2>2
<1>15. CASE Report(p)
  <2>1. /\ pc[p] = "report" /\ pc'[p] = "ready" /\ acked' = acked \cup {op[p]}
        /\ UNCHANGED <<files, nameVars, handle, nextSeq, mem, op>>
    BY <1>2, <1>15 DEF Report, At, Goto, procVars, ProcsTyped
  <2>2. p \in Writers /\ Up(p)
    BY <2>1, RecordIs DEF Appending, Writers, Up
  <2>3. op[p] \in Upto(Lines, Len(Lines)) /\ InStep(p)'
    BY <1>4, <2>1, <2>2 DEF InStep, Memory, Place, Lines, nameVars, Appending
  <2>4. Lines' = Lines
    BY <2>1 DEF Lines, nameVars
  <2> QED
    BY <1>1, <1>4, <2>1, <2>2, <2>3, <2>4, InOrderWritten
<1>16. CASE OpenCompacting(p)
  <2>1. /\ pc[p] = "ready" /\ pc'[p] = "snapshot" /\ p \in Writers /\ Up(p) /\ p \notin Appenders
        /\ handle'[p] = compacting' /\ files' = [files EXCEPT ![compacting'] = <<>>]
        /\ UNCHANGED <<log, nextSeq, mem, op, acked>>
    BY <1>2, <1>16, RolesAssumption
       DEF OpenCompacting, FileTruncated, At, Goto, userVars, ProcsTyped, Writers, Up
  <2>2. compacting' \in Files /\ compacting' # log /\ compacting' # 0
    <3>1. Typed'
      BY TypedStep DEF Step, Next
    <3>2. compacting' \in (Files \ {log}) \cup {0}
      BY <2>1, <3>1 DEF Typed, NamesTyped
    <3>3. rewrites \in Nat /\ compacting' = IF compacting = 0 THEN rewrites + 2 ELSE compacting
      BY <1>16, BoundTypes DEF OpenCompacting, FileTruncated, Typed
    <3> QED
      BY <3>2, <3>3
  <2>3. Lines' = Lines /\ files'[compacting'] = <<>>
    BY <1>2, <2>1, <2>2 DEF Lines, FilesTyped
  <2>4. InStep(p)'
    BY <1>4, <2>1, <2>2, <2>3 DEF InStep, Memory, Appending
  <2> QED
    BY <1>1, <1>4, <2>1, <2>3, <2>4, InOrderWritten
<1>17. CASE WriteSnapshot(p)
  <2>1. /\ pc[p] = "snapshot" /\ pc'[p] = "writingsnapshot"
        /\ UNCHANGED <<files, nameVars, handle, nextSeq, mem, op, acked>>
    BY <1>2, <1>17 DEF WriteSnapshot, At, Goto, procVars, userVars, ProcsTyped
  <2>2. ASSUME p \in Writers PROVE InStep(p)'
    BY <1>4, <2>1, <2>2 DEF InStep, Memory, Place, Lines, nameVars, Appending, Up
  <2> QED
    BY <1>5, <2>1, <2>2
<1>18. CASE SnapshotDone(p)
  <2>1. /\ pc[p] = "writingsnapshot" /\ pc'[p] = "rename"
        /\ UNCHANGED <<nameVars, handle, nextSeq, mem, op, acked>>
    BY <1>2, <1>18 DEF SnapshotDone, At, Goto, procVars, userVars, ProcsTyped
  <2>2. p \in Writers /\ Up(p)
    BY <2>1 DEF Typed, RolesKept, Compacting, Writers, Up
  <2>3. /\ compacting # 0 /\ handle[p] = compacting /\ files[compacting] = <<>>
        /\ Memory(p) = Upto(Lines, Len(Lines))
    BY <1>4, <2>1, <2>2 DEF InStep
  <2>4. files' = [files EXCEPT ![compacting] = <<Snapshot(p)>>]
    BY <1>18, <2>3 DEF SnapshotDone, Overwritten
  <2>5. Lines' = Lines /\ files'[compacting'] = <<Line(1, mem'[p])>>
    BY <1>2, <2>1, <2>3, <2>4 DEF Lines, FilesTyped, nameVars, Snapshot
  <2>6. InStep(p)'
    BY <2>1, <2>3, <2>5 DEF InStep, Memory, Appending, nameVars
  <2> QED
    BY <1>1, <1>4, <2>1, <2>2, <2>5, <2>6, InOrderWritten
<1>19. CASE SnapshotCutShort(p)
  <2>1. pc[p] = "writingsnapshot" /\ pc'[p] = "down" /\ UNCHANGED <<nameVars, acked>>
    BY <1>2, <1>19 DEF SnapshotCutShort, At, Ended, userVars, ProcsTyped
  <2>2. p \in Writers /\ Up(p)
    BY <2>1 DEF Typed, RolesKept, Compacting, Writers, Up
  <2>3. compacting # 0 /\ handle[p] = compacting
    BY <1>4, <2>1, <2>2 DEF InStep
  <2>4. Lines' = Lines
    BY <1>2, <1>19, <2>1, <2>3 DEF SnapshotCutShort, Lines, FilesTyped, nameVars
  <2> QED
    BY <1>1, <1>4, <2>1, <2>2, <2>4, InOrderWritten DEF Up
<1>20. CASE Rename(p)
  <2>1. /\ pc[p] = "rename" /\ pc'[p] = "reopen" /\ log' = compacting
        /\ UNCHANGED <<files, mem, op, acked>>
    BY <1>2, <1>20 DEF Rename, Renamed, At, Goto, procVars, userVars, ProcsTyped
  <2>2. p \in Writers /\ Up(p) /\ mem[p] \in SUBSET Ops
    BY <1>2, <2>1 DEF Typed, RolesKept, Compacting, Writers, Up, ProcsTyped
  <2>3. Lines' = <<Line(1, mem[p])>> /\ mem[p] = Upto(Lines, Len(Lines))
    BY <1>4, <2>1, <2>2 DEF InStep, Memory, Lines
  <2>4. Ordered(Lines') /\ Upto(Lines', Len(Lines')) = mem[p]
    BY <2>2, <2>3, OrderedSnapshot
  <2>5. InStep(p)'
    BY <2>1, <2>4 DEF InStep, Memory, Appending
  <2>6. acked' \subseteq Upto(Lines', Len(Lines'))
    BY <1>4, <2>1, <2>3, <2>4
  <2> QED
    BY <1>1, <2>1, <2>2, <2>4, <2>5, <2>6, InOrderWritten
<1>21. CASE Exit(p)
  <2>1. pc'[p] = "down" /\ UNCHANGED <<files, nameVars, acked>>
    BY <1>2, <1>21 DEF Exit, Ended, ProcsTyped, userVars
  <2> QED
    BY <1>5, <2>1 DEF Up
<1> QED
  BY <1>7, <1>8, <1>9, <1>10, <1>11, <1>12, <1>13, <1>14, <1>15, <1>16, <1>17, <1>18, <1>19, <1>20,
     <1>21 DEF Step

TInv == Typed /\ TurnsKept /\ InOrder

LEMMA TInvInit == Init => TInv
<1> SUFFICES ASSUME Init PROVE TInv
  OBVIOUS
<1>1. Lines = First /\ Ordered(First) /\ acked = {1}
  BY FirstLog DEF Init, Lines, First, Ordered, Line
<1>2. InOrder
  BY <1>1, FirstLog DEF Init, InOrder, Up, Writers, Procs
<1> QED
  BY <1>2, HInvInit DEF TInv, HInv

LEMMA TInvStep == TInv /\ [Next]_vars => TInv'
<1> SUFFICES ASSUME TInv, [Next]_vars PROVE TInv'
  OBVIOUS
<1>1. Typed'
  BY TypedStep DEF TInv
<1>2. CASE Next
  <2>1. PICK p \in Procs : Step(p)
    BY <1>2 DEF Next, Step
  <2> QED
    BY <1>1, <2>1, TurnsStep, InOrderStep DEF TInv
<1>3. CASE UNCHANGED vars
  <2>1. /\ UNCHANGED <<files, log, compacting, pc, handle, nextSeq, mem, op, acked, use, cuts>>
    BY <1>3 DEF vars, nameVars, procVars, userVars, bounds
  <2> QED
    BY <1>1, <2>1 DEF TInv, TurnsKept, InOrder, InStep, Memory, Place, Up, Lines, Undamaged
<1> QED
  BY <1>2, <1>3

(***************************************************************************)
(* Commands that take turns are safe with any number of readers at any     *)
(* moment, and through any number of compactions.                          *)
(***************************************************************************)
THEOREM ReadersDoNoHarm == Spec => []ReadersAreHarmless
<1>1. TInv => ReadersAreHarmless
  <2> SUFFICES ASSUME TInv, use.turns, Undamaged PROVE Intact
    BY DEF ReadersAreHarmless
  <2>1. Ordered(Lines) /\ acked \subseteq Upto(Lines, Len(Lines)) /\ Lines \in Seq(LogLine)
    BY DEF TInv, InOrder, Typed, FilesTyped, NamesTyped, Lines
  <2> QED
    BY <2>1, OrderedIs DEF Intact
<1> QED
  BY <1>1, TInvInit, TInvStep, PTL DEF Spec
-----------------------------------------------------------------------------
(***************************************************************************)
(* To commands that take turns the directory is one durable log.           *)
(***************************************************************************)
Logged == Upto(Lines, Len(Lines))

\* A record that is being written is new, and its writer has all that is in the log.
InHand ==
    use.turns /\ Undamaged =>
        /\ Logged \subseteq 1..issued
        /\ \A p \in Procs : pc[p] = "writing" => op[p] \notin mem[p] /\ base[op[p]] = mem[p]

\* Only a write that is done changes what the log holds.
LEMMA LoggedStep ==
    ASSUME Typed, TurnsKept, InOrder, NEW p \in Procs, Step(p), use.turns, Undamaged'
    PROVE  \/ WriteDone(p) /\ mem[p] = Logged /\ Logged' = Logged \cup {op[p]}
           \/ ~WriteDone(p) /\ Logged' = Logged
<1>1. use.turns' /\ Undamaged
  BY BoundsGrow
<1>2. Typed' /\ InOrder'
  <2>1. Next
    BY DEF Next, Step
  <2> QED
    BY <2>1, TypedStep, InOrderStep
<1>3. ProcsTyped /\ FilesTyped /\ log \in Files
  BY DEF Typed, NamesTyped
<1>4. \A q \in Procs : pc[q] \notin {"truncate", "terminate"}
  BY <1>1 DEF InOrder
<1>5. ASSUME pc[p] \in {"ready"} \cup Appending \cup Compacting, p \in Writers
      PROVE  InStep(p) /\ Memory(p) = Logged
  BY <1>1, <1>5 DEF InOrder, InStep, Logged, Up, Appending, Compacting
<1>6. ASSUME p \in Writers, pc'[p] # "down"
      PROVE  Memory(p)' = Logged'
  BY <1>1, <1>2, <1>6 DEF InOrder, InStep, Logged, Up
<1>7. pc[p] \in Appending \cup Compacting => p \in Writers
  BY DEF Typed, RolesKept, Writers
<1>8. CASE WriteDone(p)
  <2>1. pc[p] = "writing" /\ pc'[p] = "sync" /\ mem' = mem /\ op' = op
    BY <1>3, <1>8 DEF WriteDone, At, Goto, procVars, ProcsTyped
  <2>2. Memory(p) = mem[p] /\ Memory(p)' = mem[p] \cup {op[p]}
    BY <2>1 DEF Memory
  <2> QED
    BY <1>5, <1>6, <1>7, <1>8, <2>1, <2>2 DEF Appending
<1>9. CASE OpenCompacting(p) \/ SnapshotDone(p) \/ Rename(p)
  <2>1. /\ pc[p] \in {"ready", "writingsnapshot", "rename"} /\ p \in Writers
        /\ pc'[p] \in {"snapshot", "rename", "reopen"} /\ mem' = mem
    BY <1>3, <1>7, <1>9
       DEF OpenCompacting, SnapshotDone, Rename, At, Goto, procVars, ProcsTyped, Writers, Compacting
  <2>2. Memory(p) = mem[p] /\ Memory(p)' = mem[p]
    BY <2>1 DEF Memory
  <2>3. ~WriteDone(p)
    BY <2>1 DEF WriteDone, At
  <2> QED
    BY <1>5, <1>6, <2>1, <2>2, <2>3 DEF Compacting
<1>10. CASE SnapshotCutShort(p)
  <2>1. pc[p] = "writingsnapshot" /\ log' = log
    BY <1>10 DEF SnapshotCutShort, At, nameVars
  <2>2. handle[p] = compacting /\ compacting # 0
    BY <1>5, <1>7, <2>1 DEF InStep, Compacting
  <2>3. compacting # log
    BY <2>2 DEF Typed, NamesTyped
  <2>4. Lines' = Lines
    BY <1>3, <1>10, <2>1, <2>2, <2>3 DEF SnapshotCutShort, Lines, FilesTyped
  <2> QED
    BY <2>1, <2>4 DEF Logged, WriteDone, At
<1>11. CASE WriteCutShort(p)
  <2>1. cuts' = cuts + 1 /\ cuts = 0
    BY <1>1, <1>11 DEF WriteCutShort, Undamaged
  <2> QED
    BY <2>1 DEF Undamaged
<1>12. CASE ~WriteDone(p) /\ UNCHANGED <<files, log>>
  BY <1>12 DEF Logged, Lines
<1>13. ASSUME Open(p) \/ Reopen(p) \/ OpenFile(p) \/ Write(p) \/ Sync(p) \/ Report(p)
                \/ WriteSnapshot(p) \/ Exit(p)
       PROVE  UNCHANGED <<files, log>>
  BY <1>13 DEF Open, Reopen, Read, OpenFile, Write, Sync, Report, WriteSnapshot, Exit, nameVars
<1> QED
  BY <1>4, <1>8, <1>9, <1>10, <1>11, <1>12, <1>13 DEF Step, Truncate, Terminate, At

LEMMA InHandStep ==
    ASSUME Typed, TurnsKept, InOrder, InHand, NEW p \in Procs, Step(p)
    PROVE  InHand'
<1> SUFFICES ASSUME use.turns', Undamaged'
             PROVE  /\ Logged' \subseteq 1..issued'
                    /\ \A q \in Procs : pc'[q] = "writing" =>
                           op'[q] \notin mem'[q] /\ base'[op'[q]] = mem'[q]
  BY DEF InHand
<1>1. use.turns /\ Undamaged
  BY BoundsGrow
<1>2. /\ Logged \subseteq 1..issued
      /\ \A q \in Procs : pc[q] = "writing" => op[q] \notin mem[q] /\ base[op[q]] = mem[q]
  BY <1>1 DEF InHand
<1>3. ProcsTyped /\ UserTyped /\ issued \in Nat
  BY UsesAssumption DEF Typed, UserTyped, Ops
<1>4. \A q \in Procs \ {p} : Same(q)
  BY OthersSame
<1>5. CASE Write(p)
  <2>1. /\ pc[p] = "ready" /\ p \in Appenders /\ issued' = issued + 1
        /\ op'[p] = issued + 1 /\ mem' = mem /\ base' = [base EXCEPT ![issued + 1] = mem[p]]
    BY <1>3, <1>5 DEF Write, At, ProcsTyped
  <2>2. issued + 1 \in Ops
    BY <1>3, <1>5, BoundTypes DEF Typed, Write, Ops
  <2>3. mem[p] = Logged /\ Logged' = Logged
    <3>1. InStep(p)
      BY <1>1, <2>1 DEF InOrder, Up, Writers
    <3>2. ~WriteDone(p)
      BY <2>1 DEF WriteDone, At
    <3> QED
      BY <1>1, <2>1, <3>1, <3>2, LoggedStep DEF InStep, Memory, Logged
  <2>4. op'[p] \notin mem'[p] /\ base'[op'[p]] = mem'[p]
    BY <1>2, <1>3, <2>1, <2>2, <2>3 DEF UserTyped
  <2>5. ASSUME NEW q \in Procs, q # p, pc'[q] = "writing"
        PROVE  op'[q] \notin mem'[q] /\ base'[op'[q]] = mem'[q]
    <3>1. pc[q] = "writing" /\ op'[q] = op[q] /\ mem'[q] = mem[q]
      BY <1>4, <2>5 DEF Same
    <3>2. op[q] \in 1..issued /\ op[q] \in Ops
      BY <3>1, RecordIs DEF Appending
    <3>3. base'[op[q]] = base[op[q]]
      BY <1>3, <2>1, <3>2 DEF UserTyped
    <3> QED
      BY <1>2, <3>1, <3>3
  <2> QED
    BY <1>2, <1>3, <2>1, <2>3, <2>4, <2>5
<1>6. CASE ~Write(p)
  <2>1. issued' = issued /\ base' = base /\ pc'[p] # "writing"
    BY <1>3, <1>6
       DEF Step, Open, Truncate, Terminate, OpenFile, WriteDone, WriteCutShort, Sync, Report,
           OpenCompacting, WriteSnapshot, SnapshotDone, SnapshotCutShort, Rename, Reopen, Read, Exit,
           Ended, Goto, At, userVars, ProcsTyped
  <2>2. Logged' \subseteq 1..issued
    <3>1. CASE WriteDone(p)
      BY <1>1, <1>2, <3>1, LoggedStep, RecordIs DEF WriteDone, At, Appending
    <3>2. CASE ~WriteDone(p)
      BY <1>1, <1>2, <3>2, LoggedStep
    <3> QED
      BY <3>1, <3>2
  <2>3. ASSUME NEW q \in Procs, pc'[q] = "writing"
        PROVE  op'[q] \notin mem'[q] /\ base'[op'[q]] = mem'[q]
    BY <1>2, <1>4, <2>1, <2>3 DEF Same
  <2> QED
    BY <2>1, <2>2, <2>3
<1> QED
  BY <1>5, <1>6

\* Each step is one of the durable log's, or leaves it as it is.
LEMMA DurableSteps ==
    ASSUME Typed, TurnsKept, InOrder, InHand, NEW p \in Procs, Step(p), use.turns, Undamaged'
    PROVE  [DurableStep]_(Durable!vars)
<1>1. use.turns' /\ Undamaged
  BY BoundsGrow
<1>2. Typed' /\ InOrder'
  <2>1. Next
    BY DEF Next, Step
  <2> QED
    BY <2>1, TypedStep, InOrderStep
<1>3. Replayed(Lines) = Logged /\ Replayed(Lines)' = Logged'
  <2>1. Ordered(Lines) /\ Lines \in Seq(LogLine)
    BY <1>1 DEF InOrder, Typed, FilesTyped, NamesTyped, Lines
  <2>2. Ordered(Lines') /\ Lines' \in Seq(LogLine)
    BY <1>1, <1>2 DEF InOrder, Typed, FilesTyped, NamesTyped, Lines
  <2>3. Replayed(Lines) = Upto(Lines, Len(Lines)) /\ Replayed(Lines') = Upto(Lines', Len(Lines'))
    BY <2>1, <2>2, OrderedIs
  <2> QED
    BY <2>3 DEF Logged
<1>4. ProcsTyped /\ UserTyped /\ issued \in Nat
  BY UsesAssumption DEF Typed, UserTyped, Ops
<1>5. Logged \subseteq 1..issued
  BY <1>1 DEF InHand
<1>6. CASE WriteDone(p)
  <2>1. pc[p] = "writing" /\ acked' = acked /\ base' = base
    BY <1>6 DEF WriteDone, At, userVars
  <2>2. op[p] \in Ops /\ op[p] \notin mem[p] /\ base[op[p]] = mem[p]
    BY <1>1, <2>1, RecordIs DEF InHand, Appending
  <2>3. mem[p] = Logged /\ Logged' = Logged \cup {op[p]}
    BY <1>6, LoggedStep
  <2>4. base' = [base EXCEPT ![op[p]] = Replayed(Lines)]
    BY <1>3, <1>4, <2>1, <2>2, <2>3 DEF UserTyped
  <2>5. Durable!Write(op[p])
    BY <1>3, <2>1, <2>2, <2>3, <2>4 DEF Durable!Write
  <2> QED
    BY <2>2, <2>5 DEF DurableStep
<1>7. CASE Write(p)
  <2>1. /\ pc[p] = "ready" /\ p \in Appenders /\ acked' = acked
        /\ base' = [base EXCEPT ![issued + 1] = mem[p]]
    BY <1>4, <1>7 DEF Write, At, ProcsTyped
  <2>2. issued + 1 \in Ops
    BY <1>4, <1>7, BoundTypes DEF Typed, Write, Ops
  <2>3. mem[p] = Logged
    BY <1>1, <2>1 DEF InOrder, Up, Writers, InStep, Memory, Logged
  <2>4. Logged' = Logged
    BY <2>1, LoggedStep DEF WriteDone, At
  <2>5. issued + 1 \notin Logged
    BY <1>4, <1>5
  <2>6. Durable!Miss(issued + 1)
    BY <1>3, <2>1, <2>3, <2>4, <2>5 DEF Durable!Miss
  <2> QED
    BY <2>2, <2>6 DEF DurableStep
<1>8. CASE Report(p)
  <2>1. pc[p] = "report" /\ acked' = acked \cup {op[p]} /\ base' = base
    BY <1>8 DEF Report, At
  <2>2. p \in Writers /\ op[p] \in Ops
    BY <2>1, RecordIs DEF Appending, Writers
  <2>3. op[p] \in Logged
    BY <1>1, <2>1, <2>2 DEF InOrder, Up, InStep, Memory, Logged
  <2>4. Logged' = Logged
    BY <2>1, LoggedStep DEF WriteDone, At
  <2>5. Durable!Ack(op[p])
    BY <1>3, <2>1, <2>3, <2>4 DEF Durable!Ack
  <2> QED
    BY <2>2, <2>5 DEF DurableStep
<1>9. CASE ~WriteDone(p) /\ ~Write(p) /\ ~Report(p)
  <2>1. acked' = acked /\ base' = base
    BY <1>9
       DEF Step, Open, Truncate, Terminate, OpenFile, WriteCutShort, Sync,
           OpenCompacting, WriteSnapshot, SnapshotDone, SnapshotCutShort, Rename, Reopen, Read, Exit,
           userVars
  <2>2. Logged' = Logged
    BY <1>9, LoggedStep
  <2> QED
    BY <1>3, <2>1, <2>2 DEF Durable!vars
<1> QED
  BY <1>6, <1>7, <1>8, <1>9

DInv == TInv /\ InHand

(***************************************************************************)
(* For any number of commands that take turns, and of readers, each step   *)
(* is one that the abstract durable log allows, none of its losses: an     *)
(* operation enters on top of exactly what is there, compactions change    *)
(* nothing, and what was reported is in the log.                           *)
(***************************************************************************)
THEOREM TurnsAreDurable == Spec => TurnsKeepTheLog
<1>1. Init => DInv
  <2> SUFFICES ASSUME Init PROVE InHand
    BY TInvInit DEF DInv
  <2>1. Lines = First /\ Logged = {1} /\ issued = 1
    BY FirstLog DEF Init, Lines, First, Logged
  <2>2. \A p \in Procs : pc[p] = "down"
    BY DEF Init
  <2> QED
    BY <2>1, <2>2 DEF InHand
<1>2. DInv /\ [Next]_vars => DInv'
  <2> SUFFICES ASSUME DInv, [Next]_vars PROVE InHand'
    BY TInvStep DEF DInv
  <2>1. CASE Next
    <3>1. PICK p \in Procs : Step(p)
      BY <2>1 DEF Next, Step
    <3> QED
      BY <3>1, InHandStep DEF DInv, TInv
  <2>2. CASE UNCHANGED vars
    <3>1. UNCHANGED <<files, log, pc, mem, op, issued, base, use, cuts>>
      BY <2>2 DEF vars, nameVars, procVars, userVars, bounds
    <3> QED
      BY <3>1 DEF DInv, InHand, Logged, Lines, Undamaged
  <2> QED
    BY <2>1, <2>2
<1>3. DInv /\ [Next]_vars => [use.turns /\ Undamaged' => [DurableStep]_(Durable!vars)]_vars
  <2> SUFFICES ASSUME DInv, Next, use.turns, Undamaged' PROVE [DurableStep]_(Durable!vars)
    OBVIOUS
  <2>1. PICK p \in Procs : Step(p)
    BY DEF Next, Step
  <2> QED
    BY <2>1, DurableSteps DEF DInv, TInv
<1> QED
  BY <1>1, <1>2, <1>3, PTL DEF Spec, TurnsKeepTheLog
=============================================================================
