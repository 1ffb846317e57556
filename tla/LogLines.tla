------------------------------ MODULE LogLines ------------------------------
(***************************************************************************)
(* The lines of wal.log, what a write adds to them and what Open makes of  *)
(* them.  Operators only: Wal takes them for one process that crashes,     *)
(* Processes for several on one file.                                      *)
(*                                                                         *)
(* A line stands for one record.  Its bytes matter only as far as parseLine*)
(* tells them apart: a whole line, a valid record without its newline, and *)
(* what does not parse, with its newline (garbled) or without (damaged).  A*)
(* record carries the operations it stands for: one for an appended record,*)
(* all so far for a snapshot.                                              *)
(***************************************************************************)
EXTENDS Integers, Sequences

CONSTANT MaxOps    \* bound: operations the commands attempt

Ops == 1..MaxOps

Line(seq, ops) == [seq |-> seq, ops |-> ops, frame |-> "whole"]

Unterminated(line) == [line EXCEPT !.frame = "unterminated"]

Damaged == [seq |-> 0, ops |-> {}, frame |-> "damaged"]

Garbled == [seq |-> 0, ops |-> {}, frame |-> "garbled"]

Unparsable == {"damaged", "garbled"}

Frames == {"whole", "unterminated"} \cup Unparsable

LogLine == [seq : Nat, ops : SUBSET Ops, frame : Frames]

EndsInNewline(lines) ==
    lines = <<>> \/ lines[Len(lines)].frame \in {"whole", "garbled"}

\* Bytes written after a line that has no newline extend that line.
Extend(lines, line) ==
    IF EndsInNewline(lines) THEN Append(lines, line)
    ELSE [lines EXCEPT ![Len(lines)] =
             IF line.frame \in {"whole", "garbled"} THEN Garbled ELSE Damaged]

\* What a write of a line has put in the file, from none of it to all of it.
Stages(lines, line) ==
    <<lines, Extend(lines, Damaged), Extend(lines, Unterminated(line)), Extend(lines, line)>>

Parsed(line) == line.frame \notin Unparsable

\* A mistake: sequence numbers are not checked.
ValidAnySeq(lines, i) == Parsed(lines[i])

Valid(lines, i) == Parsed(lines[i]) /\ lines[i].seq = i

GoodLen(lines) ==
    CHOOSE n \in 0..Len(lines) :
        /\ \A i \in 1..n : Valid(lines, i)
        /\ n < Len(lines) => ~Valid(lines, n + 1)

Replayed(lines) == UNION {lines[i].ops : i \in 1..GoodLen(lines)}

\* A valid checksum with the wrong sequence number is damage wherever it is; a
\* line that does not parse is a torn write only if it is the last and not the
\* only one.
Corrupt(lines) ==
    LET n == GoodLen(lines)
    IN  n < Len(lines) /\ (Parsed(lines[n + 1]) \/ n + 1 < Len(lines) \/ n = 0)

Torn(lines) == lines # <<>> /\ lines[Len(lines)].frame # "whole"
=============================================================================
