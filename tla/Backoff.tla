------------------------------- MODULE Backoff -------------------------------
(***************************************************************************)
(* The retry schedule of internal/backoff: the waits after the first,      *)
(* second, ... failure of a message.  Delays and times are whole seconds;  *)
(* time 0 is Go's zero time.Time, which no clock shows.                    *)
(*                                                                         *)
(* A schedule reaches the log as text (String) and comes back through      *)
(* Parse, so both conversions are here.  The text of a duration is the     *)
(* function from the units printed to the number before each; the text of  *)
(* a schedule is the sequence of its entries' texts, empty for "none".     *)
(***************************************************************************)
EXTENDS Integers, Sequences

NoTime == 0

MaxEntries == 32

Schedule == {s \in Seq(Nat) : Len(s) <= MaxEntries}

Default == <<5, 30, 120, 600, 3600, 21600, 86400>>

MaxAttempts(s) == Len(s) + 1

(***************************************************************************)
(* Is there a retry after the given number of failures, and when.          *)
(***************************************************************************)
HasRetry(s, failedAttempts) == failedAttempts \in 1..Len(s)

NextDue(s, failedAttempts, now) ==
    IF HasRetry(s, failedAttempts) THEN now + s[failedAttempts] ELSE NoTime

-----------------------------------------------------------------------------
SecondsIn == [h |-> 3600, m |-> 60, s |-> 1]

Number(d) == [h |-> d \div 3600, m |-> (d % 3600) \div 60, s |-> d % 60]

\* time.Duration.String starts at the largest unit that is not zero.
UnitsPrinted(d) ==
    {"s"} \cup (IF d >= 60 THEN {"m"} ELSE {}) \cup (IF d >= 3600 THEN {"h"} ELSE {})

\* The suffix "m0s" loses its "0s"; then the suffix "h0m" loses its "0m".
UnitsTrimmed(d) ==
    LET noSeconds == d >= 60 /\ Number(d).s = 0
        noMinutes == noSeconds /\ d >= 3600 /\ Number(d).m = 0
    IN  (IF noSeconds THEN {"s"} ELSE {}) \cup (IF noMinutes THEN {"m"} ELSE {})

FmtDuration(d) == [u \in UnitsPrinted(d) \ UnitsTrimmed(d) |-> Number(d)[u]]

ParseDuration(text) ==
    LET In(u) == IF u \in DOMAIN text THEN text[u] * SecondsIn[u] ELSE 0
    IN  In("h") + In("m") + In("s")

ScheduleText(s) == [i \in 1..Len(s) |-> FmtDuration(s[i])]

Parses(text) == Len(text) <= MaxEntries

ParseSchedule(text) == [i \in 1..Len(text) |-> ParseDuration(text[i])]
=============================================================================
