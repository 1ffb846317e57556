------------------------------ MODULE MCCommands ------------------------------
(* A small instance of Commands. *)
EXTENDS Commands

CONSTANTS m1, m2, e1, s1, s2

\* One retry, after an hour.
MCSchedules == {<<3600>>}

\* No log; one of two messages has failed once; both have died of their attempts.
MCPasts ==
    LET Queued == <<ConfigRec(<<3600>>), EndpointAddRec(e1, s1),
                    EnqueueRec(m1, e1, 1), EnqueueRec(m2, e1, 1)>>
        Retries(id) == AttemptRec(id, "failed", "retry", 3601)
        Dies(id) == AttemptRec(id, "failed", "dead", NoTime)
    IN  {<<>>, Append(Queued, Retries(m1)),
         Queued \o <<Retries(m1), Retries(m2), Dies(m1), Dies(m2)>>}

\* How a command ended is read only when it ended with 0, and the next command
\* forgets it.
Unended ==
    LET done == pc = "none" /\ code = 0
    IN  <<disk, spared, pc, st, todo, told, done, IF done \/ pc # "none" THEN asked ELSE <<>>>>

\* Sets whose elements are interchangeable.
Symmetry == Permutations(Ids) \cup Permutations(Names) \cup Permutations(Secrets)
=============================================================================
