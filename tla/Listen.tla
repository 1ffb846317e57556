-------------------------------- MODULE Listen --------------------------------
(***************************************************************************)
(* hookmill listen (internal/cli/listen.go): the test receiver.  Every     *)
(* request has a handler of its own, a goroutine that checks the request,  *)
(* takes the mutex, answers and counts.  The last answer --max asks for    *)
(* starts a goroutine that shuts the server down; Serve returns as soon as *)
(* the shutdown begins, and the process ends with what is under way.       *)
(*                                                                         *)
(* An answer is in the handler's buffer until the server, after the        *)
(* handler, writes it to the connection.  A client whose answer is lost or *)
(* is a 500 is expected to send the message again, as a further request.   *)
(***************************************************************************)
EXTENDS Integers, FiniteSets

CONSTANTS
    Requests,   \* the requests that clients send
    Genuine,    \* those of them that verify
    FailFirst,  \* --fail-first
    MaxOK,      \* --max; 0 for none
    Nobody      \* the holder of the free mutex

ASSUME ListenAssumption ==
    /\ Genuine \subseteq Requests /\ IsFiniteSet(Requests)
    /\ Nobody \notin Requests
    /\ FailFirst \in Nat /\ MaxOK \in Nat

VARIABLES
    phase,      \* where each request is
    answer,     \* the status its handler wrote
    mu,         \* who holds the mutex
    okSeen, failed,
    stopping,   \* has a goroutine that calls Shutdown been started
    serving,    \* is the listener open
    running     \* the process

vars == <<phase, answer, mu, okSeen, failed, stopping, serving, running>>

counters == <<okSeen, failed>>
serverVars == <<stopping, serving, running>>

Phases == {"unsent", "handling", "locked", "fail", "ok", "written", "returned", "received"}

Statuses == {0, 204, 401, 500}

Init ==
    /\ phase = [r \in Requests |-> "unsent"]
    /\ answer = [r \in Requests |-> 0]
    /\ mu = Nobody
    /\ okSeen = 0 /\ failed = 0
    /\ stopping = FALSE /\ serving = TRUE /\ running = TRUE

-----------------------------------------------------------------------------
Step(r, from, to) ==
    /\ running
    /\ phase[r] = from
    /\ phase' = [phase EXCEPT ![r] = to]

Accept(r) ==
    /\ serving
    /\ Step(r, "unsent", "handling")
    /\ UNCHANGED <<answer, mu, counters, serverVars>>

\* A mistake: the handler runs without the mutex.
LockNothing(r) ==
    /\ Step(r, "handling", "locked")
    /\ UNCHANGED <<answer, mu, counters, serverVars>>

Lock(r) ==
    /\ mu = Nobody /\ mu' = r
    /\ Step(r, "handling", "locked")
    /\ UNCHANGED <<answer, counters, serverVars>>

Answered(r, status) == answer' = [answer EXCEPT ![r] = status]

Refuse(r) ==
    /\ r \notin Genuine
    /\ Step(r, "locked", "written")
    /\ Answered(r, 401)
    /\ UNCHANGED <<mu, counters, serverVars>>

\* `failed < *failFirst`
Choose(r) ==
    /\ r \in Genuine
    /\ Step(r, "locked", IF failed < FailFirst THEN "fail" ELSE "ok")
    /\ UNCHANGED <<answer, mu, counters, serverVars>>

Fail(r) ==
    /\ Step(r, "fail", "written")
    /\ failed' = failed + 1
    /\ Answered(r, 500)
    /\ UNCHANGED <<mu, okSeen, serverVars>>

\* A mistake: one delivery more than --max is waited for.
ReachedLate(count) == MaxOK > 0 /\ count > MaxOK

Reached(count) == MaxOK > 0 /\ count >= MaxOK

\* A mistake: a synthetic failure counts.
SucceedWithFailures(r) ==
    /\ Step(r, "ok", "written")
    /\ okSeen' = okSeen + 1
    /\ Answered(r, 204)
    /\ stopping' = (stopping \/ Reached(okSeen' + failed))
    /\ UNCHANGED <<mu, failed, serving, running>>

Succeed(r) ==
    /\ Step(r, "ok", "written")
    /\ okSeen' = okSeen + 1
    /\ Answered(r, 204)
    /\ stopping' = (stopping \/ Reached(okSeen'))
    /\ UNCHANGED <<mu, failed, serving, running>>

\* The deferred Unlock, and the handler returns.
Return(r) ==
    /\ Step(r, "written", "returned")
    /\ mu' = Nobody
    /\ UNCHANGED <<answer, counters, serverVars>>

\* The server writes the buffered answer to the connection.
Flush(r) ==
    /\ Step(r, "returned", "received")
    /\ UNCHANGED <<answer, mu, counters, serverVars>>

Handler(r) ==
    Lock(r) \/ Refuse(r) \/ Choose(r) \/ Fail(r) \/ Succeed(r) \/ Return(r) \/ Flush(r)

\* Shutdown closes the listener first, then waits for the connections.
Shutdown ==
    /\ running /\ stopping /\ serving
    /\ serving' = FALSE
    /\ UNCHANGED <<phase, answer, mu, counters, stopping, running>>

\* Serve returns ErrServerClosed and cmdListen exitOK.
Exit ==
    /\ running /\ ~serving
    /\ running' = FALSE
    /\ UNCHANGED <<phase, answer, mu, counters, stopping, serving>>

Next ==
    \/ \E r \in Requests : Accept(r) \/ Handler(r)
    \/ Shutdown \/ Exit

\* Every client sends, every goroutine and the main one go on.
Fairness ==
    /\ \A r \in Requests : WF_vars(Accept(r)) /\ SF_vars(Lock(r)) /\ WF_vars(Handler(r))
    /\ WF_vars(Shutdown) /\ WF_vars(Exit)

Spec == Init /\ [][Next]_vars /\ Fairness

-----------------------------------------------------------------------------
Unanswered == {"unsent", "handling", "locked", "fail", "ok"}

(***************************************************************************)
(* The types, and a handler that is done has written an answer.            *)
(***************************************************************************)
TypeOK ==
    /\ phase \in [Requests -> Phases]
    /\ answer \in [Requests -> Statuses]
    /\ \A r \in Requests : answer[r] = 0 <=> phase[r] \in Unanswered
    /\ mu \in Requests \cup {Nobody}
    /\ okSeen \in Nat /\ failed \in Nat
    /\ stopping \in BOOLEAN /\ serving \in BOOLEAN /\ running \in BOOLEAN

Those(status) == {r \in Requests : answer[r] = status}

(***************************************************************************)
(* However the handlers interleave, --fail-first answers 500 to exactly as *)
(* many verified requests as it says, before the first 204: no request is  *)
(* failed twice for the same place, and none slips through between.        *)
(***************************************************************************)
FirstOnesFail ==
    /\ Cardinality(Those(500)) <= FailFirst
    /\ Those(204) # {} => Cardinality(Those(500)) = FailFirst

(***************************************************************************)
(* The listener closes only when --max verified requests were answered     *)
(* 204, the ones --fail-first failed not among them.                       *)
(***************************************************************************)
ServesUntilMax ==
    ~serving => MaxOK > 0 /\ Cardinality(Those(204)) >= MaxOK

(***************************************************************************)
(* When clients send enough verified requests, the process ends.           *)
(***************************************************************************)
ExitsAfterMax ==
    MaxOK > 0 /\ Cardinality(Genuine) >= FailFirst + MaxOK => <>~running
=============================================================================
