------------------------------- MODULE HttpProofs -------------------------------
(***************************************************************************)
(* Theorems about the two ends of the wire, the test receiver (Listen) and *)
(* one attempt of the engine (Exchange).                                   *)
(*                                                                         *)
(* The argument for Listen: between a handler's choice to fail or to       *)
(* succeed and the counter it then raises, no other handler acts, for they *)
(* hold the mutex in turn (Exclusive); so what was chosen is still right   *)
(* when it is counted (ChoiceStands), and the counters are the numbers of  *)
(* answers given (Counted).                                                *)
(*                                                                         *)
(* The argument for Exchange: a status is set by the answer that ends the  *)
(* attempt and by nothing else, so an error of Do is one without a status  *)
(* (AnsweredOrErred), and the timeout finds either no answer or one that   *)
(* has already been given.                                                 *)
(***************************************************************************)
EXTENDS Listen, Exchange, FiniteSetTheorems, TLAPS

Holding == {"locked", "fail", "ok", "written"}

Exclusive == \A r \in Requests : phase[r] \in Holding <=> mu = r

Counted ==
    /\ failed = Cardinality(Those(500))
    /\ okSeen = Cardinality(Those(204))

ChoiceStands ==
    /\ failed <= FailFirst
    /\ \A r \in Requests : phase[r] = "fail" => failed < FailFirst
    /\ \A r \in Requests : phase[r] = "ok" => failed = FailFirst
    /\ okSeen > 0 => failed = FailFirst

StopsInTurn ==
    /\ stopping => MaxOK > 0 /\ okSeen >= MaxOK
    /\ ~serving => stopping

IInv == TypeOK /\ Exclusive /\ Counted /\ ChoiceStands /\ StopsInTurn

-----------------------------------------------------------------------------
LEMMA InitIInv == Init => IInv
<1> SUFFICES ASSUME Init PROVE IInv
  OBVIOUS
<1>1. TypeOK /\ Exclusive
  BY ListenAssumption
  DEF Init, TypeOK, Exclusive, Holding, Phases, Statuses, Unanswered
<1>2. Those(500) = {} /\ Those(204) = {}
  BY DEF Init, Those
<1>3. Counted
  BY <1>2, FS_EmptySet DEF Init, Counted
<1>4. ChoiceStands /\ StopsInTurn
  BY ListenAssumption DEF Init, ChoiceStands, StopsInTurn
<1> QED
  BY <1>1, <1>3, <1>4 DEF IInv

LEMMA NextTypeOK == TypeOK /\ [Next]_vars => TypeOK'
<1> SUFFICES ASSUME TypeOK, [Next]_vars PROVE TypeOK'
  OBVIOUS
<1> USE DEF TypeOK, Step, counters, serverVars, Unanswered, Phases
<1>1. ASSUME NEW r \in Requests, Accept(r)
      PROVE  TypeOK'
  BY <1>1 DEF Accept
<1>2. ASSUME NEW r \in Requests, Handler(r)
      PROVE  TypeOK'
  <2>1. CASE Lock(r)
    BY <2>1 DEF Lock
  <2>2. CASE Refuse(r)
    BY <2>2 DEF Refuse, Answered, Statuses
  <2>3. CASE Choose(r)
    BY <2>3 DEF Choose
  <2>4. CASE Fail(r)
    BY <2>4 DEF Fail, Answered, Statuses
  <2>5. CASE Succeed(r)
    BY <2>5 DEF Succeed, Answered, Statuses, Reached
  <2>6. CASE Return(r)
    BY <2>6 DEF Return
  <2>7. CASE Flush(r)
    BY <2>7 DEF Flush
  <2> QED
    BY <1>2, <2>1, <2>2, <2>3, <2>4, <2>5, <2>6, <2>7 DEF Handler
<1>3. CASE Shutdown \/ Exit
  BY <1>3 DEF Shutdown, Exit
<1>4. CASE UNCHANGED vars
  BY <1>4 DEF vars
<1> QED
  BY <1>1, <1>2, <1>3, <1>4 DEF Next

LEMMA NextExclusive == TypeOK /\ Exclusive /\ [Next]_vars => Exclusive'
<1> SUFFICES ASSUME TypeOK, Exclusive, [Next]_vars PROVE Exclusive'
  OBVIOUS
<1> USE DEF TypeOK, Exclusive, Holding, Step
<1>1. ASSUME NEW r \in Requests, Accept(r)
      PROVE  Exclusive'
  BY <1>1 DEF Accept
<1>2. ASSUME NEW r \in Requests, Handler(r)
      PROVE  Exclusive'
  <2>1. CASE Lock(r)
    BY <2>1, ListenAssumption DEF Lock
  <2>2. CASE Refuse(r) \/ Choose(r) \/ Fail(r) \/ Succeed(r)
    BY <2>2 DEF Refuse, Choose, Fail, Succeed
  <2>3. CASE Return(r)
    BY <2>3, ListenAssumption DEF Return
  <2>4. CASE Flush(r)
    BY <2>4 DEF Flush
  <2> QED
    BY <1>2, <2>1, <2>2, <2>3, <2>4 DEF Handler
<1>3. CASE Shutdown \/ Exit \/ UNCHANGED vars
  BY <1>3 DEF Shutdown, Exit, vars
<1> QED
  BY <1>1, <1>2, <1>3 DEF Next

-----------------------------------------------------------------------------
\* The answers are counted as they are given.
LEMMA ThoseFinite == IsFiniteSet(Those(500)) /\ IsFiniteSet(Those(204))
  BY ListenAssumption, FS_Subset DEF Those

LEMMA NextCounted == TypeOK /\ Counted /\ [Next]_vars => Counted'
<1> SUFFICES ASSUME TypeOK, Counted, [Next]_vars PROVE Counted'
  OBVIOUS
<1>1. ASSUME NEW r \in Requests, Fail(r)
      PROVE  Counted'
  <2>1. phase[r] = "fail" /\ answer' = [answer EXCEPT ![r] = 500]
    BY <1>1 DEF Fail, Step, Answered
  <2>2. answer[r] = 0
    BY <2>1 DEF TypeOK, Unanswered
  <2>3. /\ Those(500)' = Those(500) \cup {r} /\ r \notin Those(500)
        /\ Those(204)' = Those(204)
    BY <2>1, <2>2 DEF Those, TypeOK
  <2>4. Cardinality(Those(500)') = Cardinality(Those(500)) + 1
    BY <2>3, ThoseFinite, FS_AddElement
  <2> QED
    BY <1>1, <2>3, <2>4 DEF Fail, Counted
<1>2. ASSUME NEW r \in Requests, Succeed(r)
      PROVE  Counted'
  <2>1. phase[r] = "ok" /\ answer' = [answer EXCEPT ![r] = 204]
    BY <1>2 DEF Succeed, Step, Answered
  <2>2. answer[r] = 0
    BY <2>1 DEF TypeOK, Unanswered
  <2>3. /\ Those(204)' = Those(204) \cup {r} /\ r \notin Those(204)
        /\ Those(500)' = Those(500)
    BY <2>1, <2>2 DEF Those, TypeOK
  <2>4. Cardinality(Those(204)') = Cardinality(Those(204)) + 1
    BY <2>3, ThoseFinite, FS_AddElement
  <2> QED
    BY <1>2, <2>3, <2>4 DEF Succeed, Counted
<1>3. ASSUME NEW r \in Requests, Refuse(r)
      PROVE  Counted'
  <2>1. phase[r] = "locked" /\ answer' = [answer EXCEPT ![r] = 401]
    BY <1>3 DEF Refuse, Step, Answered
  <2>2. answer[r] = 0
    BY <2>1 DEF TypeOK, Unanswered
  <2>3. Those(500)' = Those(500) /\ Those(204)' = Those(204)
    BY <2>1, <2>2 DEF Those, TypeOK
  <2> QED
    BY <1>3, <2>3 DEF Refuse, Counted, counters
<1>4. CASE UNCHANGED <<answer, counters>>
  BY <1>4 DEF Counted, Those, counters
<1> QED
  BY <1>1, <1>2, <1>3, <1>4
  DEF Next, vars, counters, Accept, Handler, Lock, Choose, Return, Flush, Shutdown, Exit

-----------------------------------------------------------------------------
LEMMA NextChoiceStands ==
    TypeOK /\ Exclusive /\ ChoiceStands /\ [Next]_vars => ChoiceStands'
<1> SUFFICES ASSUME TypeOK, Exclusive, ChoiceStands, [Next]_vars
             PROVE  ChoiceStands'
  OBVIOUS
<1>1. FailFirst \in Nat /\ failed \in Nat /\ okSeen \in Nat
  BY ListenAssumption DEF TypeOK
\* Who holds the mutex is alone in having chosen.
<1>2. ASSUME NEW r \in Requests, phase[r] \in Holding,
             NEW q \in Requests \ {r}
      PROVE  phase[q] \notin {"fail", "ok"}
  BY <1>2 DEF Exclusive, Holding
<1>3. ASSUME NEW r \in Requests, Choose(r)
      PROVE  ChoiceStands'
  BY <1>1, <1>3 DEF Choose, Step, ChoiceStands, TypeOK, counters
<1>4. ASSUME NEW r \in Requests, Fail(r)
      PROVE  ChoiceStands'
  <2>1. /\ phase[r] = "fail" /\ phase' = [phase EXCEPT ![r] = "written"]
        /\ failed' = failed + 1 /\ okSeen' = okSeen
    BY <1>4 DEF Fail, Step
  <2>2. \A q \in Requests : phase'[q] \notin {"fail", "ok"}
    BY <1>2, <2>1 DEF TypeOK, Holding
  <2>3. failed < FailFirst /\ ~(okSeen > 0)
    BY <1>1, <2>1 DEF ChoiceStands
  <2> QED
    BY <1>1, <2>1, <2>2, <2>3 DEF ChoiceStands
<1>5. ASSUME NEW r \in Requests, Succeed(r)
      PROVE  ChoiceStands'
  <2>1. /\ phase[r] = "ok" /\ phase' = [phase EXCEPT ![r] = "written"]
        /\ failed' = failed
    BY <1>5 DEF Succeed, Step
  <2>2. \A q \in Requests : phase'[q] = phase[q] \/ phase'[q] = "written"
    BY <2>1 DEF TypeOK
  <2>3. failed = FailFirst
    BY <2>1 DEF ChoiceStands
  <2> QED
    BY <1>1, <2>1, <2>2, <2>3 DEF ChoiceStands
<1>6. ASSUME UNCHANGED counters,
             \A r \in Requests : phase'[r] \in {"fail", "ok"} => phase'[r] = phase[r]
      PROVE  ChoiceStands'
  BY <1>6 DEF ChoiceStands, counters
<1>7. ASSUME NEW r \in Requests,
             Accept(r) \/ Lock(r) \/ Refuse(r) \/ Return(r) \/ Flush(r)
      PROVE  ChoiceStands'
  BY <1>6, <1>7 DEF Accept, Lock, Refuse, Return, Flush, Step, TypeOK
<1>8. CASE Shutdown \/ Exit \/ UNCHANGED vars
  BY <1>6, <1>8 DEF Shutdown, Exit, vars, counters
<1> QED
  BY <1>3, <1>4, <1>5, <1>7, <1>8 DEF Next, Handler

LEMMA NextStopsInTurn == TypeOK /\ StopsInTurn /\ [Next]_vars => StopsInTurn'
<1> SUFFICES ASSUME TypeOK, StopsInTurn, [Next]_vars PROVE StopsInTurn'
  OBVIOUS
<1> USE ListenAssumption DEF TypeOK, StopsInTurn
<1>1. ASSUME NEW r \in Requests, Succeed(r)
      PROVE  StopsInTurn'
  <2>1. /\ okSeen' = okSeen + 1 /\ serving' = serving
        /\ stopping' = (stopping \/ Reached(okSeen'))
    BY <1>1 DEF Succeed
  <2> QED
    BY <2>1 DEF Reached
<1>2. CASE UNCHANGED <<okSeen, stopping, serving>>
  BY <1>2
<1>3. CASE Shutdown
  BY <1>3 DEF Shutdown, counters
<1> QED
  BY <1>1, <1>2, <1>3
  DEF Next, vars, counters, serverVars, Accept, Handler, Lock, Refuse, Choose, Fail,
      Return, Flush, Exit

LEMMA IInvHolds == Spec => []IInv
<1>1. IInv /\ [Next]_vars => IInv'
  BY NextTypeOK, NextExclusive, NextCounted, NextChoiceStands, NextStopsInTurn DEF IInv
<1> QED
  BY InitIInv, <1>1, PTL DEF Spec

(***************************************************************************)
(* A request has an answer exactly from the moment its handler wrote it.   *)
(***************************************************************************)
THEOREM TypeCorrect == Spec => []TypeOK
  BY IInvHolds, PTL DEF IInv

(***************************************************************************)
(* For any number of requests in any interleaving, the first verified ones *)
(* fail, as many as --fail-first says, and then none.                      *)
(***************************************************************************)
THEOREM FirstRequestsFail == Spec => []FirstOnesFail
<1>1. IInv => FirstOnesFail
  <2> SUFFICES ASSUME IInv PROVE FirstOnesFail
    OBVIOUS
  <2>1. Cardinality(Those(500)) = failed /\ failed <= FailFirst
    BY DEF IInv, Counted, ChoiceStands
  <2>2. ASSUME Those(204) # {}
        PROVE  failed = FailFirst
    <3>1. okSeen \in Nat /\ okSeen # 0
      BY <2>2, ThoseFinite, FS_EmptySet DEF IInv, Counted, TypeOK
    <3> QED
      BY <3>1 DEF IInv, ChoiceStands
  <2> QED
    BY <2>1, <2>2 DEF FirstOnesFail
<1> QED
  BY <1>1, IInvHolds, PTL

(***************************************************************************)
(* The listener closes only after --max deliveries were answered 204.      *)
(***************************************************************************)
THEOREM ServesLongEnough == Spec => []ServesUntilMax
<1>1. IInv => ServesUntilMax
  BY DEF IInv, StopsInTurn, Counted, ServesUntilMax
<1> QED
  BY <1>1, IInvHolds, PTL

-----------------------------------------------------------------------------
\* An error of Do comes without a status: what fails while the body is read is none.
AnsweredOrErred ==
    /\ pc = "asking" => status = 0
    /\ pc \in {"asking", "draining"} => ~doErr
    /\ doErr => status = 0

Judged ==
    /\ pc \in {"asking", "draining", "record", "recorded"}
    /\ IF pc = "recorded"
       THEN outcome = "delivered" <=> status \in 200..299
       ELSE outcome = "none"

AttemptInv == AnsweredOrErred /\ Judged

(***************************************************************************)
(* Whatever the servers answer, for any client's limit on redirects: an    *)
(* attempt is recorded as delivered exactly when the answer that ended it  *)
(* was 2xx, and a timeout after that answer changes nothing.               *)
(***************************************************************************)
THEOREM AnswersStand == ExchangeSpec => []AnswerStands
<1> USE DEF AttemptInv, AnsweredOrErred, Judged
<1>1. ExchangeInit => AttemptInv
  BY DEF ExchangeInit
<1>2. AttemptInv /\ [ExchangeNext]_exchangeVars => AttemptInv'
  <2> SUFFICES ASSUME AttemptInv, [ExchangeNext]_exchangeVars PROVE AttemptInv'
    OBVIOUS
  <2>1. ASSUME NEW code, NEW location, Follow(code, location)
        PROVE  AttemptInv'
    BY <2>1 DEF Follow
  <2>2. ASSUME NEW code, NEW location, TooManyRedirects(code, location)
        PROVE  AttemptInv'
    BY <2>2 DEF TooManyRedirects, Give
  <2>3. ASSUME NEW code, NEW location, Answer(code, location)
        PROVE  AttemptInv'
    BY <2>3 DEF Answer
  <2>4. CASE Break
    BY <2>4 DEF Break, Give
  <2>5. CASE Drained
    BY <2>5 DEF Drained, Give
  <2>6. CASE Expire
    BY <2>6 DEF Expire, Give
  <2>7. CASE Record
    BY <2>7 DEF Record, Accepted
  <2>8. CASE UNCHANGED exchangeVars
    BY <2>8 DEF exchangeVars
  <2> QED
    BY <2>1, <2>2, <2>3, <2>4, <2>5, <2>6, <2>7, <2>8 DEF ExchangeNext, Server
<1>3. AttemptInv => AnswerStands
  BY DEF AnswerStands
<1> QED
  BY <1>1, <1>2, <1>3, PTL DEF ExchangeSpec
=============================================================================
