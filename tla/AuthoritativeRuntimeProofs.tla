--------------------- MODULE AuthoritativeRuntimeProofs ---------------------
(***************************************************************************)
(* Proofs about AuthoritativeRuntime for every set of tasks and lanes and  *)
(* every value of the limits: its types; an inductive invariant that ties  *)
(* the ledger, the leases, the lanes, the queue and the retained results   *)
(* together; the properties that follow from it; and the refinement of     *)
(* CapacityEnvelope.                                                       *)
(***************************************************************************)
EXTENDS AuthoritativeRuntime, FiniteSetTheorems, DataLemmas,
        SequenceTheorems, TLAPS

-----------------------------------------------------------------------------
(* Typing, split by the component that owns the state.                     *)

LedgerTypeOK ==
    /\ status \in [Tasks -> TaskStatus \cup {"Absent"}]
    /\ attempt \in [Tasks -> Attempts]
    /\ notBefore \in [Tasks -> Instants]
    /\ hardDeadline \in [Tasks -> Instants]

AdmissionTypeOK ==
    /\ capacity \in Nat
    /\ used \in Nat
    /\ memState \in MemoryPressure
    /\ queue \in Seq(ResourceRequest)
    /\ queuedAttempts \subseteq Keys
    /\ active \subseteq Lease
    /\ nextLeaseId \in Nat
    /\ generation \in Nat
    /\ laneActive \in [Lanes -> Nat]

CallerTypeOK ==
    /\ pending \in [Keys -> RuntimeAdmission \cup {None}]
    /\ call \in Calls
    /\ delivered \subseteq Token
    /\ clock \in 0 .. MaxClock

\* The three parts are the type invariant of the specification.
LEMMA TypeParts ==
    TypeOK <=> LedgerTypeOK /\ AdmissionTypeOK /\ CallerTypeOK
  BY DEF TypeOK, LedgerTypeOK, AdmissionTypeOK, CallerTypeOK

\* An absent deadline is an instant, and instants are naturals.
LEMMA NeverIsInstant == Never \in Instants /\ Instants \subseteq Nat
  BY LedgerAssumption DEF Never, Instants

\* The earlier of two instants is an instant.
LEMMA EarlierIsInstant ==
    ASSUME NEW a \in Instants, NEW b \in Instants
    PROVE  Earlier(a, b) \in Instants
  BY DEF Earlier

\* The request submit and retry build from a caller's shape is well typed.
LEMMA RequestType ==
    ASSUME NEW t \in Tasks, NEW a \in Attempts, NEW shape \in Shapes,
           NEW d \in Instants
    PROVE  Request(t, a, shape, d) \in ResourceRequest
  BY AdmissionAssumption DEF Request, ResourceRequest

\* The lease admit records, and its token, are well typed.
LEMMA NewLeaseType ==
    ASSUME AdmissionTypeOK, NEW r \in ResourceRequest
    PROVE  /\ NewLease(r) \in Lease
           /\ TokenOf(NewLease(r)) \in Token
  BY DEF AdmissionTypeOK, NewLease, Lease, TokenOf, Token, ResourceRequest

\* The verdict of admit_existing is one of three.
LEMMA VerdictCases ==
    ASSUME NEW q, NEW idx, NEW r, NEW now, NEW kind
    PROVE  Verdict(q, idx, r, now, kind) \in {"Admitted", "Queued", "Rejected"}
  BY DEF Verdict, AdmitVerdict

\* The result handed to a caller is a RuntimeAdmission.
LEMMA ResultType ==
    ASSUME AdmissionTypeOK, NEW r \in ResourceRequest, NEW v
    PROVE  /\ Result(r, v) \in RuntimeAdmission
           /\ TokensIn(Result(r, v)) \subseteq Token
  <1>1. TokenOf(NewLease(r)) \in Token
    BY NewLeaseType
  <1>2. CASE v = "Admitted"
    BY <1>1, <1>2 DEF Result, RuntimeAdmission, TokensIn, Admitted
  <1>3. CASE v # "Admitted"
    BY <1>3 DEF Result, RuntimeAdmission, TokensIn, Queued, Rejected
  <1> QED BY <1>2, <1>3

\* admit_existing keeps the ledger and the controller well typed.
LEMMA AdmitExistingType ==
    ASSUME LedgerTypeOK, AdmissionTypeOK,
           NEW q \in Seq(ResourceRequest), NEW idx \in SUBSET Keys,
           NEW st \in [Tasks -> TaskStatus \cup {"Absent"}],
           NEW r \in ResourceRequest, NEW v,
           AdmitExisting(q, idx, st, r, v),
           hardDeadline' \in [Tasks -> Instants]
    PROVE  LedgerTypeOK' /\ AdmissionTypeOK'
  <1>1. r.task \in Tasks /\ r.attempt \in Attempts /\ r.lane \in Lanes
        /\ r.units \in Nat /\ Key(r) \in Keys
    BY DEF ResourceRequest, Key, Keys
  <1>2. CASE v = "Admitted"
    <2>1. Granted(q, idx, r) /\ status' = [st EXCEPT ![r.task] = "Running"]
          /\ attempt' = [attempt EXCEPT ![r.task] = r.attempt]
          /\ notBefore' = [notBefore EXCEPT ![r.task] = Never]
      BY <1>2 DEF AdmitExisting
    <2>2. LedgerTypeOK'
      BY <1>1, <2>1, NeverIsInstant DEF LedgerTypeOK, TaskStatus
    <2>3. AdmissionTypeOK'
      BY <1>1, <2>1, NewLeaseType DEF AdmissionTypeOK, Granted, Acquired
    <2> QED BY <2>2, <2>3
  <1>3. CASE v = "Queued"
    <2>1. Enqueued(q, idx, r) /\ status' = st /\ UNCHANGED <<attempt, notBefore>>
      BY <1>3 DEF AdmitExisting
    <2>2. LedgerTypeOK'
      BY <2>1 DEF LedgerTypeOK
    <2>3. AdmissionTypeOK'
      BY <1>1, <2>1 DEF AdmissionTypeOK, Enqueued
    <2> QED BY <2>2, <2>3
  <1>4. CASE v = "Rejected"
    <2>1. Refused(q, idx) /\ status' = st /\ UNCHANGED <<attempt, notBefore>>
      BY <1>4 DEF AdmitExisting
    <2>2. LedgerTypeOK'
      BY <2>1 DEF LedgerTypeOK
    <2>3. AdmissionTypeOK'
      BY <2>1 DEF AdmissionTypeOK, Refused
    <2> QED BY <2>2, <2>3
  <1> QED BY <1>2, <1>3, <1>4 DEF AdmitExisting

\* finish_at keeps the ledger and the controller well typed: a scheduled
\* retry lies before the hard deadline and a released lane was in use.
LEMMA FinishAtType ==
    ASSUME LedgerTypeOK, AdmissionTypeOK, NEW tok, NEW outcome \in Outcomes,
           NEW now \in Nat, FinishAt(tok, outcome, now)
    PROVE  LedgerTypeOK' /\ AdmissionTypeOK'
  <1>1. PICK l \in active :
            /\ laneActive[l.lane] > 0
            /\ ReleaseLease(l)
            /\ status' = [status EXCEPT
                            ![l.task] = FinishTarget(l, outcome, now)]
            /\ \/ /\ ValidRetryWait(l.task, RetryDueAt(l.task, now))
                  /\ notBefore' = [notBefore EXCEPT
                                     ![l.task] = RetryDueAt(l.task, now)]
               \/ notBefore' = [notBefore EXCEPT ![l.task] = Never]
            /\ UNCHANGED <<attempt, hardDeadline>>
    BY DEF FinishAt
  <1>2. l.task \in Tasks /\ l.lane \in Lanes /\ l.units \in Nat
    BY <1>1 DEF AdmissionTypeOK, Lease
  <1>3. FinishTarget(l, outcome, now) \in TaskStatus
    BY DEF FinishTarget, EffectiveOutcome, Outcomes, TaskStatus
  <1>4. ValidRetryWait(l.task, RetryDueAt(l.task, now))
            => RetryDueAt(l.task, now) \in Instants
    <2>1. attempt[l.task] \in Nat \ {0} /\ hardDeadline[l.task] \in Instants
      BY <1>2, LedgerAssumption DEF LedgerTypeOK, Attempts
    <2>2. Delay(attempt[l.task]) \in Int
      BY <2>1, LedgerAssumption DEF Delay, Earlier
    <2>3. ASSUME ValidRetryWait(l.task, RetryDueAt(l.task, now))
          PROVE  /\ Delay(attempt[l.task]) > 0
                 /\ RetryDueAt(l.task, now) < hardDeadline[l.task]
      BY <2>3 DEF ValidRetryWait, MayRetryAfter
    <2> QED BY <2>1, <2>2, <2>3, LedgerAssumption DEF RetryDueAt, Instants, Never
  <1>5. LedgerTypeOK'
    BY <1>1, <1>2, <1>3, <1>4, NeverIsInstant DEF LedgerTypeOK
  <1>6. AdmissionTypeOK'
    BY <1>1, <1>2 DEF AdmissionTypeOK, ReleaseLease, Released
  <1> QED BY <1>5, <1>6

\* Handing a result to the poller or retaining it keeps both well typed.
LEMMA DeliverType ==
    ASSUME CallerTypeOK, NEW k \in Keys, NEW result \in RuntimeAdmission,
           NEW left \in Nat, Deliver(k, result, left)
    PROVE  /\ pending' \in [Keys -> RuntimeAdmission \cup {None}]
           /\ call' \in Calls
  BY DEF CallerTypeOK, Deliver, Calls

\* The head of the queue that a drain iteration works on.
LEMMA HeadType ==
    ASSUME AdmissionTypeOK, queue # <<>>
    PROVE  /\ Head(queue) \in ResourceRequest
           /\ Tail(queue) \in Seq(ResourceRequest)
           /\ Key(Head(queue)) \in Keys
           /\ PopHead(Head(queue)) \in SUBSET Keys
  <1>1. Head(queue) \in ResourceRequest /\ Tail(queue) \in Seq(ResourceRequest)
    BY DEF AdmissionTypeOK
  <1>2. Key(Head(queue)) \in Keys
    BY <1>1 DEF Key, Keys, ResourceRequest
  <1> QED BY <1>1, <1>2 DEF PopHead, AdmissionTypeOK

\* Every step keeps every variable of its type.
LEMMA TypeStep == TypeOK /\ [Next]_vars => TypeOK'
  <1> SUFFICES ASSUME LedgerTypeOK, AdmissionTypeOK, CallerTypeOK, [Next]_vars
               PROVE  LedgerTypeOK' /\ AdmissionTypeOK' /\ CallerTypeOK'
    BY TypeParts, TypeOK' <=> LedgerTypeOK' /\ AdmissionTypeOK' /\ CallerTypeOK'
       DEF TypeOK, LedgerTypeOK, AdmissionTypeOK, CallerTypeOK
  <1>now. \A now \in CallerNow : now \in Nat
    BY DEF CallerNow
  <1>key. \A r \in ResourceRequest : Key(r) \in Keys
    BY DEF Key, Keys, ResourceRequest
  <1>1. ASSUME NEW t \in Tasks, NEW shape \in Shapes, NEW now \in CallerNow,
               NEW hard \in HardDeadlines, Submit(t, shape, hard, now)
        PROVE  LedgerTypeOK' /\ AdmissionTypeOK' /\ CallerTypeOK'
    <2> DEFINE r == Request(t, attempt[t], shape, Earlier(shape.deadline, hard))
               v == Verdict(queue, queuedAttempts, r, now, "Initial")
               st == [status EXCEPT ![t] = "Ready"]
    <2>1. /\ hardDeadline' = [hardDeadline EXCEPT ![t] = hard]
          /\ AdmitExisting(queue, queuedAttempts, st, r, v)
          /\ delivered' = delivered \cup TokensIn(Result(r, v))
          /\ UNCHANGED <<pending, call, clock>>
      BY <1>1 DEF Submit
    <2>2. shape.deadline \in Instants /\ hard \in Instants
      BY AdmissionAssumption, RuntimeAssumption
    <2>3. r \in ResourceRequest
      <3>1. attempt[t] \in Attempts
        BY DEF LedgerTypeOK
      <3> QED BY <2>2, <3>1, EarlierIsInstant, RequestType
    <2>4. st \in [Tasks -> TaskStatus \cup {"Absent"}]
      BY DEF LedgerTypeOK, TaskStatus
    <2>5. hardDeadline' \in [Tasks -> Instants]
      BY <2>1, <2>2 DEF LedgerTypeOK
    <2>6. queue \in Seq(ResourceRequest) /\ queuedAttempts \in SUBSET Keys
      BY DEF AdmissionTypeOK
    <2> HIDE DEF r, v, st
    <2>7. LedgerTypeOK' /\ AdmissionTypeOK'
      BY <2>1, <2>3, <2>4, <2>5, <2>6, AdmitExistingType
    <2>8. CallerTypeOK'
      BY <2>1, <2>3, ResultType DEF CallerTypeOK
    <2> QED BY <2>7, <2>8
  <1>2. ASSUME NEW t \in Tasks, NEW shape \in Shapes, NEW now \in CallerNow,
               RetryFresh(t, shape, now)
        PROVE  LedgerTypeOK' /\ AdmissionTypeOK' /\ CallerTypeOK'
    <2> DEFINE r == RetryRequest(t, shape)
               v == Verdict(queue, queuedAttempts, r, now, "Retry")
    <2>1. /\ AdmitExisting(queue, queuedAttempts, status, r, v)
          /\ pending' = [pending EXCEPT ![Key(r)] = None]
          /\ delivered' = delivered \cup TokensIn(Result(r, v))
          /\ UNCHANGED <<hardDeadline, call, clock>>
      BY <1>2 DEF RetryFresh
    <2>2. /\ hardDeadline[t] \in Instants /\ shape.deadline \in Instants
          /\ attempt[t] \in Nat
          /\ r.task = t /\ r.attempt = attempt[t] + 1
      BY AdmissionAssumption DEF LedgerTypeOK, Attempts, RetryRequest, Request
    <2>3. queue \in Seq(ResourceRequest) /\ queuedAttempts \in SUBSET Keys
          /\ status \in [Tasks -> TaskStatus \cup {"Absent"}]
          /\ hardDeadline' \in [Tasks -> Instants]
      BY <2>1 DEF AdmissionTypeOK, LedgerTypeOK
    <2>4. CASE r \in ResourceRequest
      <3> HIDE DEF r, v
      <3>1. LedgerTypeOK' /\ AdmissionTypeOK'
        BY <2>1, <2>3, <2>4, AdmitExistingType
      <3>2. CallerTypeOK'
        BY <2>1, <2>4, ResultType DEF CallerTypeOK
      <3> QED BY <3>1, <3>2
    <2>5. CASE r \notin ResourceRequest
      <3>1. attempt[t] + 1 \notin Attempts
        BY <2>2, <2>5, EarlierIsInstant, RequestType DEF RetryRequest
      <3>2. v = "Rejected"
        BY <2>2, <3>1, LedgerAssumption DEF Verdict, ValidRetryStart, Attempts
      <3>3. Result(r, v) = Rejected
        BY <3>2 DEF Result
      <3>4. TokensIn(Result(r, v)) = {}
        BY <3>3 DEF TokensIn, Rejected
      <3> HIDE DEF r, v
      <3>5. Refused(queue, queuedAttempts) /\ UNCHANGED <<status, attempt, notBefore>>
        BY <2>1, <3>2 DEF AdmitExisting
      <3>6. LedgerTypeOK' /\ AdmissionTypeOK'
        BY <2>1, <3>5 DEF LedgerTypeOK, AdmissionTypeOK, Refused
      <3>7. CallerTypeOK'
        BY <2>1, <3>4 DEF CallerTypeOK
      <3> QED BY <3>6, <3>7
    <2> QED BY <2>4, <2>5
  <1>3. ASSUME NEW t \in Tasks, NEW shape \in Shapes, RetryQueued(t, shape)
        PROVE  LedgerTypeOK' /\ AdmissionTypeOK' /\ CallerTypeOK'
    <2>1. /\ pending' = [pending EXCEPT ![Key(RetryRequest(t, shape))] = None]
          /\ UNCHANGED <<ledgerVars, admissionVars, call, callerVars>>
      BY <1>3 DEF RetryQueued
    <2> QED BY <2>1 DEF LedgerTypeOK, AdmissionTypeOK, CallerTypeOK, ledgerVars,
                        admissionVars, callerVars
  <1>4. ASSUME NEW tok \in delivered, NEW outcome \in Outcomes,
               Finish(tok, outcome)
        PROVE  LedgerTypeOK' /\ AdmissionTypeOK' /\ CallerTypeOK'
    <2>1. LedgerTypeOK' /\ AdmissionTypeOK'
      <3>1. clock \in Nat
        BY DEF CallerTypeOK
      <3> QED BY <1>4, <3>1, FinishAtType DEF Finish
    <2> QED BY <1>4, <2>1 DEF Finish, CallerTypeOK, callerVars
  <1>5. ASSUME NEW k \in Keys, PollRetained(k)
        PROVE  LedgerTypeOK' /\ AdmissionTypeOK' /\ CallerTypeOK'
    <2>1. TokensIn(pending[k]) \subseteq Token
      BY <1>5 DEF PollRetained, TokensIn, CallerTypeOK, RuntimeAdmission, Queued,
                  Rejected
    <2> QED BY <1>5, <2>1 DEF PollRetained, LedgerTypeOK, AdmissionTypeOK,
                              CallerTypeOK, ledgerVars, admissionVars
  <1>6. ASSUME NEW k \in Keys, NEW now \in CallerNow, PollStart(k, now)
        PROVE  LedgerTypeOK' /\ AdmissionTypeOK' /\ CallerTypeOK'
    <2>1. Len(queue) \in Nat
      BY DEF AdmissionTypeOK
    <2>2. Polling(k, Len(queue), now) \in Calls
      BY <1>now, <2>1 DEF Polling, Idle, Calls
    <2> QED BY <1>6, <2>2 DEF PollStart, LedgerTypeOK, AdmissionTypeOK,
                              CallerTypeOK, ledgerVars, admissionVars, callerVars
  <1>7. ASSUME DrainDrop
        PROVE  LedgerTypeOK' /\ AdmissionTypeOK' /\ CallerTypeOK'
    <2> DEFINE r == Head(queue)
    <2>1. /\ r \in ResourceRequest /\ Tail(queue) \in Seq(ResourceRequest)
          /\ Key(r) \in Keys /\ PopHead(r) \in SUBSET Keys
          /\ call.left - 1 \in Nat
      BY <1>7, HeadType DEF DrainDrop, Draining, CallerTypeOK, Calls
    <2>2. AdmissionTypeOK'
      BY <1>7, <2>1 DEF DrainDrop, Refused, AdmissionTypeOK
    <2>3. LedgerTypeOK'
      BY <1>7, <2>1, NeverIsInstant
         DEF DrainDrop, LedgerTypeOK, ResourceRequest, TaskStatus
    <2>4. Rejected \in RuntimeAdmission
      BY DEF RuntimeAdmission
    <2>5. CallerTypeOK'
      BY <1>7, <2>1, <2>4, DeliverType DEF DrainDrop, CallerTypeOK, callerVars
    <2> QED BY <2>2, <2>3, <2>5
  <1>8. ASSUME DrainBlocked
        PROVE  LedgerTypeOK' /\ AdmissionTypeOK' /\ CallerTypeOK'
    BY <1>8 DEF DrainBlocked, LedgerTypeOK, AdmissionTypeOK, CallerTypeOK,
                ledgerVars, admissionVars, callerVars, Calls
  <1>9. ASSUME DrainAdmit
        PROVE  LedgerTypeOK' /\ AdmissionTypeOK' /\ CallerTypeOK'
    <2> DEFINE r == Head(queue)
               v == Verdict(Tail(queue), PopHead(r), r, call.now,
                            QueuedAttemptKind(r))
               left == IF v = "Queued" THEN 0 ELSE call.left - 1
    <2>1. /\ r \in ResourceRequest /\ Tail(queue) \in Seq(ResourceRequest)
          /\ Key(r) \in Keys /\ PopHead(r) \in SUBSET Keys
          /\ left \in Nat
      BY <1>9, HeadType DEF DrainAdmit, Draining, CallerTypeOK, Calls
    <2>2. /\ AdmitExisting(Tail(queue), PopHead(r), status, r, v)
          /\ Deliver(Key(r), Result(r, v), left)
          /\ UNCHANGED <<hardDeadline, callerVars>>
      BY <1>9 DEF DrainAdmit
    <2>3. status \in [Tasks -> TaskStatus \cup {"Absent"}]
          /\ hardDeadline' \in [Tasks -> Instants]
      BY <2>2 DEF LedgerTypeOK
    <2> HIDE DEF r, v, left
    <2>4. LedgerTypeOK' /\ AdmissionTypeOK'
      BY <2>1, <2>2, <2>3, AdmitExistingType
    <2>5. CallerTypeOK'
      BY <2>1, <2>2, ResultType, DeliverType DEF CallerTypeOK, callerVars
    <2> QED BY <2>4, <2>5
  <1>10. ASSUME PollReturn
         PROVE  LedgerTypeOK' /\ AdmissionTypeOK' /\ CallerTypeOK'
    <2>1. TokensIn(call.target) \subseteq Token
      BY DEF TokensIn, CallerTypeOK, Calls, RuntimeAdmission, Queued, Rejected,
             None
    <2>2. Idle \in Calls
      BY DEF Idle, Calls
    <2> QED BY <1>10, <2>1, <2>2 DEF PollReturn, LedgerTypeOK, AdmissionTypeOK,
                                     CallerTypeOK, ledgerVars, admissionVars
  <1>11. ASSUME NEW k \in Keys, CancelQueued(k)
         PROVE  LedgerTypeOK' /\ AdmissionTypeOK' /\ CallerTypeOK'
    <2>1. k[1] \in Tasks
      BY DEF Keys
    <2>2. LedgerTypeOK'
      BY <1>11, <2>1, NeverIsInstant DEF CancelQueued, LedgerTypeOK, TaskStatus
    <2>3. AdmissionTypeOK'
      <3>1. PICK i \in 1 .. Len(queue) : queue' = RemoveAt(queue, i)
        BY <1>11 DEF CancelQueued, RemoveQueued
      <3>2. queue' \in Seq(ResourceRequest)
        BY <3>1, RemoveAtProperties DEF AdmissionTypeOK
      <3> QED BY <1>11, <3>2 DEF CancelQueued, RemoveQueued, AdmissionTypeOK
    <2>4. CallerTypeOK'
      BY <1>11 DEF CancelQueued, CallerTypeOK, callerVars
    <2> QED BY <2>2, <2>3, <2>4
  <1>12. ASSUME NEW now \in CallerNow, ReapStart(now)
         PROVE  LedgerTypeOK' /\ AdmissionTypeOK' /\ CallerTypeOK'
    <2>1. \A l \in active : TokenOf(l) \in Token
      BY DEF AdmissionTypeOK, Lease, Token, TokenOf
    <2>2. \A S \in SUBSET Token : Reaping(S, now) \in Calls
      BY <1>now DEF Reaping, Idle, Calls
    <2> QED BY <1>12, <2>1, <2>2 DEF ReapStart, LedgerTypeOK, AdmissionTypeOK,
                        CallerTypeOK, ledgerVars, admissionVars, callerVars
  <1>13. ASSUME NEW tok \in call.tokens, ReapOne(tok)
         PROVE  LedgerTypeOK' /\ AdmissionTypeOK' /\ CallerTypeOK'
    <2>1. LedgerTypeOK' /\ AdmissionTypeOK'
      <3>1. call.now \in Nat /\ "TimedOut" \in Outcomes
        BY DEF CallerTypeOK, Calls, Outcomes
      <3> QED BY <1>13, <3>1, FinishAtType DEF ReapOne
    <2>2. CallerTypeOK'
      BY <1>13 DEF ReapOne, CallerTypeOK, callerVars, Calls
    <2> QED BY <2>1, <2>2
  <1>14. ASSUME ReapReturn
         PROVE  LedgerTypeOK' /\ AdmissionTypeOK' /\ CallerTypeOK'
    <2>1. Idle \in Calls
      BY DEF Idle, Calls
    <2> QED BY <1>14, <2>1 DEF ReapReturn, LedgerTypeOK, AdmissionTypeOK,
                       CallerTypeOK, ledgerVars, admissionVars, callerVars
  <1>15. ASSUME ObserveResourceSample
         PROVE  LedgerTypeOK' /\ AdmissionTypeOK' /\ CallerTypeOK'
    BY <1>15, AdmissionAssumption
       DEF ObserveResourceSample, CapacityFeedback, LedgerTypeOK,
           AdmissionTypeOK, CallerTypeOK, ledgerVars, callerVars
  <1>16. ASSUME Tick
         PROVE  LedgerTypeOK' /\ AdmissionTypeOK' /\ CallerTypeOK'
    BY <1>16, LedgerAssumption
       DEF Tick, LedgerTypeOK, AdmissionTypeOK, CallerTypeOK, ledgerVars,
           admissionVars
  <1>17. ASSUME UNCHANGED vars
         PROVE  LedgerTypeOK' /\ AdmissionTypeOK' /\ CallerTypeOK'
    BY <1>17 DEF vars, LedgerTypeOK, AdmissionTypeOK, CallerTypeOK, ledgerVars,
                 admissionVars, callerVars
  <1> QED
    BY <1>1, <1>2, <1>3, <1>4, <1>5, <1>6, <1>7, <1>8, <1>9, <1>10, <1>11,
       <1>12, <1>13, <1>14, <1>15, <1>16, <1>17 DEF Next

\* The runtime starts with every variable of its type.
LEMMA InitTypeOK == Init => TypeOK
  <1> SUFFICES ASSUME Init PROVE LedgerTypeOK /\ AdmissionTypeOK /\ CallerTypeOK
    BY TypeParts
  <1>1. LedgerTypeOK
    BY NeverIsInstant, LedgerAssumption DEF Init, LedgerTypeOK, Attempts
  <1>2. AdmissionTypeOK
    BY AdmissionAssumption DEF Init, AdmissionTypeOK, MemoryPressure
  <1>3. CallerTypeOK
    BY LedgerAssumption DEF Init, CallerTypeOK, Calls, Idle
  <1> QED BY <1>1, <1>2, <1>3

\* Every variable always has the type of the Rust field it models.
THEOREM TypeCorrect == Spec => []TypeOK
  BY InitTypeOK, TypeStep, PTL DEF Spec

-----------------------------------------------------------------------------
(* The parts of the inductive invariant that no run checks by name.        *)

\* Lease identities are handed out once: the counter is above all of them.
LeaseIdsFresh ==
    /\ IsFiniteSet(active)
    /\ \A l \in active : l.lease < nextLeaseId

\* Only a poll collects a result, it collects it for an attempt that has no
\* retained one, and it uses an instant that has passed.
CallConsistent ==
    /\ call.op # "poll" => call.target = None
    /\ call.op = "poll" => call.key \in Keys
    /\ call.op = "poll" /\ call.target = None => pending[call.key] = None
    /\ call.now <= clock

\* Nothing is retained for a task that was never submitted.
AbsentIsFresh ==
    \A k \in Keys : status[k[1]] = "Absent" => pending[k] = None

RuntimeInv ==
    /\ TypeOK
    /\ LeaseIdsFresh
    /\ RunningIffLeased
    /\ QueueConsistent
    /\ LaneAccounting
    /\ UsedWithinCapacity
    /\ CallConsistent
    /\ AbsentIsFresh
    /\ PendingMatchesQueue
    /\ NoLeaseLost

-----------------------------------------------------------------------------
(* The queue as a set of attempts.                                         *)

KeysOf(q) == {Key(q[i]) : i \in 1 .. Len(q)}

Distinct(q) == \A i, j \in 1 .. Len(q) : Key(q[i]) = Key(q[j]) => i = j

QueueShape(q, idx) == KeysOf(q) = idx /\ Distinct(q) /\ Len(q) <= QueueLimit

\* The ledger, as the functions st and att, waits for attempt k to be granted.
Expected(k, st, att) ==
    \/ st[k[1]] = "Ready" /\ k[2] = att[k[1]]
    \/ st[k[1]] = "RetryWait" /\ k[2] = att[k[1]] + 1

Scheduled == \A k \in queuedAttempts : Expected(k, status, attempt)

\* QueueConsistent in these terms.
LEMMA QueueParts ==
    QueueConsistent <=> QueueShape(queue, queuedAttempts) /\ Scheduled
  <1>1. \A i \in 1 .. Len(queue) :
            QueuedAttemptKind(queue[i]) # "Stale"
                <=> Expected(Key(queue[i]), status, attempt)
    BY DEF QueuedAttemptKind, Expected, Key
  <1> QED BY <1>1 DEF QueueConsistent, QueueShape, Scheduled, KeysOf, Distinct,
                      QueuedKeys

\* Enqueueing a new attempt.
LEMMA AppendShape ==
    ASSUME NEW q \in Seq(ResourceRequest), NEW idx, NEW r \in ResourceRequest,
           QueueShape(q, idx), Key(r) \notin idx, Len(q) < QueueLimit
    PROVE  QueueShape(Append(q, r), idx \cup {Key(r)})
  <1> DEFINE a == Append(q, r)
  <1>1. /\ Len(a) = Len(q) + 1 /\ Len(q) \in Nat
        /\ \A i \in 1 .. Len(q) : a[i] = q[i]
        /\ a[Len(q) + 1] = r
    OBVIOUS
  <1> HIDE DEF a
  <1>2. KeysOf(a) = idx \cup {Key(r)}
    BY <1>1 DEF QueueShape, KeysOf
  <1>3. Distinct(a)
    BY <1>1 DEF QueueShape, KeysOf, Distinct
  <1>4. Len(a) <= QueueLimit
    BY <1>1, AdmissionAssumption
  <1> QED BY <1>2, <1>3, <1>4 DEF QueueShape, a

\* Taking out the entry at position i.
LEMMA RemoveShape ==
    ASSUME NEW q \in Seq(ResourceRequest), NEW idx, NEW i \in 1 .. Len(q),
           QueueShape(q, idx), NEW c, Len(c) = Len(q) - 1,
           \A j \in 1 .. Len(q) - 1 : c[j] = IF j < i THEN q[j] ELSE q[j + 1]
    PROVE  QueueShape(c, idx \ {Key(q[i])})
  <1>0. Len(q) \in Nat
    OBVIOUS
  <1>1. KeysOf(c) \subseteq idx \ {Key(q[i])}
    <2> SUFFICES ASSUME NEW j \in 1 .. Len(q) - 1
                 PROVE  Key(c[j]) \in idx /\ Key(c[j]) # Key(q[i])
      BY <1>0 DEF KeysOf
    <2>1. CASE j < i
      BY <1>0, <2>1 DEF QueueShape, KeysOf, Distinct
    <2>2. CASE ~(j < i)
      BY <1>0, <2>2 DEF QueueShape, KeysOf, Distinct
    <2> QED BY <2>1, <2>2
  <1>2. idx \ {Key(q[i])} \subseteq KeysOf(c)
    <2> SUFFICES ASSUME NEW j \in 1 .. Len(q), j # i
                 PROVE  Key(q[j]) \in KeysOf(c)
      BY DEF QueueShape, KeysOf
    <2>1. CASE j < i
      <3>1. j \in 1 .. Len(c) /\ c[j] = q[j]
        BY <1>0, <2>1
      <3> QED BY <3>1 DEF KeysOf
    <2>2. CASE j > i
      <3>1. j - 1 \in 1 .. Len(c) /\ c[j - 1] = q[j]
        BY <1>0, <2>2
      <3> QED BY <3>1 DEF KeysOf
    <2> QED BY <2>1, <2>2
  <1>3. Distinct(c)
    <2> SUFFICES ASSUME NEW j \in 1 .. Len(q) - 1, NEW k \in 1 .. Len(q) - 1,
                        Key(c[j]) = Key(c[k])
                 PROVE  j = k
      BY DEF Distinct
    <2> DEFINE sj == IF j < i THEN j ELSE j + 1
               sk == IF k < i THEN k ELSE k + 1
    <2>1. sj \in 1 .. Len(q) /\ sk \in 1 .. Len(q) /\ c[j] = q[sj] /\ c[k] = q[sk]
      BY <1>0
    <2>2. sj = sk
      BY <2>1 DEF QueueShape, Distinct
    <2> QED BY <2>2
  <1> QED BY <1>0, <1>1, <1>2, <1>3, AdmissionAssumption DEF QueueShape

\* Popping the head.
LEMMA TailShape ==
    ASSUME queue \in Seq(ResourceRequest), queue # <<>>,
           QueueShape(queue, queuedAttempts)
    PROVE  /\ QueueShape(Tail(queue), PopHead(Head(queue)))
           /\ Key(Head(queue)) \in queuedAttempts
  <1>1. /\ 1 \in 1 .. Len(queue) /\ Head(queue) = queue[1]
        /\ Len(Tail(queue)) = Len(queue) - 1
        /\ \A j \in 1 .. Len(queue) - 1 : Tail(queue)[j] = queue[j + 1]
    OBVIOUS
  <1> DEFINE c == Tail(queue)
  <1>2. \A j \in 1 .. Len(queue) - 1 :
            c[j] = IF j < 1 THEN queue[j] ELSE queue[j + 1]
    BY <1>1
  <1>3. Len(c) = Len(queue) - 1
    BY <1>1
  <1> HIDE DEF c
  <1>4. QueueShape(c, queuedAttempts \ {Key(queue[1])})
    BY <1>1, <1>2, <1>3, RemoveShape
  <1> QED BY <1>1, <1>4 DEF c, PopHead, QueueShape, KeysOf

-----------------------------------------------------------------------------
(* submit, retry and an iteration of the drain all end in admit_existing,  *)
(* for a request the ledger waits for and no queue entry is left of.       *)

AdmissionStep(q, idx, st, r, now, kind) ==
    /\ q \in Seq(ResourceRequest)
    /\ idx \in SUBSET Keys
    /\ st \in [Tasks -> TaskStatus \cup {"Absent"}]
    /\ r \in ResourceRequest
    /\ QueueShape(q, idx)
    /\ idx \subseteq queuedAttempts
    /\ \A k \in idx : k[1] # r.task
    /\ \A t \in Tasks : t # r.task => st[t] = status[t]
    /\ status[r.task] \in {"Absent", "Ready", "RetryWait"}
    /\ \/ kind = "Initial" /\ st[r.task] = "Ready" /\ r.attempt = attempt[r.task]
       \/ /\ kind = "Retry" /\ st[r.task] = "RetryWait"
          /\ status[r.task] = "RetryWait" /\ r.attempt = attempt[r.task] + 1
    /\ AdmitExisting(q, idx, st, r, Verdict(q, idx, r, now, kind))

\* What it does, verdict by verdict.
AdmissionGrants(idx, r) ==
    /\ queuedAttempts' = idx
    /\ active' = active \cup {NewLease(r)}
    /\ nextLeaseId' = nextLeaseId + 1
    /\ laneActive' = Acquired(r.lane) /\ LaneFree(r.lane)
    /\ used' = used + r.units /\ Fits(r)
    /\ capacity' = capacity
    /\ status'[r.task] = "Running"
    /\ attempt' = [attempt EXCEPT ![r.task] = r.attempt]

AdmissionWaits(idx, st, r) ==
    /\ queuedAttempts' = idx \cup {Key(r)}
    /\ Key(r) \notin idx
    /\ status' = st
    /\ UNCHANGED <<attempt, active, nextLeaseId, laneActive, used, capacity>>

AdmissionFails(idx, st) ==
    /\ queuedAttempts' = idx
    /\ status' = st
    /\ UNCHANGED <<attempt, active, nextLeaseId, laneActive, used, capacity>>

\* The three outcomes of admit_existing and what each leaves alone.
LEMMA AdmissionCases ==
    ASSUME TypeOK, NEW q, NEW idx, NEW st, NEW r, NEW now, NEW kind,
           AdmissionStep(q, idx, st, r, now, kind)
    PROVE  LET v == Verdict(q, idx, r, now, kind)
           IN  /\ \/ v = "Admitted" /\ AdmissionGrants(idx, r)
                  \/ v = "Queued" /\ AdmissionWaits(idx, st, r)
                  \/ v = "Rejected" /\ AdmissionFails(idx, st)
               /\ QueueShape(queue', queuedAttempts')
               /\ \A t \in Tasks : t # r.task => status'[t] = status[t]
  <1> DEFINE v == Verdict(q, idx, r, now, kind)
  <1>0. /\ q \in Seq(ResourceRequest) /\ r \in ResourceRequest /\ r.task \in Tasks
        /\ QueueShape(q, idx)
        /\ st \in [Tasks -> TaskStatus \cup {"Absent"}]
        /\ \A t \in Tasks : t # r.task => st[t] = status[t]
        /\ AdmitExisting(q, idx, st, r, v)
    BY DEF AdmissionStep, ResourceRequest
  <1>1. CASE v = "Admitted"
    <2>1. LaneFree(r.lane) /\ Fits(r)
      BY <1>1 DEF Verdict, AdmitVerdict
    <2> HIDE DEF v
    <2>2. /\ Granted(q, idx, r) /\ status' = [st EXCEPT ![r.task] = "Running"]
          /\ attempt' = [attempt EXCEPT ![r.task] = r.attempt]
      BY <1>0, <1>1 DEF AdmitExisting
    <2> QED BY <1>0, <1>1, <2>1, <2>2 DEF AdmissionGrants, Granted, v
  <1>2. CASE v = "Queued"
    <2>1. Key(r) \notin idx /\ Len(q) < QueueLimit
      BY <1>2 DEF Verdict, AdmitVerdict, CanEnqueue
    <2> HIDE DEF v
    <2>2. Enqueued(q, idx, r) /\ status' = st /\ UNCHANGED <<attempt, notBefore>>
      BY <1>0, <1>2 DEF AdmitExisting
    <2>3. QueueShape(queue', queuedAttempts')
      BY <1>0, <2>1, <2>2, AppendShape DEF Enqueued
    <2> QED BY <1>0, <1>2, <2>1, <2>2, <2>3 DEF AdmissionWaits, Enqueued, v
  <1>3. CASE v = "Rejected"
    <2> HIDE DEF v
    <2>1. Refused(q, idx) /\ status' = st /\ UNCHANGED <<attempt, notBefore>>
      BY <1>0, <1>3 DEF AdmitExisting
    <2> QED BY <1>0, <1>3, <2>1 DEF AdmissionFails, Refused, v
  <1> QED BY <1>1, <1>2, <1>3, VerdictCases

\* The leases and the queue after admit_existing.
LEMMA AdmissionLeases ==
    ASSUME TypeOK, LeaseIdsFresh, RunningIffLeased, Scheduled,
           NEW q, NEW idx, NEW st, NEW r, NEW now, NEW kind,
           AdmissionStep(q, idx, st, r, now, kind)
    PROVE  LeaseIdsFresh' /\ RunningIffLeased' /\ Scheduled'
  <1> DEFINE v == Verdict(q, idx, r, now, kind)
  <1>0. /\ r \in ResourceRequest /\ r.task \in Tasks /\ r.attempt \in Attempts
        /\ idx \subseteq queuedAttempts /\ idx \subseteq Keys
        /\ \A k \in idx : k[1] # r.task
        /\ status[r.task] # "Running"
        /\ st[r.task] # "Running"
        /\ Expected(Key(r), st, attempt)
    BY DEF AdmissionStep, ResourceRequest, Expected, Key
  <1>1. \A t \in Tasks : t # r.task => status'[t] = status[t]
    BY AdmissionCases
  <1>2. \A l \in active : l.task \in Tasks /\ l.task # r.task /\ l.lease \in Nat
    BY <1>0 DEF RunningIffLeased, TypeOK, Lease
  <1>3. CASE v = "Admitted"
    <2>1. AdmissionGrants(idx, r)
      BY <1>3, AdmissionCases
    <2>2. /\ NewLease(r).lease = nextLeaseId /\ NewLease(r).task = r.task
          /\ NewLease(r).attempt = r.attempt /\ nextLeaseId \in Nat
      BY DEF NewLease, TypeOK
    <2>3. LeaseIdsFresh'
      BY <1>2, <2>1, <2>2, FS_AddElement DEF LeaseIdsFresh, AdmissionGrants
    <2>4. /\ status'[r.task] = "Running" /\ attempt'[r.task] = r.attempt
          /\ \A t \in Tasks : t # r.task => attempt'[t] = attempt[t]
      BY <1>0, <2>1 DEF AdmissionGrants, TypeOK
    <2>5. RunningIffLeased'
      <3>1. \A l \in active' : status'[l.task] = "Running" /\ attempt'[l.task] = l.attempt
        BY <1>1, <1>2, <2>1, <2>2, <2>4 DEF AdmissionGrants, RunningIffLeased
      <3>2. \A l, m \in active' : l.task = m.task \/ l.lease = m.lease => l = m
        BY <1>2, <2>1, <2>2 DEF AdmissionGrants, RunningIffLeased, LeaseIdsFresh
      <3>3. \A t \in Tasks : status'[t] = "Running" => \E l \in active' : l.task = t
        BY <1>1, <2>1, <2>2 DEF AdmissionGrants, RunningIffLeased
      <3> QED BY <3>1, <3>2, <3>3 DEF RunningIffLeased
    <2>6. Scheduled'
      <3> SUFFICES ASSUME NEW k \in idx PROVE Expected(k, status', attempt')
        BY <2>1 DEF Scheduled, AdmissionGrants
      <3>1. k[1] \in Tasks /\ k[1] # r.task
        BY <1>0 DEF Keys
      <3> QED BY <1>0, <1>1, <2>4, <3>1 DEF Scheduled, Expected
    <2> QED BY <2>3, <2>5, <2>6
  <1>4. CASE v # "Admitted"
    <2>1. /\ status' = st /\ UNCHANGED <<attempt, active, nextLeaseId>>
          /\ queuedAttempts' \subseteq idx \cup {Key(r)}
      BY <1>4, AdmissionCases DEF AdmissionWaits, AdmissionFails
    <2>2. LeaseIdsFresh'
      BY <2>1 DEF LeaseIdsFresh
    <2>3. RunningIffLeased'
      BY <1>0, <1>1, <1>2, <2>1 DEF RunningIffLeased
    <2>4. Scheduled'
      <3>1. ASSUME NEW k \in idx PROVE Expected(k, status', attempt')
        <4>1. k[1] \in Tasks /\ k[1] # r.task
          BY <1>0 DEF Keys
        <4> QED BY <1>0, <1>1, <2>1, <4>1 DEF Scheduled, Expected
      <3>2. Expected(Key(r), status', attempt')
        BY <1>0, <2>1
      <3> QED BY <2>1, <3>1, <3>2 DEF Scheduled
    <2> QED BY <2>2, <2>3, <2>4
  <1> QED BY <1>3, <1>4

\* The lanes and the counters after admit_existing.
LEMMA AdmissionLanes ==
    ASSUME TypeOK, LeaseIdsFresh, LaneAccounting, UsedWithinCapacity,
           NEW q, NEW idx, NEW st, NEW r, NEW now, NEW kind,
           AdmissionStep(q, idx, st, r, now, kind)
    PROVE  LaneAccounting' /\ UsedWithinCapacity'
  <1>1. r.lane \in Lanes /\ r.units \in Nat
    BY DEF AdmissionStep, ResourceRequest
  <1>2. CASE AdmissionGrants(idx, r)
    <2> DEFINE On(S, lane) == {l \in S : l.lane = lane}
    <2>1. ASSUME NEW lane \in Lanes
          PROVE  /\ laneActive'[lane] = Cardinality(On(active', lane))
                 /\ laneActive'[lane] <= LaneLimit[lane]
      <3>1. /\ IsFiniteSet(On(active, lane))
            /\ laneActive[lane] = Cardinality(On(active, lane))
            /\ laneActive[lane] <= LaneLimit[lane]
            /\ laneActive[lane] \in Nat /\ LaneLimit[lane] \in Nat
        BY FS_Subset, AdmissionAssumption DEF LeaseIdsFresh, LaneAccounting, TypeOK
      <3>2. CASE lane = r.lane
        <4>1. On(active', lane) = On(active, lane) \cup {NewLease(r)}
          BY <1>2, <3>2 DEF AdmissionGrants, NewLease
        <4>2. NewLease(r) \notin On(active, lane)
          BY DEF NewLease, LeaseIdsFresh, TypeOK
        <4>3. Cardinality(On(active', lane)) = Cardinality(On(active, lane)) + 1
          BY <3>1, <4>1, <4>2, FS_AddElement
        <4>4. laneActive'[lane] = laneActive[lane] + 1 /\ laneActive[lane] < LaneLimit[lane]
          BY <1>2, <3>2 DEF AdmissionGrants, Acquired, LaneFree, TypeOK
        <4> QED BY <3>1, <4>3, <4>4
      <3>3. CASE lane # r.lane
        <4>1. On(active', lane) = On(active, lane)
          BY <1>2, <3>3 DEF AdmissionGrants, NewLease
        <4>2. laneActive'[lane] = laneActive[lane]
          BY <1>2, <3>3 DEF AdmissionGrants, Acquired, TypeOK
        <4> QED BY <3>1, <4>1, <4>2
      <3> QED BY <3>2, <3>3
    <2>2. LaneAccounting'
      BY <2>1 DEF LaneAccounting
    <2>3. UsedWithinCapacity'
      BY <1>1, <1>2 DEF AdmissionGrants, Fits, UsedWithinCapacity, TypeOK
    <2> QED BY <2>2, <2>3
  <1>3. CASE ~AdmissionGrants(idx, r)
    <2>1. UNCHANGED <<active, laneActive, used, capacity>>
      BY <1>3, AdmissionCases DEF AdmissionWaits, AdmissionFails
    <2> QED BY <2>1 DEF LaneAccounting, UsedWithinCapacity
  <1> QED BY <1>2, <1>3

-----------------------------------------------------------------------------
(* finish_at ends one lease.                                               *)

FinishStep(l, outcome, now) ==
    /\ active' = active \ {l}
    /\ status' = [status EXCEPT ![l.task] = FinishTarget(l, outcome, now)]
    /\ FinishTarget(l, outcome, now) \in Outcomes
    /\ laneActive[l.lane] > 0
    /\ laneActive' = Released(l.lane)
    /\ used' <= used
    /\ UNCHANGED <<attempt, nextLeaseId, queue, queuedAttempts, capacity>>

\* finish_at ends one lease, the one its token denotes.
LEMMA FinishCases ==
    ASSUME TypeOK, RunningIffLeased, NEW tok, NEW outcome \in Outcomes, NEW now,
           FinishAt(tok, outcome, now)
    PROVE  \E l \in active : FinishStep(l, outcome, now)
  <1>1. PICK l \in active :
            /\ laneActive[l.lane] > 0
            /\ ReleaseLease(l)
            /\ status' = [status EXCEPT
                            ![l.task] = FinishTarget(l, outcome, now)]
            /\ attempt' = attempt
    BY DEF FinishAt
  <1>2. FinishTarget(l, outcome, now) \in Outcomes
    BY DEF FinishTarget, EffectiveOutcome, Outcomes
  <1>3. active' = active \ {l}
    BY <1>1 DEF ReleaseLease, RunningIffLeased
  <1>4. used' <= used
    BY <1>1 DEF ReleaseLease, TypeOK, Lease
  <1> QED BY <1>1, <1>2, <1>3, <1>4 DEF FinishStep, ReleaseLease

\* The leases, the queue, the lanes and the counters after finish_at.
LEMMA FinishLeases ==
    ASSUME TypeOK, LeaseIdsFresh, RunningIffLeased, QueueConsistent,
           LaneAccounting, UsedWithinCapacity,
           NEW tok, NEW outcome \in Outcomes, NEW now,
           FinishAt(tok, outcome, now), TypeOK'
    PROVE  LeaseIdsFresh' /\ RunningIffLeased' /\ QueueConsistent'
           /\ LaneAccounting' /\ UsedWithinCapacity'
  <1>1. PICK l \in active : FinishStep(l, outcome, now)
    BY FinishCases
  <1>2. l.task \in Tasks /\ l.lane \in Lanes /\ status[l.task] = "Running"
    BY DEF RunningIffLeased, TypeOK, Lease
  <1>3. /\ status'[l.task] \in Outcomes
        /\ \A t \in Tasks : t # l.task => status'[t] = status[t]
    BY <1>1, <1>2 DEF FinishStep, TypeOK
  <1>4. LeaseIdsFresh'
    BY <1>1, FS_Subset DEF FinishStep, LeaseIdsFresh
  <1>5. RunningIffLeased'
    <2>1. \A m \in active' : m.task \in Tasks /\ m.task # l.task
      BY <1>1 DEF FinishStep, RunningIffLeased, TypeOK, Lease
    <2> QED BY <1>1, <1>3, <2>1 DEF FinishStep, RunningIffLeased, Outcomes
  <1>6. QueueConsistent'
    <2>1. QueueShape(queue, queuedAttempts)' 
      BY <1>1, QueueParts DEF FinishStep, QueueShape, KeysOf, Distinct
    <2>2. Scheduled'
      <3> SUFFICES ASSUME NEW k \in queuedAttempts
                   PROVE  Expected(k, status', attempt')
        BY <1>1 DEF FinishStep, Scheduled
      <3>1. Expected(k, status, attempt) /\ k[1] \in Tasks
        BY QueueParts DEF Scheduled, TypeOK, Keys
      <3>2. k[1] # l.task
        BY <1>2, <3>1 DEF Expected
      <3> QED BY <1>1, <1>3, <3>1, <3>2 DEF Expected, FinishStep
    <2>3. QueueConsistent' <=> QueueShape(queue, queuedAttempts)' /\ Scheduled'
      BY QueueParts, PTL
    <2> QED BY <2>1, <2>2, <2>3
  <1>7. LaneAccounting'
    <2> DEFINE On(S, lane) == {m \in S : m.lane = lane}
    <2> SUFFICES ASSUME NEW lane \in Lanes
                 PROVE  /\ laneActive'[lane] = Cardinality(On(active', lane))
                        /\ laneActive'[lane] <= LaneLimit[lane]
      BY DEF LaneAccounting
    <2>1. /\ IsFiniteSet(On(active, lane))
          /\ laneActive[lane] = Cardinality(On(active, lane))
          /\ laneActive[lane] <= LaneLimit[lane]
          /\ laneActive[lane] \in Nat /\ LaneLimit[lane] \in Nat
      BY FS_Subset, AdmissionAssumption DEF LeaseIdsFresh, LaneAccounting, TypeOK
    <2>2. CASE lane = l.lane
      <3>1. On(active', lane) = On(active, lane) \ {l} /\ l \in On(active, lane)
        BY <1>1, <2>2 DEF FinishStep
      <3>2. Cardinality(On(active', lane)) = Cardinality(On(active, lane)) - 1
        BY <2>1, <3>1, FS_RemoveElement
      <3>3. laneActive'[lane] = laneActive[lane] - 1
        BY <1>1, <2>2 DEF FinishStep, Released, TypeOK
      <3> QED BY <2>1, <3>2, <3>3
    <2>3. CASE lane # l.lane
      <3>1. On(active', lane) = On(active, lane)
        BY <1>1, <2>3 DEF FinishStep
      <3>2. laneActive'[lane] = laneActive[lane]
        BY <1>1, <2>3 DEF FinishStep, Released, TypeOK
      <3> QED BY <2>1, <3>1, <3>2
    <2> QED BY <2>2, <2>3
  <1>8. UsedWithinCapacity'
    BY <1>1 DEF FinishStep, UsedWithinCapacity, TypeOK
  <1> QED BY <1>4, <1>5, <1>6, <1>7, <1>8

-----------------------------------------------------------------------------
(* The three callers of admit_existing.                                    *)

SubmitRequest(t, shape, hard) ==
    Request(t, attempt[t], shape, Earlier(shape.deadline, hard))

\* submit puts a fresh task through admission.
LEMMA SubmitAdmission ==
    ASSUME TypeOK, QueueConsistent, NEW t \in Tasks, NEW shape \in Shapes,
           NEW hard \in HardDeadlines, NEW now, Submit(t, shape, hard, now)
    PROVE  AdmissionStep(queue, queuedAttempts, [status EXCEPT ![t] = "Ready"],
                         SubmitRequest(t, shape, hard), now, "Initial")
  <1> DEFINE r == SubmitRequest(t, shape, hard)
             st == [status EXCEPT ![t] = "Ready"]
  <1>1. status[t] = "Absent"
        /\ AdmitExisting(queue, queuedAttempts, st, r,
                         Verdict(queue, queuedAttempts, r, now, "Initial"))
    BY DEF Submit, SubmitRequest
  <1>2. r \in ResourceRequest /\ r.task = t /\ r.attempt = attempt[t]
    <2>1. shape.deadline \in Instants /\ hard \in Instants /\ attempt[t] \in Attempts
      BY AdmissionAssumption, RuntimeAssumption DEF TypeOK
    <2>2. r \in ResourceRequest
      BY <2>1, EarlierIsInstant, RequestType DEF SubmitRequest
    <2> QED BY <2>2 DEF SubmitRequest, Request
  <1>3. \A k \in queuedAttempts : k[1] # t
    BY <1>1, QueueParts DEF Scheduled, Expected
  <1>4. /\ st \in [Tasks -> TaskStatus \cup {"Absent"}]
        /\ st[t] = "Ready" /\ \A u \in Tasks : u # t => st[u] = status[u]
    BY DEF TypeOK, TaskStatus
  <1>5. queue \in Seq(ResourceRequest) /\ queuedAttempts \in SUBSET Keys
        /\ QueueShape(queue, queuedAttempts)
    BY QueueParts DEF TypeOK
  <1> HIDE DEF r, st
  <1>6. AdmissionStep(queue, queuedAttempts, st, r, now, "Initial")
    BY <1>1, <1>2, <1>3, <1>4, <1>5 DEF AdmissionStep
  <1> QED BY <1>6 DEF r, st

\* A retry either goes through admission or, with its attempts used up, is
\* refused without a trace.
LEMMA RetryAdmission ==
    ASSUME TypeOK, QueueConsistent, NEW t \in Tasks, NEW shape \in Shapes,
           NEW now, RetryFresh(t, shape, now)
    PROVE  LET r == RetryRequest(t, shape)
           IN  \/ AdmissionStep(queue, queuedAttempts, status, r, now, "Retry")
               \/ /\ UNCHANGED <<ledgerVars, admissionVars, delivered>>
                  /\ Key(r) \notin Keys
  <1> DEFINE r == RetryRequest(t, shape)
             v == Verdict(queue, queuedAttempts, r, now, "Retry")
  <1>1. /\ status[t] = "RetryWait" /\ Key(r) \notin queuedAttempts
        /\ AdmitExisting(queue, queuedAttempts, status, r, v)
        /\ delivered' = delivered \cup TokensIn(Result(r, v))
        /\ hardDeadline' = hardDeadline
    BY DEF RetryFresh
  <1>2. /\ r.task = t /\ r.attempt = attempt[t] + 1 /\ Key(r) = <<t, attempt[t] + 1>>
        /\ attempt[t] \in Nat
    BY DEF RetryRequest, Request, Key, TypeOK, Attempts
  <1>3. CASE attempt[t] + 1 \in Attempts
    <2>1. shape.deadline \in Instants /\ hardDeadline[t] \in Instants
      BY AdmissionAssumption DEF TypeOK
    <2>2. r \in ResourceRequest
      BY <1>3, <2>1, EarlierIsInstant, RequestType DEF RetryRequest
    <2>3. \A k \in queuedAttempts : k[1] # t
      <3> SUFFICES ASSUME NEW k \in queuedAttempts, k[1] = t PROVE FALSE
        OBVIOUS
      <3>1. k[2] = attempt[t] + 1
        BY <1>1, QueueParts DEF Scheduled, Expected
      <3>2. k = <<k[1], k[2]>>
        BY DEF TypeOK, Keys
      <3> QED BY <1>1, <1>2, <3>1, <3>2
    <2>4. queue \in Seq(ResourceRequest) /\ queuedAttempts \in SUBSET Keys
          /\ QueueShape(queue, queuedAttempts)
          /\ status \in [Tasks -> TaskStatus \cup {"Absent"}]
      BY QueueParts DEF TypeOK
    <2> HIDE DEF r
    <2>5. AdmissionStep(queue, queuedAttempts, status, r, now, "Retry")
      BY <1>1, <1>2, <2>2, <2>3, <2>4 DEF AdmissionStep
    <2> QED BY <2>5 DEF r
  <1>4. CASE attempt[t] + 1 \notin Attempts
    <2>1. v = "Rejected"
      BY <1>2, <1>4, LedgerAssumption DEF Verdict, ValidRetryStart, Attempts
    <2>2. TokensIn(Result(r, v)) = {}
      BY <2>1 DEF Result, TokensIn, Rejected
    <2>3. Key(r) \notin Keys
      BY <1>2, <1>4 DEF Keys
    <2> HIDE DEF r, v
    <2>4. UNCHANGED <<ledgerVars, admissionVars, delivered>>
      BY <1>1, <2>1, <2>2 DEF AdmitExisting, Refused, ledgerVars, admissionVars
    <2> QED BY <2>3, <2>4 DEF r
  <1> QED BY <1>3, <1>4

\* What the drain finds at the head of the queue.
LEMMA HeadExpected ==
    ASSUME TypeOK, QueueConsistent, queue # <<>>
    PROVE  LET r == Head(queue)
           IN  /\ r \in ResourceRequest /\ r.task \in Tasks /\ Key(r) \in Keys
               /\ Tail(queue) \in Seq(ResourceRequest)
               /\ QueueShape(Tail(queue), PopHead(r))
               /\ Key(r) \in queuedAttempts
               /\ PopHead(r) \in SUBSET Keys /\ PopHead(r) \subseteq queuedAttempts
               /\ \A k \in PopHead(r) : k[1] # r.task
               /\ \/ /\ QueuedAttemptKind(r) = "Initial"
                     /\ status[r.task] = "Ready" /\ r.attempt = attempt[r.task]
                  \/ /\ QueuedAttemptKind(r) = "Retry"
                     /\ status[r.task] = "RetryWait"
                     /\ r.attempt = attempt[r.task] + 1
  <1> DEFINE r == Head(queue)
  <1>1. r \in ResourceRequest /\ Tail(queue) \in Seq(ResourceRequest)
        /\ Key(r) \in Keys
    BY TypeParts, HeadType
  <1>2. QueueShape(Tail(queue), PopHead(r)) /\ Key(r) \in queuedAttempts
    BY QueueParts, TailShape DEF TypeOK
  <1>3. Expected(Key(r), status, attempt)
    BY <1>2, QueueParts DEF Scheduled
  <1>4. r.task \in Tasks /\ Key(r) = <<r.task, r.attempt>>
    BY <1>1 DEF ResourceRequest, Key
  <1> HIDE DEF r
  <1>5. \A k \in PopHead(r) : k[1] # r.task
    <2> SUFFICES ASSUME NEW k \in queuedAttempts, k # Key(r), k[1] = r.task
                 PROVE  FALSE
      BY DEF PopHead
    <2>1. Expected(k, status, attempt) /\ k = <<k[1], k[2]>>
      BY QueueParts DEF Scheduled, TypeOK, Keys
    <2> QED BY <1>3, <1>4, <2>1 DEF Expected
  <1>6. \/ /\ QueuedAttemptKind(r) = "Initial"
           /\ status[r.task] = "Ready" /\ r.attempt = attempt[r.task]
        \/ /\ QueuedAttemptKind(r) = "Retry"
           /\ status[r.task] = "RetryWait" /\ r.attempt = attempt[r.task] + 1
    BY <1>3, <1>4 DEF Expected, QueuedAttemptKind
  <1> QED BY <1>1, <1>2, <1>4, <1>5, <1>6 DEF PopHead, r, TypeOK

\* The drain puts the head of the queue through admission.
LEMMA DrainAdmission ==
    ASSUME TypeOK, QueueConsistent, DrainAdmit
    PROVE  LET r == Head(queue)
           IN  AdmissionStep(Tail(queue), PopHead(r), status, r, call.now,
                             QueuedAttemptKind(r))
  <1>1. queue # <<>> /\ status \in [Tasks -> TaskStatus \cup {"Absent"}]
    BY DEF DrainAdmit, Draining, TypeOK
  <1> QED BY <1>1, HeadExpected DEF DrainAdmit, AdmissionStep

-----------------------------------------------------------------------------
(* The ledger, the leases, the lanes, the counters and the queue.          *)

CoreInv ==
    /\ LeaseIdsFresh
    /\ RunningIffLeased
    /\ QueueConsistent
    /\ LaneAccounting
    /\ UsedWithinCapacity

\* admit_existing keeps the ledger, the leases, the lanes and the queue.
LEMMA AdmissionCore ==
    ASSUME TypeOK, CoreInv, NEW q, NEW idx, NEW st, NEW r, NEW now, NEW kind,
           AdmissionStep(q, idx, st, r, now, kind)
    PROVE  CoreInv'
  <1>1. Scheduled
    BY QueueParts DEF CoreInv
  <1>2. LeaseIdsFresh' /\ RunningIffLeased' /\ Scheduled'
    BY <1>1, AdmissionLeases DEF CoreInv
  <1>3. LaneAccounting' /\ UsedWithinCapacity'
    BY AdmissionLanes DEF CoreInv
  <1>4. QueueShape(queue, queuedAttempts)'
    BY AdmissionCases DEF QueueShape, KeysOf, Distinct
  <1>5. QueueConsistent' <=> QueueShape(queue, queuedAttempts)' /\ Scheduled'
    BY QueueParts, PTL
  <1> QED BY <1>2, <1>3, <1>4, <1>5 DEF CoreInv

\* A step that leaves all of it alone.
LEMMA CoreFrame ==
    ASSUME CoreInv, UNCHANGED <<status, attempt, queue, queuedAttempts, active,
                                nextLeaseId, laneActive, used, capacity>>
    PROVE  CoreInv'
  <1>1. LeaseIdsFresh' /\ RunningIffLeased'
    BY DEF CoreInv, LeaseIdsFresh, RunningIffLeased
  <1>2. LaneAccounting' /\ UsedWithinCapacity'
    BY DEF CoreInv, LaneAccounting, UsedWithinCapacity
  <1>3. QueueConsistent'
    BY DEF CoreInv, QueueConsistent, QueuedKeys, QueuedAttemptKind
  <1> QED BY <1>1, <1>2, <1>3 DEF CoreInv

\* A queue entry goes, and its task with it, while the leases stay.
QueueEntryEnds(k) ==
    /\ k \in queuedAttempts
    /\ queuedAttempts' = queuedAttempts \ {k}
    /\ QueueShape(queue', queuedAttempts')
    /\ status[k[1]] \in {"Ready", "RetryWait"}
    /\ status'[k[1]] # "Running"
    /\ \A j \in queuedAttempts' : j[1] # k[1]
    /\ \A t \in Tasks : t # k[1] => status'[t] = status[t]
    /\ UNCHANGED <<attempt, active, nextLeaseId, laneActive, used, capacity>>

\* So does the end of a queue entry.
LEMMA QueueEntryEndsCore ==
    ASSUME TypeOK, CoreInv, NEW k, QueueEntryEnds(k)
    PROVE  CoreInv'
  <1>0. k[1] \in Tasks
    BY DEF QueueEntryEnds, TypeOK, Keys
  <1>1. LeaseIdsFresh' /\ LaneAccounting' /\ UsedWithinCapacity'
    BY DEF QueueEntryEnds, CoreInv, LeaseIdsFresh, LaneAccounting, UsedWithinCapacity
  <1>2. RunningIffLeased'
    <2>1. \A l \in active : l.task \in Tasks /\ l.task # k[1]
      BY DEF QueueEntryEnds, CoreInv, RunningIffLeased, TypeOK, Lease
    <2> QED BY <1>0, <2>1 DEF QueueEntryEnds, CoreInv, RunningIffLeased
  <1>3. Scheduled'
    <2> SUFFICES ASSUME NEW j \in queuedAttempts, j[1] # k[1]
                 PROVE  Expected(j, status', attempt')
      BY DEF Scheduled, QueueEntryEnds
    <2>1. Expected(j, status, attempt) /\ j[1] \in Tasks
      BY QueueParts DEF CoreInv, Scheduled, TypeOK, Keys
    <2> QED BY <2>1 DEF QueueEntryEnds, Expected
  <1>4. QueueShape(queue, queuedAttempts)'
    BY DEF QueueEntryEnds, QueueShape, KeysOf, Distinct
  <1>5. QueueConsistent' <=> QueueShape(queue, queuedAttempts)' /\ Scheduled'
    BY QueueParts, PTL
  <1> QED BY <1>1, <1>2, <1>3, <1>4, <1>5 DEF CoreInv

\* The drain drops a dead head: a retry past its hard deadline.
LEMMA DropEnds ==
    ASSUME TypeOK, CoreInv, DrainDrop
    PROVE  QueueEntryEnds(Key(Head(queue)))
  <1> DEFINE r == Head(queue)
  <1>1. /\ Refused(Tail(queue), PopHead(r)) /\ queue # <<>> /\ HeadIsDead(r)
        /\ IF QueuedAttemptKind(r) = "Retry"
           THEN status' = [status EXCEPT ![r.task] = "TimedOut"]
           ELSE status' = status
        /\ attempt' = attempt
    BY DEF DrainDrop, Draining
  <1>2. /\ r.task \in Tasks /\ Key(r) \in queuedAttempts
        /\ QueueShape(Tail(queue), PopHead(r))
        /\ \A k \in PopHead(r) : k[1] # r.task
        /\ \/ QueuedAttemptKind(r) = "Initial"
           \/ QueuedAttemptKind(r) = "Retry" /\ status[r.task] = "RetryWait"
    <2>1. queue # <<>> /\ QueueConsistent
      BY <1>1 DEF CoreInv
    <2> QED BY <2>1, HeadExpected
  <1> HIDE DEF r
  <1>3. QueuedAttemptKind(r) = "Retry" /\ status[r.task] = "RetryWait"
    BY <1>1, <1>2 DEF HeadIsDead
  <1>4. Key(r)[1] = r.task
    BY DEF Key
  <1>5. /\ status'[r.task] = "TimedOut"
        /\ \A t \in Tasks : t # r.task => status'[t] = status[t]
    BY <1>1, <1>2, <1>3 DEF TypeOK
  <1>6. QueueEntryEnds(Key(r))
    BY <1>1, <1>2, <1>3, <1>4, <1>5 DEF QueueEntryEnds, Refused, PopHead
  <1> QED BY <1>6 DEF r

\* cancel_queued takes an entry out.
LEMMA CancelEnds ==
    ASSUME TypeOK, CoreInv, NEW k \in Keys, CancelQueued(k)
    PROVE  QueueEntryEnds(k)
  <1>0. QueueShape(queue, queuedAttempts) /\ Scheduled /\ queue \in Seq(ResourceRequest)
    BY QueueParts DEF CoreInv, TypeOK
  <1>1. PICK i \in 1 .. Len(queue) : Key(queue[i]) = k /\ queue' = RemoveAt(queue, i)
    BY DEF CancelQueued, RemoveQueued
  <1>2. k \in queuedAttempts
    BY <1>0, <1>1 DEF QueueShape, KeysOf
  <1>3. QueueShape(queue', queuedAttempts \ {k})
    <2> DEFINE c == RemoveAt(queue, i)
    <2>1. /\ Len(c) = Len(queue) - 1
          /\ \A j \in 1 .. Len(queue) - 1 :
                c[j] = IF j < i THEN queue[j] ELSE queue[j + 1]
      BY <1>0, RemoveAtProperties
    <2> HIDE DEF c
    <2>2. QueueShape(c, queuedAttempts \ {Key(queue[i])})
      BY <1>0, <2>1, RemoveShape
    <2> QED BY <1>1, <2>2 DEF c
  <1>4. Expected(k, status, attempt)
    BY <1>0, <1>2 DEF Scheduled
  <1>5. \A j \in queuedAttempts : j # k => j[1] # k[1]
    <2> SUFFICES ASSUME NEW j \in queuedAttempts, j[1] = k[1] PROVE j = k
      OBVIOUS
    <2>1. Expected(j, status, attempt) /\ j = <<j[1], j[2]>> /\ k = <<k[1], k[2]>>
      BY <1>0 DEF Scheduled, TypeOK, Keys
    <2> QED BY <1>4, <2>1 DEF Expected
  <1>6. /\ k[1] \in Tasks /\ status' = [status EXCEPT ![k[1]] = "Cancelled"]
        /\ attempt' = attempt /\ queuedAttempts' = queuedAttempts \ {k}
        /\ UNCHANGED <<active, nextLeaseId, laneActive, used, capacity>>
    BY DEF CancelQueued, RemoveQueued, Keys
  <1>7. /\ status'[k[1]] = "Cancelled"
        /\ \A t \in Tasks : t # k[1] => status'[t] = status[t]
    BY <1>6 DEF TypeOK
  <1> QED BY <1>2, <1>3, <1>4, <1>5, <1>6, <1>7 DEF QueueEntryEnds, Expected

Quiet ==
    \/ \E t \in Tasks, shape \in Shapes : RetryQueued(t, shape)
    \/ \E k \in Keys : PollRetained(k)
    \/ \E k \in Keys, now \in CallerNow : PollStart(k, now)
    \/ DrainBlocked \/ PollReturn
    \/ \E now \in CallerNow : ReapStart(now)
    \/ ReapReturn \/ Tick \/ UNCHANGED vars

\* The calls that only hand over results or take the mutex leave the ledger
\* and the controller alone.
LEMMA QuietSteps == Quiet => UNCHANGED <<ledgerVars, admissionVars>>
  <1>1. CASE DrainBlocked
    BY <1>1, Zenon DEF DrainBlocked
  <1> QED
    BY <1>1 DEF Quiet, vars, RetryQueued, PollRetained, PollStart, PollReturn,
                ReapStart, ReapReturn, Tick

\* Every step keeps all of it.
LEMMA CoreStep ==
    ASSUME TypeOK, TypeOK', CoreInv, [Next]_vars
    PROVE  CoreInv'
  <1>1. ASSUME NEW t \in Tasks, NEW shape \in Shapes, NEW now \in CallerNow,
               NEW hard \in HardDeadlines, Submit(t, shape, hard, now)
        PROVE  CoreInv'
    BY <1>1, SubmitAdmission, AdmissionCore DEF CoreInv
  <1>2. ASSUME NEW t \in Tasks, NEW shape \in Shapes, NEW now \in CallerNow,
               RetryFresh(t, shape, now)
        PROVE  CoreInv'
    <2>1. CASE AdmissionStep(queue, queuedAttempts, status,
                             RetryRequest(t, shape), now, "Retry")
      BY <2>1, AdmissionCore
    <2>2. CASE UNCHANGED <<ledgerVars, admissionVars>>
      BY <2>2, CoreFrame DEF ledgerVars, admissionVars
    <2> QED BY <1>2, <2>1, <2>2, RetryAdmission DEF CoreInv
  <1>3. ASSUME NEW tok, NEW outcome \in Outcomes, Finish(tok, outcome)
        PROVE  CoreInv'
    BY <1>3, FinishLeases DEF Finish, CoreInv
  <1>4. ASSUME NEW tok, ReapOne(tok)
        PROVE  CoreInv'
    <2>1. FinishAt(tok, "TimedOut", call.now) /\ "TimedOut" \in Outcomes
      BY <1>4, Zenon DEF ReapOne, Outcomes
    <2> QED BY <2>1, FinishLeases DEF CoreInv
  <1>5. CASE DrainDrop
    BY <1>5, DropEnds, QueueEntryEndsCore
  <1>6. CASE DrainAdmit
    BY <1>6, DrainAdmission, AdmissionCore DEF CoreInv
  <1>7. ASSUME NEW k \in Keys, CancelQueued(k)
        PROVE  CoreInv'
    BY <1>7, CancelEnds, QueueEntryEndsCore
  <1>8. CASE ObserveResourceSample
    <2>1. UNCHANGED <<status, attempt, queue, queuedAttempts, active,
                      nextLeaseId, laneActive>>
          /\ used' = used /\ capacity' \in used .. MaxCapacity
      BY <1>8 DEF ObserveResourceSample, CapacityFeedback, ledgerVars
    <2>2. LeaseIdsFresh' /\ RunningIffLeased' /\ LaneAccounting'
      BY <2>1 DEF CoreInv, LeaseIdsFresh, RunningIffLeased, LaneAccounting
    <2>3. QueueConsistent'
      BY <2>1 DEF CoreInv, QueueConsistent, QueuedKeys, QueuedAttemptKind
    <2>4. UsedWithinCapacity'
      BY <2>1, AdmissionAssumption DEF UsedWithinCapacity, TypeOK
    <2> QED BY <2>2, <2>3, <2>4 DEF CoreInv
  <1>9. ASSUME UNCHANGED <<ledgerVars, admissionVars>>
        PROVE  CoreInv'
    BY <1>9, CoreFrame DEF ledgerVars, admissionVars
  <1> QED
    BY <1>1, <1>2, <1>3, <1>4, <1>5, <1>6, <1>7, <1>8, <1>9, QuietSteps
       DEF Next, Quiet

-----------------------------------------------------------------------------
(* The results kept for callers, and the call that holds the mutex.        *)

RetainedInv ==
    /\ CallConsistent
    /\ AbsentIsFresh
    /\ PendingMatchesQueue
    /\ NoLeaseLost

KeyOf(l) == <<l.task, l.attempt>>

\* An iteration of the drain has settled attempt k with this result.
Settles(k, result, left) ==
    /\ call.op = "poll"
    /\ k \in queuedAttempts
    /\ result \in RuntimeAdmission
    /\ Deliver(k, result, left)
    /\ \A j \in Keys : j # k => (j \in queuedAttempts' <=> j \in queuedAttempts)
    /\ result = Queued => k \in queuedAttempts'
    /\ result.kind \in {"Rejected", "Admitted"} => k \notin queuedAttempts'
    /\ \A t \in Tasks : status'[t] = "Absent" => status[t] = "Absent"
    /\ status'[k[1]] # "Absent"
    /\ \A l \in active' : \/ l \in active /\ KeyOf(l) # k
                          \/ KeyOf(l) = k /\ result = Admitted(TokenOf(l))
    /\ UNCHANGED <<delivered, clock>>

\* A result is never confused with the absence of one.
LEMMA ResultsDiffer ==
    /\ \A tok : Admitted(tok) # None /\ Admitted(tok).kind = "Admitted"
    /\ None \notin RuntimeAdmission
    /\ None.kind = "None" /\ Queued.kind = "Queued" /\ Rejected.kind = "Rejected"
  BY DEF Admitted, None, RuntimeAdmission, Queued, Rejected

\* A drain iteration keeps what callers are owed.
LEMMA SettlesRetained ==
    ASSUME TypeOK, RetainedInv, NEW k, NEW result, NEW left,
           Settles(k, result, left)
    PROVE  RetainedInv'
  <1>1. /\ k \in Keys /\ k[1] \in Tasks /\ pending \in [Keys -> RuntimeAdmission \cup {None}]
        /\ call \in Calls /\ result # None
        /\ \A j \in Keys : j[1] \in Tasks
        /\ \A l \in active : KeyOf(l) \in Keys
    BY ResultsDiffer DEF Settles, TypeOK, Keys, KeyOf, Lease
  <1>2. CASE k = call.key /\ call.target = None
    <2>1. /\ call'.op = call.op /\ call'.key = call.key /\ call'.now = call.now
          /\ call'.target = result /\ pending' = pending
      BY <1>1, <1>2 DEF Settles, Deliver, Calls
    <2>2. pending[k] = None
      BY <1>2 DEF Settles, RetainedInv, CallConsistent
    <2>3. CallConsistent'
      BY <1>1, <2>1 DEF Settles, RetainedInv, CallConsistent
    <2>4. AbsentIsFresh'
      BY <1>1, <2>1 DEF Settles, RetainedInv, AbsentIsFresh
    <2>5. PendingMatchesQueue'
      BY <2>1, <2>2, ResultsDiffer DEF Settles, RetainedInv, PendingMatchesQueue
    <2>6. NoLeaseLost'
      <3> SUFFICES ASSUME NEW l \in active'
                   PROVE  \/ TokenOf(l) \in delivered'
                          \/ pending'[KeyOf(l)] = Admitted(TokenOf(l))
                          \/ /\ call'.key = KeyOf(l)
                             /\ call'.target = Admitted(TokenOf(l))
        BY DEF NoLeaseLost, KeyOf
      <3>1. CASE l \in active /\ KeyOf(l) # k
        BY <1>2, <2>1, <3>1 DEF Settles, RetainedInv, NoLeaseLost, KeyOf
      <3>2. CASE KeyOf(l) = k /\ result = Admitted(TokenOf(l))
        BY <1>2, <2>1, <3>2
      <3> QED BY <3>1, <3>2 DEF Settles
    <2> QED BY <2>3, <2>4, <2>5, <2>6 DEF RetainedInv
  <1>3. CASE ~(k = call.key /\ call.target = None)
    <2>1. /\ call'.op = call.op /\ call'.key = call.key /\ call'.now = call.now
          /\ call'.target = call.target
          /\ pending' = [pending EXCEPT ![k] = result]
      BY <1>1, <1>3 DEF Settles, Deliver, Calls
    <2>2. pending'[k] = result /\ \A j \in Keys : j # k => pending'[j] = pending[j]
      BY <1>1, <2>1
    <2>3. CallConsistent'
      BY <1>1, <1>3, <2>1, <2>2 DEF Settles, RetainedInv, CallConsistent
    <2>4. AbsentIsFresh'
      BY <1>1, <2>2 DEF Settles, RetainedInv, AbsentIsFresh
    <2>5. PendingMatchesQueue'
      BY <2>2, ResultsDiffer DEF Settles, RetainedInv, PendingMatchesQueue
    <2>6. NoLeaseLost'
      <3> SUFFICES ASSUME NEW l \in active'
                   PROVE  \/ TokenOf(l) \in delivered'
                          \/ pending'[KeyOf(l)] = Admitted(TokenOf(l))
                          \/ /\ call'.key = KeyOf(l)
                             /\ call'.target = Admitted(TokenOf(l))
        BY DEF NoLeaseLost, KeyOf
      <3>1. CASE l \in active /\ KeyOf(l) # k
        BY <1>1, <2>1, <2>2, <3>1 DEF Settles, RetainedInv, NoLeaseLost, KeyOf
      <3>2. CASE KeyOf(l) = k /\ result = Admitted(TokenOf(l))
        BY <2>2, <3>2
      <3> QED BY <3>1, <3>2 DEF Settles
    <2> QED BY <2>3, <2>4, <2>5, <2>6 DEF RetainedInv
  <1> QED BY <1>2, <1>3

\* A call outside the drain leaves pending as it is except, perhaps, for a
\* notification that it forgets; a lease it adds goes to the caller.
Forgets(K) ==
    /\ call.op # "poll" /\ call'.op # "poll" /\ call'.target = None
    /\ call'.now <= clock'
    /\ K \subseteq Keys
    /\ \A j \in Keys : pending'[j] = IF j \in K THEN None ELSE pending[j]
    /\ \A j \in Keys : j \notin K /\ pending[j] # None
                          => (j \in queuedAttempts' <=> j \in queuedAttempts)
    /\ \A t \in Tasks : status'[t] = "Absent" => status[t] = "Absent"
    /\ \A l \in active' : \/ l \in active /\ KeyOf(l) \notin K
                          \/ TokenOf(l) \in delivered'
    /\ delivered \subseteq delivered'

\* So does a call outside the drain.
LEMMA ForgetsRetained ==
    ASSUME TypeOK, RetainedInv, NEW K, Forgets(K)
    PROVE  RetainedInv'
  <1>1. \A l \in active : KeyOf(l) \in Keys
    BY DEF TypeOK, Keys, KeyOf, Lease
  <1>2. CallConsistent'
    BY DEF Forgets, CallConsistent
  <1>3. AbsentIsFresh'
    BY DEF Forgets, RetainedInv, AbsentIsFresh, Keys
  <1>4. PendingMatchesQueue'
    BY ResultsDiffer DEF Forgets, RetainedInv, PendingMatchesQueue
  <1>5. NoLeaseLost'
    <2> SUFFICES ASSUME NEW l \in active, KeyOf(l) \notin K
                 PROVE  \/ TokenOf(l) \in delivered'
                        \/ pending'[KeyOf(l)] = Admitted(TokenOf(l))
      BY DEF NoLeaseLost, KeyOf, Forgets
    <2>1. call.target = None
      BY DEF Forgets, RetainedInv, CallConsistent
    <2> QED BY <1>1, <2>1, ResultsDiffer DEF Forgets, RetainedInv, NoLeaseLost, KeyOf
  <1> QED BY <1>2, <1>3, <1>4, <1>5 DEF RetainedInv

\* Calls that begin and end with the mutex free.
LEMMA FreeCall ==
    ASSUME TypeOK, RetainedInv, Free, call' = call, clock' >= clock, clock' \in Nat
    PROVE  /\ call.op # "poll" /\ call'.op # "poll" /\ call'.target = None
           /\ call'.now <= clock'
  BY DEF TypeOK, Calls, Free, RetainedInv, CallConsistent

\* submit hands a lease it is granted to its caller.
LEMMA SubmitRetained ==
    ASSUME TypeOK, CoreInv, RetainedInv, NEW t \in Tasks, NEW shape \in Shapes,
           NEW hard \in HardDeadlines, NEW now, Submit(t, shape, hard, now)
    PROVE  RetainedInv'
  <1> DEFINE r == SubmitRequest(t, shape, hard)
             st == [status EXCEPT ![t] = "Ready"]
             v == Verdict(queue, queuedAttempts, r, now, "Initial")
  <1>1. /\ Free /\ status[t] = "Absent"
        /\ delivered' = delivered \cup TokensIn(Result(r, v))
        /\ UNCHANGED <<pending, call, clock>>
    BY DEF Submit, SubmitRequest
  <1>2. AdmissionStep(queue, queuedAttempts, st, r, now, "Initial")
    BY SubmitAdmission DEF CoreInv
  <1>3. r.task = t /\ Key(r) = <<t, attempt[t]>> /\ st[t] = "Ready"
        /\ \A u \in Tasks : u # t => st[u] = status[u]
    BY DEF SubmitRequest, Request, Key, TypeOK
  <1> HIDE DEF r, st, v
  <1>4. /\ \/ v = "Admitted" /\ AdmissionGrants(queuedAttempts, r)
           \/ v = "Queued" /\ AdmissionWaits(queuedAttempts, st, r)
           \/ v = "Rejected" /\ AdmissionFails(queuedAttempts, st)
        /\ \A u \in Tasks : u # t => status'[u] = status[u]
    BY <1>2, <1>3, AdmissionCases DEF v
  <1>5. status'[t] # "Absent"
    BY <1>3, <1>4 DEF AdmissionGrants, AdmissionWaits, AdmissionFails
  <1>6. \A l \in active' : l \in active \/ TokenOf(l) \in delivered'
    <2>1. CASE v = "Admitted"
      <3>1. TokensIn(Result(r, v)) = {TokenOf(NewLease(r))}
        BY <2>1 DEF Result, TokensIn, Admitted
      <3> QED BY <1>1, <1>4, <2>1, <3>1 DEF AdmissionGrants
    <2>2. CASE v # "Admitted"
      BY <1>4, <2>2 DEF AdmissionWaits, AdmissionFails
    <2> QED BY <2>1, <2>2
  <1>7. \A j \in Keys : pending[j] # None
                           => (j \in queuedAttempts' <=> j \in queuedAttempts)
    <2>1. \A j \in Keys : pending[j] # None => j # Key(r)
      BY <1>1, <1>3 DEF RetainedInv, AbsentIsFresh
    <2> QED BY <1>4, <2>1 DEF AdmissionGrants, AdmissionWaits, AdmissionFails
  <1>8. clock' >= clock /\ clock' \in Nat
    BY <1>1 DEF TypeOK
  <1>9. Forgets({})
    BY <1>1, <1>4, <1>5, <1>6, <1>7, <1>8, FreeCall DEF Forgets
  <1> QED BY <1>9, ForgetsRetained

\* So does retry, which forgets what was kept for an earlier request.
LEMMA RetryRetained ==
    ASSUME TypeOK, CoreInv, RetainedInv, NEW t \in Tasks, NEW shape \in Shapes,
           NEW now, RetryFresh(t, shape, now)
    PROVE  RetainedInv'
  <1> DEFINE r == RetryRequest(t, shape)
             v == Verdict(queue, queuedAttempts, r, now, "Retry")
  <1>1. /\ Free /\ status[t] = "RetryWait"
        /\ pending' = [pending EXCEPT ![Key(r)] = None]
        /\ delivered' = delivered \cup TokensIn(Result(r, v))
        /\ UNCHANGED <<call, clock>>
    BY DEF RetryFresh
  <1>2. r.task = t /\ Key(r) = <<t, attempt[t] + 1>>
    BY DEF RetryRequest, Request, Key
  <1>3. clock' >= clock /\ clock' \in Nat
    BY <1>1 DEF TypeOK
  <1>4. \A l \in active : l.task # t
    BY <1>1 DEF CoreInv, RunningIffLeased
  <1>5. pending \in [Keys -> RuntimeAdmission \cup {None}]
    BY DEF TypeOK
  <1> HIDE DEF r, v
  <1>6. CASE AdmissionStep(queue, queuedAttempts, status, r, now, "Retry")
    <2>1. /\ \/ v = "Admitted" /\ AdmissionGrants(queuedAttempts, r)
             \/ v = "Queued" /\ AdmissionWaits(queuedAttempts, status, r)
             \/ v = "Rejected" /\ AdmissionFails(queuedAttempts, status)
          /\ \A u \in Tasks : u # t => status'[u] = status[u]
      BY <1>2, <1>6, AdmissionCases DEF v
    <2>2. Key(r) \in Keys
      BY <1>6 DEF AdmissionStep, ResourceRequest, Key, Keys
    <2>3. status'[t] # "Absent"
      BY <1>1, <1>2, <2>1 DEF AdmissionGrants, AdmissionWaits, AdmissionFails
    <2>4. \A l \in active' : \/ l \in active /\ KeyOf(l) # Key(r)
                             \/ TokenOf(l) \in delivered'
      <3>1. CASE v = "Admitted"
        <4>1. TokensIn(Result(r, v)) = {TokenOf(NewLease(r))}
          BY <3>1 DEF Result, TokensIn, Admitted
        <4> QED BY <1>1, <1>2, <1>4, <2>1, <3>1, <4>1 DEF AdmissionGrants, KeyOf
      <3>2. CASE v # "Admitted"
        BY <1>2, <1>4, <2>1, <3>2 DEF AdmissionWaits, AdmissionFails, KeyOf
      <3> QED BY <3>1, <3>2
    <2>5. \A j \in Keys : j # Key(r) => (j \in queuedAttempts' <=> j \in queuedAttempts)
      BY <2>1 DEF AdmissionGrants, AdmissionWaits, AdmissionFails
    <2>6. \A j \in Keys : pending'[j] = IF j \in {Key(r)} THEN None ELSE pending[j]
      BY <1>1, <1>5
    <2>7. Forgets({Key(r)})
      BY <1>1, <1>3, <2>1, <2>2, <2>3, <2>4, <2>5, <2>6, FreeCall DEF Forgets
    <2> QED BY <2>7, ForgetsRetained
  <1>7. CASE UNCHANGED <<ledgerVars, admissionVars, delivered>> /\ Key(r) \notin Keys
    <2>1. \A j \in Keys : pending'[j] = pending[j]
      BY <1>1, <1>5, <1>7
    <2>2. UNCHANGED <<status, active, queuedAttempts, delivered>>
      BY <1>7 DEF ledgerVars, admissionVars
    <2>3. Forgets({})
      BY <1>1, <1>3, <2>1, <2>2, FreeCall DEF Forgets
    <2> QED BY <2>3, ForgetsRetained
  <1> QED BY <1>6, <1>7, RetryAdmission DEF CoreInv, r

\* The drain gives a dead head its refusal.
LEMMA DropRetained ==
    ASSUME TypeOK, CoreInv, RetainedInv, DrainDrop
    PROVE  RetainedInv'
  <1> DEFINE k == Key(Head(queue))
  <1>1. /\ call.op = "poll" /\ Deliver(k, Rejected, call.left - 1)
        /\ UNCHANGED <<delivered, clock>>
    BY DEF DrainDrop, Draining, callerVars
  <1>2. QueueEntryEnds(k)
    BY DropEnds
  <1>3. status'[k[1]] # "Absent"
    <2>1. Head(queue).task \in Tasks /\ k[1] = Head(queue).task
          /\ status[k[1]] \in {"Ready", "RetryWait"}
      BY <1>2, HeadExpected DEF DrainDrop, Draining, CoreInv, Key, QueueEntryEnds
    <2> QED BY <2>1 DEF DrainDrop, TypeOK
  <1> HIDE DEF k
  <1>4. \A l \in active' : l \in active /\ KeyOf(l) # k
    BY <1>2 DEF QueueEntryEnds, CoreInv, RunningIffLeased, KeyOf
  <1>5. Settles(k, Rejected, call.left - 1)
    BY <1>1, <1>2, <1>3, <1>4, ResultsDiffer
       DEF Settles, QueueEntryEnds, RuntimeAdmission
  <1> QED BY <1>5, SettlesRetained

\* The drain keeps the verdict on a head for its owner.
LEMMA DrainRetained ==
    ASSUME TypeOK, CoreInv, RetainedInv, DrainAdmit
    PROVE  RetainedInv'
  <1> DEFINE r == Head(queue)
             idx == PopHead(r)
             v == Verdict(Tail(queue), idx, r, call.now, QueuedAttemptKind(r))
             left == IF v = "Queued" THEN 0 ELSE call.left - 1
  <1>1. /\ call.op = "poll" /\ queue # <<>> /\ Deliver(Key(r), Result(r, v), left)
        /\ UNCHANGED <<delivered, clock>>
    BY DEF DrainAdmit, Draining, callerVars
  <1>2. AdmissionStep(Tail(queue), idx, status, r, call.now, QueuedAttemptKind(r))
    BY DrainAdmission DEF CoreInv
  <1>3. /\ r \in ResourceRequest /\ r.task \in Tasks /\ Key(r) \in queuedAttempts
        /\ idx = queuedAttempts \ {Key(r)} /\ status[r.task] \in {"Ready", "RetryWait"}
    BY <1>1, HeadExpected DEF CoreInv, PopHead
  <1>4. /\ \/ v = "Admitted" /\ AdmissionGrants(idx, r)
           \/ v = "Queued" /\ AdmissionWaits(idx, status, r)
           \/ v = "Rejected" /\ AdmissionFails(idx, status)
        /\ \A u \in Tasks : u # r.task => status'[u] = status[u]
    BY <1>2, AdmissionCases
  <1> HIDE DEF r, idx, v, left
  <1>5. Key(r)[1] = r.task /\ Key(r) = <<r.task, r.attempt>>
    BY DEF Key
  <1>6. Result(r, v) \in RuntimeAdmission
    BY <1>3, ResultType, TypeParts
  <1>7. /\ status'[r.task] # "Absent"
        /\ \A j \in Keys : j # Key(r) => (j \in queuedAttempts' <=> j \in queuedAttempts)
    BY <1>3, <1>4 DEF AdmissionGrants, AdmissionWaits, AdmissionFails
  <1>8. /\ Result(r, v) = Queued => Key(r) \in queuedAttempts'
        /\ Result(r, v).kind \in {"Rejected", "Admitted"} => Key(r) \notin queuedAttempts'
    BY <1>3, <1>4, ResultsDiffer
       DEF Result, AdmissionGrants, AdmissionWaits, AdmissionFails
  <1>9. \A l \in active' :
            \/ l \in active /\ KeyOf(l) # Key(r)
            \/ KeyOf(l) = Key(r) /\ Result(r, v) = Admitted(TokenOf(l))
    <2>1. \A l \in active : KeyOf(l) # Key(r)
      BY <1>3, <1>5 DEF CoreInv, RunningIffLeased, KeyOf
    <2>2. CASE v = "Admitted"
      <3>1. KeyOf(NewLease(r)) = Key(r)
            /\ Result(r, v) = Admitted(TokenOf(NewLease(r)))
        BY <2>2 DEF Result, NewLease, KeyOf, Key
      <3> QED BY <1>4, <2>1, <2>2, <3>1 DEF AdmissionGrants
    <2>3. CASE v # "Admitted"
      BY <1>4, <2>1, <2>3 DEF AdmissionWaits, AdmissionFails
    <2> QED BY <2>2, <2>3
  <1>10. Settles(Key(r), Result(r, v), left)
    BY <1>1, <1>3, <1>4, <1>5, <1>6, <1>7, <1>8, <1>9 DEF Settles
  <1> QED BY <1>10, SettlesRetained

\* finish_at takes leases away and nothing else that matters here.
LEMMA FinishRetained ==
    ASSUME TypeOK, CoreInv, RetainedInv, NEW tok, NEW outcome \in Outcomes,
           NEW now, FinishAt(tok, outcome, now), call.op # "poll",
           call'.op # "poll", call'.target = None, call'.now <= clock',
           UNCHANGED <<pending, delivered>>
    PROVE  RetainedInv'
  <1>1. PICK l \in active : FinishStep(l, outcome, now)
    BY FinishCases DEF CoreInv
  <1>2. l.task \in Tasks
    BY DEF TypeOK, Lease
  <1>3. \A t \in Tasks : status'[t] = "Absent" => status[t] = "Absent"
    BY <1>1, <1>2 DEF FinishStep, Outcomes, TypeOK
  <1>4. Forgets({})
    BY <1>1, <1>3 DEF Forgets, FinishStep
  <1> QED BY <1>4, ForgetsRetained

\* Every step keeps what it should for the callers.
LEMMA RetainedStep ==
    ASSUME TypeOK, TypeOK', CoreInv, RetainedInv, [Next]_vars
    PROVE  RetainedInv'
  <1>0. /\ pending \in [Keys -> RuntimeAdmission \cup {None}] /\ clock \in Nat
        /\ call \in Calls
        /\ \A l \in active : KeyOf(l) \in Keys
    BY DEF TypeOK, KeyOf, Keys, Lease
  <1>1. ASSUME NEW t \in Tasks, NEW shape \in Shapes, NEW now \in CallerNow,
               NEW hard \in HardDeadlines, Submit(t, shape, hard, now)
        PROVE  RetainedInv'
    BY <1>1, SubmitRetained
  <1>2. ASSUME NEW t \in Tasks, NEW shape \in Shapes, NEW now \in CallerNow,
               RetryFresh(t, shape, now)
        PROVE  RetainedInv'
    BY <1>2, RetryRetained
  <1>3. ASSUME NEW t \in Tasks, NEW shape \in Shapes, RetryQueued(t, shape)
        PROVE  RetainedInv'
    <2> DEFINE k == Key(RetryRequest(t, shape))
    <2>1. /\ Free /\ status[t] = "RetryWait" /\ k \in queuedAttempts
          /\ pending' = [pending EXCEPT ![k] = None]
          /\ UNCHANGED <<status, queuedAttempts, active, call, delivered, clock>>
      BY <1>3 DEF RetryQueued, ledgerVars, admissionVars, callerVars
    <2>2. k \in Keys /\ k[1] = t
      BY <2>1 DEF TypeOK, RetryRequest, Request, Key
    <2> HIDE DEF k
    <2>3. \A l \in active : KeyOf(l) # k
      BY <2>1, <2>2 DEF CoreInv, RunningIffLeased, KeyOf
    <2>4. \A j \in Keys : pending'[j] = IF j \in {k} THEN None ELSE pending[j]
      BY <1>0, <2>1
    <2>5. clock' >= clock /\ clock' \in Nat
      BY <1>0, <2>1
    <2>6. Forgets({k})
      BY <2>1, <2>2, <2>3, <2>4, <2>5, FreeCall DEF Forgets
    <2> QED BY <2>6, ForgetsRetained
  <1>4. ASSUME NEW tok, NEW outcome \in Outcomes, Finish(tok, outcome)
        PROVE  RetainedInv'
    <2>1. FinishAt(tok, outcome, clock) /\ Free
          /\ UNCHANGED <<pending, call, delivered, clock>>
      BY <1>4 DEF Finish, callerVars
    <2>2. clock' >= clock /\ clock' \in Nat
      BY <1>0, <2>1
    <2> QED BY <2>1, <2>2, FreeCall, FinishRetained
  <1>5. ASSUME NEW tok, ReapOne(tok)
        PROVE  RetainedInv'
    <2>1. /\ FinishAt(tok, "TimedOut", call.now) /\ "TimedOut" \in Outcomes
          /\ call.op = "reap" /\ call' = [call EXCEPT !.tokens = @ \ {tok}]
          /\ UNCHANGED <<pending, delivered, clock>>
      BY <1>5, Zenon DEF ReapOne, Outcomes, callerVars
    <2>2. call'.op = "reap" /\ call'.target = call.target /\ call'.now = call.now
      BY <1>0, <2>1 DEF Calls
    <2> QED BY <2>1, <2>2, FinishRetained DEF RetainedInv, CallConsistent
  <1>6. ASSUME NEW k \in Keys, PollRetained(k)
        PROVE  RetainedInv'
    <2>1. /\ Free
          /\ pending' = [pending EXCEPT ![k] = None]
          /\ delivered' = delivered \cup TokensIn(pending[k])
          /\ UNCHANGED <<status, queuedAttempts, active, call, clock>>
      BY <1>6 DEF PollRetained, ledgerVars, admissionVars
    <2>2. clock' >= clock /\ clock' \in Nat
      BY <1>0, <2>1
    <2>3. \A j \in Keys : pending'[j] = IF j \in {k} THEN None ELSE pending[j]
      BY <1>0, <2>1
    <2>4. ASSUME NEW l \in active, KeyOf(l) = k
          PROVE  TokenOf(l) \in delivered'
      <3>1. call.target = None
        BY <2>1 DEF Free, RetainedInv, CallConsistent
      <3>2. TokenOf(l) \in delivered \/ pending[k] = Admitted(TokenOf(l))
        BY <2>4, <3>1, ResultsDiffer DEF RetainedInv, NoLeaseLost, KeyOf
      <3> QED BY <2>1, <3>2 DEF TokensIn, Admitted
    <2>5. Forgets({k})
      BY <2>1, <2>2, <2>3, <2>4, FreeCall DEF Forgets
    <2> QED BY <2>5, ForgetsRetained
  <1>7. ASSUME NEW k \in Keys, NEW now \in CallerNow, PollStart(k, now)
        PROVE  RetainedInv'
    <2>1. /\ Free /\ pending[k] = None /\ call' = Polling(k, Len(queue), now)
          /\ UNCHANGED <<status, queuedAttempts, active, pending, delivered, clock>>
      BY <1>7 DEF PollStart, ledgerVars, admissionVars, callerVars
    <2>2. /\ call'.op = "poll" /\ call'.key = k /\ call'.target = None
          /\ call'.now = now /\ now <= clock
      BY <2>1 DEF Polling, Idle, CallerNow
    <2>3. call.target = None
      BY <2>1 DEF Free, RetainedInv, CallConsistent
    <2>4. CallConsistent'
      BY <2>1, <2>2 DEF CallConsistent
    <2>5. AbsentIsFresh' /\ PendingMatchesQueue'
      BY <2>1 DEF RetainedInv, AbsentIsFresh, PendingMatchesQueue
    <2>6. NoLeaseLost'
      BY <2>1, <2>3, ResultsDiffer DEF RetainedInv, NoLeaseLost
    <2> QED BY <2>4, <2>5, <2>6 DEF RetainedInv
  <1>8. CASE DrainDrop
    BY <1>8, DropRetained
  <1>9. CASE DrainBlocked
    <2>1. /\ call' = [call EXCEPT !.left = 0]
          /\ UNCHANGED <<ledgerVars, admissionVars, pending, callerVars>>
      BY <1>9, Zenon DEF DrainBlocked
    <2>2. /\ call'.op = call.op /\ call'.key = call.key /\ call'.now = call.now
          /\ call'.target = call.target
      BY <1>0, <2>1 DEF Calls
    <2>3. UNCHANGED <<status, queuedAttempts, active, pending, delivered, clock>>
      BY <2>1, Zenon DEF ledgerVars, admissionVars, callerVars
    <2> QED BY <2>2, <2>3 DEF RetainedInv, CallConsistent, AbsentIsFresh,
                              PendingMatchesQueue, NoLeaseLost
  <1>10. CASE DrainAdmit
    BY <1>10, DrainRetained
  <1>11. CASE PollReturn
    <2>1. /\ call' = Idle
          /\ delivered' = delivered \cup TokensIn(call.target)
          /\ UNCHANGED <<status, queuedAttempts, active, pending, clock>>
      BY <1>11 DEF PollReturn, ledgerVars, admissionVars
    <2>2. CallConsistent'
      BY <1>0, <2>1 DEF CallConsistent, Idle
    <2>3. AbsentIsFresh' /\ PendingMatchesQueue'
      BY <2>1 DEF RetainedInv, AbsentIsFresh, PendingMatchesQueue
    <2>4. NoLeaseLost'
      <3> SUFFICES ASSUME NEW l \in active
                   PROVE  \/ TokenOf(l) \in delivered'
                          \/ pending[KeyOf(l)] = Admitted(TokenOf(l))
        BY <2>1 DEF NoLeaseLost, KeyOf
      <3>1. CASE call.target = Admitted(TokenOf(l))
        BY <2>1, <3>1 DEF TokensIn, Admitted
      <3> QED BY <2>1, <3>1 DEF RetainedInv, NoLeaseLost, KeyOf
    <2> QED BY <2>2, <2>3, <2>4 DEF RetainedInv
  <1>12. ASSUME NEW k \in Keys, CancelQueued(k)
         PROVE  RetainedInv'
    <2>1. /\ Free /\ pending' = [pending EXCEPT ![k] = None]
          /\ status' = [status EXCEPT ![k[1]] = "Cancelled"]
          /\ UNCHANGED <<call, delivered, clock>>
      BY <1>12 DEF CancelQueued, callerVars
    <2>2. QueueEntryEnds(k)
      BY <1>12, CancelEnds
    <2>3. \A l \in active : KeyOf(l) # k
      BY <2>2 DEF QueueEntryEnds, CoreInv, RunningIffLeased, KeyOf
    <2>4. \A j \in Keys : pending'[j] = IF j \in {k} THEN None ELSE pending[j]
      BY <1>0, <2>1
    <2>5. clock' >= clock /\ clock' \in Nat
      BY <1>0, <2>1
    <2>6. \A t \in Tasks : status'[t] = "Absent" => status[t] = "Absent"
      BY <2>1 DEF TypeOK
    <2>7. Forgets({k})
      BY <2>1, <2>2, <2>3, <2>4, <2>5, <2>6, FreeCall DEF Forgets, QueueEntryEnds
    <2> QED BY <2>7, ForgetsRetained
  <1>13. ASSUME NEW now \in CallerNow, ReapStart(now)
         PROVE  RetainedInv'
    <2>1. \E S : call' = Reaping(S, now)
      BY <1>13 DEF ReapStart
    <2>2. /\ Free
          /\ UNCHANGED <<status, queuedAttempts, active, pending, delivered, clock>>
      BY <1>13 DEF ReapStart, ledgerVars, admissionVars, callerVars
    <2>3. /\ call'.op # "poll" /\ call'.target = None /\ call'.now <= clock'
      BY <2>1, <2>2 DEF Reaping, Idle, CallerNow
    <2>4. Forgets({})
      BY <2>2, <2>3 DEF Forgets, Free
    <2> QED BY <2>4, ForgetsRetained
  <1>14. CASE ReapReturn
    <2>1. /\ call.op = "reap" /\ call' = Idle
          /\ UNCHANGED <<status, queuedAttempts, active, pending, delivered, clock>>
      BY <1>14 DEF ReapReturn, ledgerVars, admissionVars, callerVars
    <2>2. /\ call'.op # "poll" /\ call'.target = None /\ call'.now <= clock'
      BY <1>0, <2>1 DEF Idle
    <2>3. Forgets({})
      BY <2>1, <2>2 DEF Forgets
    <2> QED BY <2>3, ForgetsRetained
  <1>15. ASSUME ObserveResourceSample \/ Tick
         PROVE  RetainedInv'
    <2>1. /\ Free /\ clock' >= clock /\ clock' \in Nat
          /\ UNCHANGED <<status, queuedAttempts, active, pending, delivered, call>>
      BY <1>0, <1>15 DEF ObserveResourceSample, CapacityFeedback, Tick, ledgerVars,
                         admissionVars, callerVars
    <2>2. Forgets({})
      BY <2>1, FreeCall DEF Forgets
    <2> QED BY <2>2, ForgetsRetained
  <1>16. CASE UNCHANGED vars
    BY <1>16 DEF vars, ledgerVars, admissionVars, callerVars, RetainedInv,
                 CallConsistent, AbsentIsFresh, PendingMatchesQueue, NoLeaseLost
  <1> QED
    BY <1>1, <1>2, <1>3, <1>4, <1>5, <1>6, <1>7, <1>8, <1>9, <1>10, <1>11,
       <1>12, <1>13, <1>14, <1>15, <1>16 DEF Next

-----------------------------------------------------------------------------
(* The inductive invariant.                                                *)

\* Init establishes it.
LEMMA InitRuntimeInv == Init => RuntimeInv
  <1> SUFFICES ASSUME Init, TypeOK PROVE CoreInv /\ RetainedInv
    BY InitTypeOK DEF RuntimeInv, CoreInv, RetainedInv
  <1>1. active = {} /\ queue = <<>> /\ queuedAttempts = {}
    BY DEF Init
  <1>2. LeaseIdsFresh /\ RunningIffLeased
    BY FS_EmptySet DEF Init, LeaseIdsFresh, RunningIffLeased
  <1>3. QueueConsistent
    BY <1>1, AdmissionAssumption DEF QueueConsistent, QueuedKeys
  <1>4. LaneAccounting
    <2>1. \A lane \in Lanes : {l \in active : l.lane = lane} = {}
      BY <1>1
    <2> QED BY <2>1, FS_EmptySet, AdmissionAssumption DEF Init, LaneAccounting
  <1>5. UsedWithinCapacity
    BY AdmissionAssumption DEF Init, UsedWithinCapacity
  <1>6. CallConsistent /\ AbsentIsFresh
    BY DEF Init, Idle, CallConsistent, AbsentIsFresh
  <1>7. PendingMatchesQueue
    BY ResultsDiffer DEF Init, PendingMatchesQueue
  <1>8. NoLeaseLost
    BY <1>1 DEF NoLeaseLost
  <1> QED BY <1>2, <1>3, <1>4, <1>5, <1>6, <1>7, <1>8 DEF CoreInv, RetainedInv

\* Every step keeps it.
LEMMA RuntimeInvStep == RuntimeInv /\ [Next]_vars => RuntimeInv'
  BY TypeStep, CoreStep, RetainedStep DEF RuntimeInv, CoreInv, RetainedInv

\* So it always holds.
LEMMA RuntimeInvariant == Spec => []RuntimeInv
  BY InitRuntimeInv, RuntimeInvStep, PTL DEF Spec

\* The ledger says Running exactly when a lease is in force, for any number
\* of tasks, retries, stale tokens and reaper runs.
THEOREM RunningMeansLeased == Spec => []RunningIffLeased
  BY RuntimeInvariant, PTL DEF RuntimeInv

\* No exit path of admit_existing or finish_at leaks or over-returns a lane
\* slot: the counter of every lane is the number of its leases.
THEOREM LanesNeverLeak == Spec => []LaneAccounting
  BY RuntimeInvariant, PTL DEF RuntimeInv

\* The ledger, the leases and the lanes' counters agree, whatever admissions,
\* finishes, reaping and queue drains do.
THEOREM LeaseBookkeeping == Spec => []LeasesAreCounted
  BY RunningMeansLeased, LanesNeverLeak, PTL DEF LeasesAreCounted

\* What is in use never exceeds the capacity, whatever the host samples say.
THEOREM NoOvercommit == Spec => []UsedWithinCapacity
  BY RuntimeInvariant, PTL DEF RuntimeInv

\* The queue, its index, its bound and the ledger agree.
THEOREM QueueStaysConsistent == Spec => []QueueConsistent
  BY RuntimeInvariant, PTL DEF RuntimeInv

\* A result kept for its owner never contradicts the queue.
THEOREM RetainedResultsCurrent == Spec => []PendingMatchesQueue
  BY RuntimeInvariant, PTL DEF RuntimeInv

\* A lease granted while another caller polls is never lost to its owner.
THEOREM LeasesReachTheirOwners == Spec => []NoLeaseLost
  BY RuntimeInvariant, PTL DEF RuntimeInv

-----------------------------------------------------------------------------
(* What a step may do to a task: admission moves a waiting one, the end of *)
(* its lease moves a running one, nothing moves any other.                 *)

Starts(t) ==
    /\ status[t] = "RetryWait" /\ status'[t] = "Running"
    /\ attempt'[t] = attempt[t] + 1
    /\ attempt'[t] <= MaxAttempts
    /\ notBefore[t] <= clock

TaskMove(t) ==
    \/ status'[t] = status[t] /\ attempt'[t] = attempt[t]
    \/ /\ status[t] \in {"Absent", "Ready", "RetryWait"}
       /\ attempt'[t] = attempt[t] \/ Starts(t)
    \/ /\ attempt'[t] = attempt[t]
       /\ \E l \in active :
             /\ l.task = t
             /\ status'[t] \in {"Done", "Failed", "RetryWait"} => ~IsExpired(l, clock)

\* Admission starts a retry only when its backoff has elapsed.
LEMMA AdmissionMoves ==
    ASSUME TypeOK, NEW q, NEW idx, NEW st, NEW r, NEW now, NEW kind,
           AdmissionStep(q, idx, st, r, now, kind), now \in Nat, now <= clock
    PROVE  \A t \in Tasks : TaskMove(t)
  <1> DEFINE v == Verdict(q, idx, r, now, kind)
  <1>0. /\ r.task \in Tasks /\ status[r.task] \in {"Absent", "Ready", "RetryWait"}
        /\ \/ kind = "Initial" /\ r.attempt = attempt[r.task]
           \/ /\ kind = "Retry" /\ status[r.task] = "RetryWait"
              /\ r.attempt = attempt[r.task] + 1
    BY DEF AdmissionStep, ResourceRequest
  <1>1. \A t \in Tasks : t # r.task => status'[t] = status[t]
    BY AdmissionCases
  <1>2. CASE v = "Admitted"
    <2>1. AdmissionGrants(idx, r)
      BY <1>2, AdmissionCases
    <2>2. /\ attempt'[r.task] = r.attempt /\ status'[r.task] = "Running"
          /\ \A t \in Tasks : t # r.task => attempt'[t] = attempt[t]
      BY <1>0, <2>1 DEF AdmissionGrants, TypeOK
    <2>3. CASE kind = "Initial"
      BY <1>0, <1>1, <2>2, <2>3 DEF TaskMove
    <2>4. CASE kind = "Retry"
      <3>1. ValidRetryStart(r.task, r.attempt, now)
        BY <1>2, <2>4 DEF Verdict
      <3>2. notBefore[r.task] <= clock
        <4>1. notBefore[r.task] \in Nat
          BY <1>0, NeverIsInstant DEF TypeOK
        <4>2. clock \in Nat
          BY DEF TypeOK
        <4>3. notBefore[r.task] <= now
          BY <3>1 DEF ValidRetryStart, RetryDue
        <4> QED BY <4>1, <4>2, <4>3
      <3>3. Starts(r.task)
        BY <1>0, <2>2, <2>4, <3>1, <3>2 DEF Starts, ValidRetryStart
      <3> QED BY <1>0, <1>1, <2>2, <3>3 DEF TaskMove
    <2> QED BY <1>0, <2>3, <2>4
  <1>3. CASE v # "Admitted"
    <2>1. attempt' = attempt
      BY <1>3, AdmissionCases DEF AdmissionWaits, AdmissionFails
    <2> QED BY <1>0, <1>1, <2>1 DEF TaskMove
  <1> QED BY <1>2, <1>3

\* The end of a lease past its deadline is a timeout or a cancellation.
LEMMA FinishMoves ==
    ASSUME TypeOK, CoreInv, NEW tok, NEW outcome \in Outcomes, NEW now,
           FinishAt(tok, outcome, now), now = clock \/ outcome = "TimedOut"
    PROVE  \A t \in Tasks : TaskMove(t)
  <1>1. PICK l \in active : FinishStep(l, outcome, now)
    BY FinishCases DEF CoreInv
  <1>2. l.task \in Tasks
    BY DEF TypeOK, Lease
  <1>3. /\ status'[l.task] = FinishTarget(l, outcome, now)
        /\ \A t \in Tasks : t # l.task => status'[t] = status[t]
        /\ attempt' = attempt
    BY <1>1, <1>2 DEF FinishStep, TypeOK
  <1>4. FinishTarget(l, outcome, now) \in {"Done", "Failed", "RetryWait"}
            => ~IsExpired(l, clock)
    BY DEF FinishTarget, EffectiveOutcome, Outcomes
  <1> QED BY <1>1, <1>3, <1>4 DEF TaskMove

\* The end of a queue entry moves a waiting task.
LEMMA QueueEntryMoves ==
    ASSUME NEW k, QueueEntryEnds(k)
    PROVE  \A t \in Tasks : TaskMove(t)
  BY DEF QueueEntryEnds, TaskMove

\* Every step moves a task in one of these ways.
LEMMA TaskMoves ==
    ASSUME RuntimeInv, [Next]_vars
    PROVE  \A t \in Tasks : TaskMove(t)
  <1>0. TypeOK /\ CoreInv /\ QueueConsistent
    BY DEF RuntimeInv, CoreInv
  <1>now. \A now \in CallerNow : now \in Nat /\ now <= clock
    BY <1>0 DEF CallerNow, TypeOK
  <1>1. ASSUME NEW t \in Tasks, NEW shape \in Shapes, NEW now \in CallerNow,
               NEW hard \in HardDeadlines, Submit(t, shape, hard, now)
        PROVE  \A u \in Tasks : TaskMove(u)
    BY <1>0, <1>now, <1>1, SubmitAdmission, AdmissionMoves
  <1>2. ASSUME NEW t \in Tasks, NEW shape \in Shapes, NEW now \in CallerNow,
               RetryFresh(t, shape, now)
        PROVE  \A u \in Tasks : TaskMove(u)
    <2>1. CASE AdmissionStep(queue, queuedAttempts, status,
                             RetryRequest(t, shape), now, "Retry")
      BY <1>0, <1>now, <2>1, AdmissionMoves
    <2>2. CASE UNCHANGED ledgerVars
      BY <2>2 DEF ledgerVars, TaskMove
    <2> QED BY <1>0, <1>2, <2>1, <2>2, RetryAdmission
  <1>3. ASSUME NEW tok, NEW outcome \in Outcomes, Finish(tok, outcome)
        PROVE  \A u \in Tasks : TaskMove(u)
    BY <1>0, <1>3, FinishMoves DEF Finish
  <1>4. ASSUME NEW tok, ReapOne(tok)
        PROVE  \A u \in Tasks : TaskMove(u)
    <2>1. FinishAt(tok, "TimedOut", call.now) /\ "TimedOut" \in Outcomes
      BY <1>4, Zenon DEF ReapOne, Outcomes
    <2> QED BY <1>0, <2>1, FinishMoves
  <1>5. CASE DrainDrop
    BY <1>0, <1>5, DropEnds, QueueEntryMoves
  <1>6. CASE DrainAdmit
    <2>1. call.now \in Nat /\ call.now <= clock
      BY <1>0 DEF RuntimeInv, CallConsistent, TypeOK, Calls
    <2> QED BY <1>0, <1>6, <2>1, DrainAdmission, AdmissionMoves
  <1>7. ASSUME NEW k \in Keys, CancelQueued(k)
        PROVE  \A u \in Tasks : TaskMove(u)
    BY <1>0, <1>7, CancelEnds, QueueEntryMoves
  <1>8. ASSUME UNCHANGED ledgerVars
        PROVE  \A u \in Tasks : TaskMove(u)
    BY <1>8 DEF ledgerVars, TaskMove
  <1>9. CASE ObserveResourceSample
    BY <1>8, <1>9 DEF ObserveResourceSample
  <1> QED
    BY <1>1, <1>2, <1>3, <1>4, <1>5, <1>6, <1>7, <1>8, <1>9, QuietSteps
       DEF Next, Quiet

\* Nothing that arrives late moves a task out of a terminal status.
THEOREM TerminalStays == Spec => TerminalIsFinal
  <1>1. RuntimeInv /\ [Next]_vars
            => [\A t \in Tasks : IsTerminal(status[t]) => status'[t] = status[t]]_vars
    <2> SUFFICES ASSUME RuntimeInv, [Next]_vars, NEW t \in Tasks, IsTerminal(status[t])
                 PROVE  status'[t] = status[t]
      OBVIOUS
    <2>1. \A l \in active : status[l.task] = "Running"
      BY DEF RuntimeInv, RunningIffLeased
    <2> QED BY <2>1, TaskMoves DEF TaskMove, IsTerminal
  <1> QED BY <1>1, RuntimeInvariant, PTL DEF Spec, TerminalIsFinal

\* No task ends as a success, a failure or a retry on a lease whose deadline
\* has passed.
THEOREM LateFinishIsTimeout == Spec => NoLateSuccess
  <1>1. RuntimeInv /\ [Next]_vars
            => [\A l \in active : status'[l.task] \in {"Done", "Failed", "RetryWait"} =>
                    ~IsExpired(l, clock)]_vars
    <2> SUFFICES ASSUME RuntimeInv, [Next]_vars, NEW l \in active,
                        status'[l.task] \in {"Done", "Failed", "RetryWait"}
                 PROVE  ~IsExpired(l, clock)
      OBVIOUS
    <2>1. l.task \in Tasks /\ status[l.task] = "Running"
          /\ \A m \in active : m.task = l.task => m = l
      BY DEF RuntimeInv, RunningIffLeased, TypeOK, Lease
    <2> QED BY <2>1, TaskMoves DEF TaskMove, Starts
  <1> QED BY <1>1, RuntimeInvariant, PTL DEF Spec, NoLateSuccess

\* Attempts are counted one by one, within the policy's limit and after the
\* backoff of the previous one.
THEOREM RetriesAreDisciplined == Spec => AttemptDiscipline
  <1>1. RuntimeInv /\ [Next]_vars
            => [\A t \in Tasks : attempt'[t] # attempt[t] =>
                  /\ status[t] = "RetryWait" /\ status'[t] = "Running"
                  /\ attempt'[t] = attempt[t] + 1
                  /\ attempt'[t] <= MaxAttempts
                  /\ notBefore[t] <= clock]_vars
    BY TaskMoves DEF TaskMove, Starts
  <1> QED BY <1>1, RuntimeInvariant, PTL DEF Spec, AttemptDiscipline

-----------------------------------------------------------------------------
(* What is in use.                                                         *)

UnitsOf(S) == [l \in S |-> l.units]

\* A granted lease adds its units to the sum.
LEMMA GrantAddsUnits ==
    ASSUME RuntimeInv, UsedMatchesLeases, NEW idx, NEW r, r.units \in Nat,
           AdmissionGrants(idx, r)
    PROVE  UsedMatchesLeases'
  <1> DEFINE n == NewLease(r)
             f == UnitsOf(active \cup {n})
  <1>1. /\ active' = active \cup {n} /\ used' = used + n.units /\ n.units \in Nat
        /\ IsFiniteSet(active) /\ \A l \in active : l.units \in Nat
        /\ n \notin active
    <2>1. n.units = r.units /\ n.lease = nextLeaseId /\ nextLeaseId \in Nat
      BY DEF NewLease, RuntimeInv, TypeOK
    <2> QED BY <2>1 DEF AdmissionGrants, RuntimeInv, LeaseIdsFresh, TypeOK, Lease
  <1> HIDE DEF n
  <1>2. /\ \A l \in active \cup {n} : f[l] \in Nat /\ f[l] = l.units
        /\ \A l \in active : f[l] = UnitsOf(active)[l]
    BY <1>1 DEF UnitsOf
  <1>3. used = Total(active, UnitsOf(active))
    BY DEF UsedMatchesLeases, UnitsOf
  <1> HIDE DEF f
  <1>4. Total(active, f) = Total(active, UnitsOf(active))
    BY <1>2, TotalSame
  <1>5. Total(active \cup {n}, f) = Total(active, f) + f[n]
    BY <1>1, <1>2, TotalAdd
  <1>6. used' = Total(active', f)
    BY <1>1, <1>2, <1>3, <1>4, <1>5
  <1> QED BY <1>1, <1>6 DEF UsedMatchesLeases, UnitsOf, f

\* The end of a lease gives back its units, which the sum had, so the counter
\* never saturates at zero.
LEMMA FinishReturnsUnits ==
    ASSUME RuntimeInv, UsedMatchesLeases, NEW tok, NEW outcome, NEW now,
           FinishAt(tok, outcome, now)
    PROVE  UsedMatchesLeases'
  <1> DEFINE f == UnitsOf(active)
  <1>1. PICK l \in active : ReleaseLease(l)
    BY DEF FinishAt
  <1>2. active' = active \ {l}
    BY <1>1 DEF ReleaseLease, RuntimeInv, RunningIffLeased
  <1>3. /\ IsFiniteSet(active) /\ used = Total(active, f)
        /\ \A m \in active : f[m] \in Nat /\ f[m] = m.units
    BY DEF UnitsOf, RuntimeInv, LeaseIdsFresh, TypeOK, Lease, UsedMatchesLeases
  <1>4. \A m \in active \ {l} : f[m] = UnitsOf(active \ {l})[m]
    BY DEF UnitsOf
  <1> HIDE DEF f
  <1>5. Total(active \ {l}, f) = Total(active, f) - f[l] /\ f[l] <= Total(active, f)
    BY <1>3, TotalRemove
  <1>6. used' = Total(active \ {l}, f)
    BY <1>1, <1>3, <1>5 DEF ReleaseLease
  <1>7. Total(active \ {l}, f) = Total(active \ {l}, UnitsOf(active \ {l}))
    BY <1>4, TotalSame
  <1> QED BY <1>2, <1>6, <1>7 DEF UsedMatchesLeases, UnitsOf

\* Admission adds a lease or leaves the leases alone.
LEMMA AdmissionUnits ==
    ASSUME RuntimeInv, UsedMatchesLeases, NEW q, NEW idx, NEW st, NEW r,
           NEW now, NEW kind, AdmissionStep(q, idx, st, r, now, kind)
    PROVE  UsedMatchesLeases'
  <1>1. r.units \in Nat
    BY DEF AdmissionStep, ResourceRequest
  <1>2. TypeOK
    BY DEF RuntimeInv
  <1>3. CASE AdmissionGrants(idx, r)
    BY <1>1, <1>3, GrantAddsUnits
  <1>4. CASE UNCHANGED <<active, used>>
    BY <1>4 DEF UsedMatchesLeases
  <1> QED BY <1>2, <1>3, <1>4, AdmissionCases DEF AdmissionWaits, AdmissionFails

\* Every step keeps the counter equal to the sum.
LEMMA UnitsStep ==
    ASSUME RuntimeInv, UsedMatchesLeases, [Next]_vars
    PROVE  UsedMatchesLeases'
  <1>0. TypeOK /\ CoreInv /\ QueueConsistent
    BY DEF RuntimeInv, CoreInv
  <1>1. ASSUME NEW t \in Tasks, NEW shape \in Shapes, NEW now \in CallerNow,
               NEW hard \in HardDeadlines, Submit(t, shape, hard, now)
        PROVE  UsedMatchesLeases'
    BY <1>0, <1>1, SubmitAdmission, AdmissionUnits
  <1>2. ASSUME UNCHANGED <<active, used>>
        PROVE  UsedMatchesLeases'
    BY <1>2 DEF UsedMatchesLeases
  <1>3. ASSUME NEW t \in Tasks, NEW shape \in Shapes, NEW now \in CallerNow,
               RetryFresh(t, shape, now)
        PROVE  UsedMatchesLeases'
    <2>1. CASE AdmissionStep(queue, queuedAttempts, status,
                             RetryRequest(t, shape), now, "Retry")
      BY <2>1, AdmissionUnits
    <2>2. CASE UNCHANGED admissionVars
      BY <1>2, <2>2 DEF admissionVars
    <2> QED BY <1>0, <1>3, <2>1, <2>2, RetryAdmission
  <1>4. ASSUME NEW tok, NEW outcome, Finish(tok, outcome)
        PROVE  UsedMatchesLeases'
    BY <1>4, FinishReturnsUnits DEF Finish
  <1>5. ASSUME NEW tok, ReapOne(tok)
        PROVE  UsedMatchesLeases'
    <2>1. FinishAt(tok, "TimedOut", call.now)
      BY <1>5, Zenon DEF ReapOne
    <2> QED BY <2>1, FinishReturnsUnits
  <1>6. CASE DrainDrop
    BY <1>0, <1>2, <1>6, DropEnds DEF QueueEntryEnds
  <1>7. CASE DrainAdmit
    BY <1>0, <1>7, DrainAdmission, AdmissionUnits
  <1>8. ASSUME NEW k \in Keys, CancelQueued(k)
        PROVE  UsedMatchesLeases'
    BY <1>0, <1>2, <1>8, CancelEnds DEF QueueEntryEnds
  <1>9. CASE ObserveResourceSample
    BY <1>2, <1>9 DEF ObserveResourceSample, CapacityFeedback
  <1>10. CASE Quiet
    BY <1>2, <1>10, QuietSteps DEF admissionVars
  <1> QED
    BY <1>1, <1>3, <1>4, <1>5, <1>6, <1>7, <1>8, <1>9, <1>10 DEF Next, Quiet

\* The counter of what is in use is the sum over the leases in force, however
\* leases begin and end: finished work gives back exactly what it took.
THEOREM UsedIsTheSumOfLeases == Spec => []UsedMatchesLeases
  <1>1. Init => UsedMatchesLeases
    <2>1. ASSUME Init PROVE used = 0 /\ active = {}
      BY <2>1 DEF Init
    <2> QED BY <2>1, TotalOfNone DEF UsedMatchesLeases
  <1>2. RuntimeInv /\ UsedMatchesLeases /\ [Next]_vars => UsedMatchesLeases'
    BY UnitsStep
  <1> QED BY <1>1, <1>2, RuntimeInvariant, PTL DEF Spec

-----------------------------------------------------------------------------
(* Tokens that wait for their owner.                                       *)

Holds(result) == result.kind = "Admitted"

\* A token that is kept, or that the current poll has in hand, belongs to a
\* lease no caller has a token of, and is in one place only: its owner is the
\* only one who will be able to finish it.
UndeliveredInv ==
    /\ \A d \in delivered : d.lease < nextLeaseId
    /\ Holds(call.target) =>
          /\ call.target.token.lease < nextLeaseId
          /\ \A d \in delivered : d.lease # call.target.token.lease
    /\ \A k \in Keys : Holds(pending[k]) =>
          /\ pending[k].token.lease < nextLeaseId
          /\ \A d \in delivered : d.lease # pending[k].token.lease
          /\ Holds(call.target) => call.target.token.lease # pending[k].token.lease
          /\ \A j \in Keys : /\ Holds(pending[j])
                            /\ pending[j].token.lease = pending[k].token.lease
                            => j = k

\* A step that hands tokens over and keeps no new one: what it delivers is the
\* token of a new lease, the one the poll had in hand, or a kept one.
HandsOver ==
    /\ \A k \in Keys : pending'[k] = pending[k] \/ ~Holds(pending'[k])
    /\ call'.target = call.target \/ ~Holds(call'.target)
    /\ \A d \in delivered' :
          \/ d \in delivered
          \/ d.lease = nextLeaseId /\ nextLeaseId' > nextLeaseId
          \/ Holds(call.target) /\ ~Holds(call'.target) /\ d = call.target.token
          \/ \E k \in Keys : /\ Holds(pending[k]) /\ ~Holds(pending'[k])
                             /\ d = pending[k].token
    /\ nextLeaseId' >= nextLeaseId

\* A step ends leases by their deadline or by a token some caller has.
EndsFairly ==
    /\ \A l \in active : \/ l \in active'
                         \/ status'[l.task] = "TimedOut"
                         \/ \E d \in delivered : d.lease = l.lease
    /\ \A t \in Tasks : status[t] = "TimedOut" => status'[t] = "TimedOut"

\* The tokens in the system have lease numbers.
LEMMA TokenTypes ==
    ASSUME TypeOK
    PROVE  /\ nextLeaseId \in Nat /\ \A d \in delivered : d.lease \in Nat
           /\ Holds(call.target) => call.target.token.lease \in Nat
           /\ \A k \in Keys : Holds(pending[k]) => pending[k].token.lease \in Nat
           /\ \A k \in Keys : k[1] \in Tasks
  <1>1. \A x \in RuntimeAdmission \cup {None} : Holds(x) => x.token.lease \in Nat
    BY DEF RuntimeAdmission, None, Queued, Rejected, Holds, Token
  <1>2. call.target \in RuntimeAdmission \cup {None}
        /\ \A k \in Keys : pending[k] \in RuntimeAdmission \cup {None}
    BY DEF TypeOK, Calls
  <1> QED BY <1>1, <1>2 DEF TypeOK, Token, Keys

\* Handing over keeps the tokens apart.
LEMMA HandsOverUndelivered ==
    ASSUME TypeOK, TypeOK', UndeliveredInv, HandsOver
    PROVE  UndeliveredInv'
  <1>1. /\ nextLeaseId \in Nat /\ nextLeaseId' \in Nat
        /\ \A d \in delivered : d.lease \in Nat
    BY TokenTypes DEF TypeOK
  <1>2. Holds(call.target) => call.target.token.lease \in Nat
    BY TokenTypes
  <1>3. \A k \in Keys : Holds(pending[k]) => pending[k].token.lease \in Nat
    BY TokenTypes
  <1>4. \A d \in delivered' : d.lease < nextLeaseId'
    <2> TAKE d \in delivered'
    <2>1. CASE d \in delivered
      BY <1>1, <2>1 DEF UndeliveredInv, HandsOver
    <2>2. CASE d.lease = nextLeaseId /\ nextLeaseId' > nextLeaseId
      BY <1>1, <2>2
    <2>3. CASE Holds(call.target) /\ d = call.target.token
      BY <1>1, <1>2, <2>3 DEF UndeliveredInv, HandsOver
    <2>4. ASSUME NEW k \in Keys, Holds(pending[k]), d = pending[k].token
          PROVE  d.lease < nextLeaseId'
      BY <1>1, <1>3, <2>4 DEF UndeliveredInv, HandsOver
    <2> QED BY <2>1, <2>2, <2>3, <2>4 DEF HandsOver
  <1>5. ASSUME Holds(call'.target)
        PROVE  /\ call'.target.token.lease < nextLeaseId'
               /\ \A d \in delivered' : d.lease # call'.target.token.lease
    <2>1. call'.target = call.target
      BY <1>5 DEF HandsOver
    <2>2. call'.target.token.lease < nextLeaseId'
      BY <1>1, <1>2, <1>5, <2>1 DEF UndeliveredInv, HandsOver
    <2>3. ASSUME NEW d \in delivered' PROVE d.lease # call.target.token.lease
      <3>1. CASE d \in delivered
        BY <1>5, <2>1, <3>1 DEF UndeliveredInv
      <3>2. CASE d.lease = nextLeaseId
        BY <1>1, <1>2, <1>5, <2>1, <3>2 DEF UndeliveredInv
      <3>3. ASSUME NEW k \in Keys, Holds(pending[k]), d = pending[k].token
            PROVE  d.lease # call.target.token.lease
        BY <1>5, <2>1, <3>3 DEF UndeliveredInv
      <3> QED BY <1>5, <3>1, <3>2, <3>3 DEF HandsOver
    <2> QED BY <2>1, <2>2, <2>3
  <1>6. ASSUME NEW k \in Keys, Holds(pending'[k])
        PROVE  /\ pending'[k].token.lease < nextLeaseId'
               /\ \A d \in delivered' : d.lease # pending'[k].token.lease
               /\ Holds(call'.target) => call'.target.token.lease # pending'[k].token.lease
               /\ \A j \in Keys : /\ Holds(pending'[j])
                                 /\ pending'[j].token.lease = pending'[k].token.lease
                                 => j = k
    <2>1. pending'[k] = pending[k] /\ \A j \in Keys : Holds(pending'[j]) => pending'[j] = pending[j]
      BY <1>6 DEF HandsOver
    <2>2. pending'[k].token.lease < nextLeaseId'
      BY <1>1, <1>3, <1>6, <2>1 DEF UndeliveredInv, HandsOver
    <2>3. ASSUME NEW d \in delivered' PROVE d.lease # pending[k].token.lease
      <3>1. CASE d \in delivered
        BY <1>6, <2>1, <3>1 DEF UndeliveredInv
      <3>2. CASE d.lease = nextLeaseId
        BY <1>1, <1>3, <1>6, <2>1, <3>2 DEF UndeliveredInv
      <3>3. CASE Holds(call.target) /\ d = call.target.token
        BY <1>6, <2>1, <3>3 DEF UndeliveredInv
      <3>4. ASSUME NEW j \in Keys, Holds(pending[j]), ~Holds(pending'[j]),
                   d = pending[j].token
            PROVE  d.lease # pending[k].token.lease
        BY <1>6, <2>1, <3>4 DEF UndeliveredInv
      <3> QED BY <3>1, <3>2, <3>3, <3>4 DEF HandsOver
    <2>4. Holds(call'.target) => call'.target.token.lease # pending'[k].token.lease
      BY <1>6, <2>1 DEF UndeliveredInv, HandsOver
    <2>5. \A j \in Keys : /\ Holds(pending'[j])
                         /\ pending'[j].token.lease = pending'[k].token.lease
                         => j = k
      BY <1>6, <2>1 DEF UndeliveredInv
    <2> QED BY <2>1, <2>2, <2>3, <2>4, <2>5
  <1> QED BY <1>4, <1>5, <1>6 DEF UndeliveredInv

\* What is kept stays good.
LEMMA EndsFairlyLive ==
    ASSUME TypeOK, UndeliveredInv, RetainedTokenIsLive, EndsFairly,
           NEW k \in Keys, pending'[k] = pending[k], Holds(pending[k])
    PROVE  \/ \E l \in active' : l.task = k[1] /\ TokenOf(l) = pending'[k].token
           \/ status'[k[1]] = "TimedOut"
  <1>1. k[1] \in Tasks
    BY DEF Keys
  <1>2. CASE status[k[1]] = "TimedOut"
    BY <1>1, <1>2 DEF EndsFairly
  <1>3. ASSUME NEW l \in active, l.task = k[1], TokenOf(l) = pending[k].token
        PROVE  \/ \E m \in active' : m.task = k[1] /\ TokenOf(m) = pending'[k].token
               \/ status'[k[1]] = "TimedOut"
    <2>1. \A d \in delivered : d.lease # l.lease
      BY <1>3 DEF UndeliveredInv, TokenOf
    <2> QED BY <1>3, <2>1 DEF EndsFairly
  <1> QED BY <1>2, <1>3 DEF RetainedTokenIsLive, Holds

\* An iteration of the drain that grants a lease keeps its token for the owner
\* or takes it in hand for the poller.
Keeps(k, result, left) ==
    /\ k \in Keys
    /\ Deliver(k, result, left)
    /\ nextLeaseId' >= nextLeaseId
    /\ Holds(result) => /\ result.token.lease = nextLeaseId
                        /\ nextLeaseId' > nextLeaseId
                        /\ \E l \in active' : l.task = k[1] /\ TokenOf(l) = result.token
    /\ UNCHANGED delivered

\* So does the drain.
LEMMA KeepsUndelivered ==
    ASSUME TypeOK, TypeOK', UndeliveredInv, RetainedTokenIsLive, EndsFairly,
           NEW k, NEW result, NEW left, Keeps(k, result, left)
    PROVE  UndeliveredInv' /\ RetainedTokenIsLive'
  <1>0. /\ nextLeaseId \in Nat /\ nextLeaseId' \in Nat /\ nextLeaseId' >= nextLeaseId
        /\ \A d \in delivered : d.lease \in Nat
        /\ Holds(call.target) => call.target.token.lease \in Nat
        /\ \A j \in Keys : Holds(pending[j]) => pending[j].token.lease \in Nat
        /\ k \in Keys /\ call \in Calls
        /\ pending \in [Keys -> RuntimeAdmission \cup {None}]
    BY TokenTypes DEF TypeOK, Keeps
  <1>new. Holds(result) => /\ result.token.lease = nextLeaseId
                           /\ nextLeaseId' > nextLeaseId
    BY DEF Keeps
  <1>old. /\ \A d \in delivered : d.lease < nextLeaseId
          /\ delivered' = delivered
          /\ Holds(call.target) => call.target.token.lease < nextLeaseId
          /\ \A j \in Keys : Holds(pending[j]) => pending[j].token.lease < nextLeaseId
    BY DEF UndeliveredInv, Keeps
  <1>1. CASE k = call.key /\ call.target = None
    <2>1. call'.target = result /\ pending' = pending
      BY <1>0, <1>1 DEF Keeps, Deliver, Calls
    <2>2. UndeliveredInv'
      BY <1>0, <1>new, <1>old, <2>1 DEF UndeliveredInv
    <2>3. RetainedTokenIsLive'
      BY <2>1, EndsFairlyLive DEF RetainedTokenIsLive, Holds
    <2> QED BY <2>2, <2>3
  <1>2. CASE ~(k = call.key /\ call.target = None)
    <2>1. call'.target = call.target /\ pending' = [pending EXCEPT ![k] = result]
      BY <1>0, <1>2 DEF Keeps, Deliver, Calls
    <2>2. pending'[k] = result /\ \A j \in Keys : j # k => pending'[j] = pending[j]
      BY <1>0, <2>1
    <2>3. UndeliveredInv'
      <3>1. \A d \in delivered' : d.lease < nextLeaseId'
        BY <1>0, <1>old
      <3>2. Holds(call'.target) =>
                /\ call'.target.token.lease < nextLeaseId'
                /\ \A d \in delivered' : d.lease # call'.target.token.lease
        BY <1>0, <1>old, <2>1 DEF UndeliveredInv
      <3>3. ASSUME NEW j \in Keys, Holds(pending'[j])
            PROVE  /\ pending'[j].token.lease < nextLeaseId'
                   /\ \A d \in delivered' : d.lease # pending'[j].token.lease
                   /\ Holds(call'.target)
                        => call'.target.token.lease # pending'[j].token.lease
                   /\ \A i \in Keys : /\ Holds(pending'[i])
                                     /\ pending'[i].token.lease = pending'[j].token.lease
                                     => i = j
        <4>1. CASE j = k
          BY <1>0, <1>new, <1>old, <2>1, <2>2, <3>3, <4>1
        <4>2. CASE j # k
          BY <1>0, <1>new, <1>old, <2>1, <2>2, <3>3, <4>2 DEF UndeliveredInv
        <4> QED BY <4>1, <4>2
      <3> QED BY <3>1, <3>2, <3>3 DEF UndeliveredInv
    <2>4. RetainedTokenIsLive'
      <3> SUFFICES ASSUME NEW j \in Keys, Holds(pending'[j])
                   PROVE  \/ \E l \in active' : l.task = j[1] /\ TokenOf(l) = pending'[j].token
                          \/ status'[j[1]] = "TimedOut"
        BY DEF RetainedTokenIsLive, Holds
      <3>1. CASE j = k
        BY <2>2, <3>1 DEF Keeps
      <3>2. CASE j # k
        BY <2>2, <3>2, EndsFairlyLive
      <3> QED BY <3>1, <3>2
    <2> QED BY <2>3, <2>4
  <1> QED BY <1>1, <1>2

\* So does every step that hands over.
LEMMA HandsOverLive ==
    ASSUME TypeOK, TypeOK', UndeliveredInv, RetainedTokenIsLive, HandsOver, EndsFairly
    PROVE  UndeliveredInv' /\ RetainedTokenIsLive'
  <1>1. RetainedTokenIsLive'
    BY EndsFairlyLive DEF RetainedTokenIsLive, HandsOver, Holds
  <1> QED BY <1>1, HandsOverUndelivered

\* Admission adds to the leases, and numbers the one it adds.
LEMMA AdmissionHands ==
    ASSUME TypeOK, NEW q, NEW idx, NEW st, NEW r, NEW now, NEW kind,
           AdmissionStep(q, idx, st, r, now, kind)
    PROVE  LET v == Verdict(q, idx, r, now, kind)
           IN  /\ active \subseteq active' /\ nextLeaseId' >= nextLeaseId
               /\ Holds(Result(r, v)) =>
                     /\ Result(r, v).token.lease = nextLeaseId
                     /\ nextLeaseId' > nextLeaseId
                     /\ \E l \in active' : /\ l.task = r.task
                                           /\ TokenOf(l) = Result(r, v).token
               /\ \A d \in TokensIn(Result(r, v)) :
                     d.lease = nextLeaseId /\ nextLeaseId' > nextLeaseId
  <1> DEFINE v == Verdict(q, idx, r, now, kind)
  <1>0. nextLeaseId \in Nat
    BY DEF TypeOK
  <1>1. CASE v = "Admitted"
    <2>1. AdmissionGrants(idx, r)
      BY <1>1, AdmissionCases
    <2>2. /\ Result(r, v).token = TokenOf(NewLease(r))
          /\ TokensIn(Result(r, v)) = {TokenOf(NewLease(r))}
      BY <1>1 DEF Result, Admitted, TokensIn
    <2>3. TokenOf(NewLease(r)).lease = nextLeaseId /\ NewLease(r).task = r.task
      BY DEF TokenOf, NewLease
    <2> HIDE DEF v
    <2>4. /\ active' = active \cup {NewLease(r)} /\ nextLeaseId' = nextLeaseId + 1
      BY <2>1 DEF AdmissionGrants
    <2>5. NewLease(r) \in active' /\ nextLeaseId' > nextLeaseId
      BY <1>0, <2>4
    <2> QED BY <1>0, <2>2, <2>3, <2>4, <2>5 DEF v
  <1>2. CASE v # "Admitted"
    <2>1. UNCHANGED <<active, nextLeaseId>>
      BY <1>2, AdmissionCases DEF AdmissionWaits, AdmissionFails
    <2>2. ~Holds(Result(r, v)) /\ TokensIn(Result(r, v)) = {}
      BY <1>2, ResultsDiffer DEF Result, Holds, TokensIn
    <2> HIDE DEF v
    <2> QED BY <1>0, <2>1, <2>2 DEF v
  <1> QED BY <1>1, <1>2

\* A finish needs a delivered token, and the reaper's leaves a timeout.
LEMMA FinishEnds ==
    ASSUME RuntimeInv, NEW tok, NEW outcome \in Outcomes, NEW now,
           FinishAt(tok, outcome, now), tok \in delivered \/ outcome = "TimedOut"
    PROVE  /\ \A l \in active : \/ l \in active'
                                \/ status'[l.task] = "TimedOut"
                                \/ \E d \in delivered : d.lease = l.lease
           /\ UNCHANGED nextLeaseId
  <1>1. PICK l \in active :
            /\ l.lease = tok.lease /\ ReleaseLease(l)
            /\ status' = [status EXCEPT ![l.task] = FinishTarget(l, outcome, now)]
    BY DEF FinishAt, Inspects
  <1>2. active' = active \ {l} /\ nextLeaseId' = nextLeaseId
    BY <1>1 DEF ReleaseLease, RuntimeInv, RunningIffLeased
  <1>3. CASE tok \in delivered
    BY <1>1, <1>2, <1>3
  <1>4. CASE outcome = "TimedOut"
    <2>1. FinishTarget(l, outcome, now) = "TimedOut"
      BY <1>4 DEF FinishTarget, EffectiveOutcome
    <2>2. l.task \in Tasks
      BY DEF RuntimeInv, TypeOK, Lease
    <2>3. status'[l.task] = "TimedOut"
      BY <1>1, <2>1, <2>2 DEF RuntimeInv, TypeOK
    <2> QED BY <1>2, <2>3
  <1> QED BY <1>3, <1>4

\* Every step keeps the kept tokens good.
LEMMA RetainedTokenStep ==
    ASSUME RuntimeInv, RuntimeInv', UndeliveredInv, RetainedTokenIsLive, [Next]_vars
    PROVE  UndeliveredInv' /\ RetainedTokenIsLive'
  <1> DEFINE Good == UndeliveredInv' /\ RetainedTokenIsLive'
  <1>0. /\ TypeOK /\ TypeOK' /\ CoreInv /\ QueueConsistent /\ nextLeaseId \in Nat
        /\ call \in Calls /\ pending \in [Keys -> RuntimeAdmission \cup {None}]
    BY DEF RuntimeInv, CoreInv, TypeOK
  <1>timed. \A t \in Tasks : status[t] = "TimedOut" => status'[t] = "TimedOut"
    <2>1. \A l \in active : status[l.task] = "Running"
      BY DEF RuntimeInv, RunningIffLeased
    <2> QED BY <2>1, TaskMoves DEF TaskMove
  <1>hand. HandsOver /\ EndsFairly => Good
    BY <1>0, HandsOverLive
  <1>keep. ASSUME NEW k, NEW result, NEW left, Keeps(k, result, left), EndsFairly
           PROVE  Good
    BY <1>0, <1>keep, KeepsUndelivered
  <1>stay. active \subseteq active' => EndsFairly
    BY <1>timed DEF EndsFairly
  <1>none. ~Holds(None) /\ ~Holds(Rejected)
    BY ResultsDiffer DEF Holds
  <1> HIDE DEF Good
  <1>1. ASSUME NEW t \in Tasks, NEW shape \in Shapes, NEW now \in CallerNow,
               NEW hard \in HardDeadlines, Submit(t, shape, hard, now)
        PROVE  Good
    <2>1. PICK r, v : /\ r = SubmitRequest(t, shape, hard)
                      /\ v = Verdict(queue, queuedAttempts, r, now, "Initial")
      OBVIOUS
    <2>2. AdmissionStep(queue, queuedAttempts, [status EXCEPT ![t] = "Ready"],
                        r, now, "Initial")
      BY <1>0, <1>1, <2>1, SubmitAdmission
    <2>3. /\ delivered' = delivered \cup TokensIn(Result(r, v))
          /\ UNCHANGED <<pending, call>>
      BY <1>1, <2>1 DEF Submit, SubmitRequest
    <2>4. /\ active \subseteq active' /\ nextLeaseId' >= nextLeaseId
          /\ \A d \in TokensIn(Result(r, v)) :
                d.lease = nextLeaseId /\ nextLeaseId' > nextLeaseId
      BY <1>0, <2>1, <2>2, AdmissionHands
    <2>5. HandsOver
      BY <2>3, <2>4 DEF HandsOver
    <2> QED BY <1>hand, <1>stay, <2>4, <2>5
  <1>2. ASSUME NEW t \in Tasks, NEW shape \in Shapes, NEW now \in CallerNow,
               RetryFresh(t, shape, now)
        PROVE  Good
    <2>1. PICK r, v : /\ r = RetryRequest(t, shape)
                      /\ v = Verdict(queue, queuedAttempts, r, now, "Retry")
      OBVIOUS
    <2>2. /\ delivered' = delivered \cup TokensIn(Result(r, v))
          /\ pending' = [pending EXCEPT ![Key(r)] = None] /\ call' = call
      BY <1>2, <2>1 DEF RetryFresh
    <2>3. \A k \in Keys : pending'[k] = pending[k] \/ ~Holds(pending'[k])
      BY <1>0, <1>none, <2>2
    <2>4. CASE AdmissionStep(queue, queuedAttempts, status, r, now, "Retry")
      <3>1. /\ active \subseteq active' /\ nextLeaseId' >= nextLeaseId
            /\ \A d \in TokensIn(Result(r, v)) :
                  d.lease = nextLeaseId /\ nextLeaseId' > nextLeaseId
        BY <1>0, <2>1, <2>4, AdmissionHands
      <3>2. HandsOver
        BY <2>2, <2>3, <3>1 DEF HandsOver
      <3> QED BY <1>hand, <1>stay, <3>1, <3>2
    <2>5. CASE UNCHANGED <<ledgerVars, admissionVars, delivered>>
      <3>1. UNCHANGED <<active, nextLeaseId, delivered>>
        BY <2>5 DEF admissionVars
      <3>2. HandsOver
        BY <1>0, <2>2, <2>3, <3>1 DEF HandsOver
      <3> QED BY <1>hand, <1>stay, <3>1, <3>2
    <2> QED BY <1>0, <1>2, <2>1, <2>4, <2>5, RetryAdmission
  <1>3. ASSUME NEW tok \in delivered, NEW outcome \in Outcomes, Finish(tok, outcome)
        PROVE  Good
    <2>1. FinishAt(tok, outcome, clock) /\ UNCHANGED <<pending, call, delivered>>
      BY <1>3 DEF Finish, callerVars
    <2>2. EndsFairly /\ nextLeaseId' = nextLeaseId
      BY <1>timed, <2>1, FinishEnds DEF EndsFairly
    <2>3. HandsOver
      BY <1>0, <2>1, <2>2 DEF HandsOver
    <2> QED BY <1>hand, <2>2, <2>3
  <1>4. ASSUME NEW tok, ReapOne(tok)
        PROVE  Good
    <2>1. /\ FinishAt(tok, "TimedOut", call.now) /\ "TimedOut" \in Outcomes
          /\ call' = [call EXCEPT !.tokens = @ \ {tok}]
          /\ UNCHANGED <<pending, delivered>>
      BY <1>4, Zenon DEF ReapOne, Outcomes, callerVars
    <2>2. call'.target = call.target
      BY <1>0, <2>1 DEF Calls
    <2>3. EndsFairly /\ nextLeaseId' = nextLeaseId
      BY <1>timed, <2>1, FinishEnds DEF EndsFairly
    <2>4. HandsOver
      BY <1>0, <2>1, <2>2, <2>3 DEF HandsOver
    <2> QED BY <1>hand, <2>3, <2>4
  <1>5. ASSUME NEW k \in Keys, PollRetained(k)
        PROVE  Good
    <2>1. /\ pending' = [pending EXCEPT ![k] = None]
          /\ delivered' = delivered \cup TokensIn(pending[k])
          /\ UNCHANGED <<active, nextLeaseId, call>>
      BY <1>5 DEF PollRetained, admissionVars
    <2>2. pending'[k] = None /\ \A j \in Keys : j # k => pending'[j] = pending[j]
      BY <1>0, <2>1
    <2>3. \A d \in TokensIn(pending[k]) : Holds(pending[k]) /\ d = pending[k].token
      BY DEF TokensIn, Holds
    <2>4. HandsOver
      BY <1>0, <1>none, <2>1, <2>2, <2>3 DEF HandsOver
    <2> QED BY <1>hand, <1>stay, <2>1, <2>4
  <1>6. ASSUME PollReturn
        PROVE  Good
    <2>1. /\ call' = Idle
          /\ delivered' = delivered \cup TokensIn(call.target)
          /\ UNCHANGED <<active, nextLeaseId, pending>>
      BY <1>6 DEF PollReturn, admissionVars
    <2>2. \A d \in TokensIn(call.target) : Holds(call.target) /\ d = call.target.token
      BY DEF TokensIn, Holds
    <2>3. ~Holds(call'.target)
      BY <1>none, <2>1 DEF Idle
    <2>4. HandsOver
      BY <1>0, <2>1, <2>2, <2>3 DEF HandsOver
    <2> QED BY <1>hand, <1>stay, <2>1, <2>4
  <1>7. ASSUME DrainDrop
        PROVE  Good
    <2>1. PICK k : k = Key(Head(queue))
      OBVIOUS
    <2>2. Deliver(k, Rejected, call.left - 1) /\ delivered' = delivered
      BY <1>7, <2>1 DEF DrainDrop, callerVars
    <2>3. QueueEntryEnds(k)
      BY <1>0, <1>7, <2>1, DropEnds
    <2>4. k \in Keys /\ UNCHANGED <<active, nextLeaseId>>
      BY <1>0, <2>3 DEF QueueEntryEnds, TypeOK
    <2>5. Keeps(k, Rejected, call.left - 1)
      BY <1>0, <1>none, <2>2, <2>4 DEF Keeps
    <2> QED BY <1>keep, <1>stay, <2>4, <2>5
  <1>8. ASSUME DrainAdmit
        PROVE  Good
    <2>1. PICK r, idx, v, left :
              /\ r = Head(queue) /\ idx = PopHead(r)
              /\ v = Verdict(Tail(queue), idx, r, call.now, QueuedAttemptKind(r))
              /\ left = IF v = "Queued" THEN 0 ELSE call.left - 1
      OBVIOUS
    <2>2. /\ queue # <<>> /\ Deliver(Key(r), Result(r, v), left)
          /\ delivered' = delivered
      BY <1>8, <2>1 DEF DrainAdmit, Draining, callerVars
    <2>3. AdmissionStep(Tail(queue), idx, status, r, call.now, QueuedAttemptKind(r))
      BY <1>0, <1>8, <2>1, DrainAdmission
    <2>4. Key(r) \in Keys /\ Key(r)[1] = r.task
      BY <1>0, <2>1, <2>2, HeadExpected DEF Key
    <2>5. /\ active \subseteq active' /\ nextLeaseId' >= nextLeaseId
          /\ Holds(Result(r, v)) =>
                /\ Result(r, v).token.lease = nextLeaseId
                /\ nextLeaseId' > nextLeaseId
                /\ \E l \in active' : l.task = r.task /\ TokenOf(l) = Result(r, v).token
      BY <1>0, <2>1, <2>3, AdmissionHands
    <2>6. Keeps(Key(r), Result(r, v), left)
      BY <2>2, <2>4, <2>5 DEF Keeps
    <2> QED BY <1>keep, <1>stay, <2>5, <2>6
  <1>9. ASSUME NEW k \in Keys, CancelQueued(k)
        PROVE  Good
    <2>1. /\ pending' = [pending EXCEPT ![k] = None]
          /\ UNCHANGED <<active, nextLeaseId, call, delivered>>
      BY <1>9 DEF CancelQueued, RemoveQueued, callerVars
    <2>2. \A j \in Keys : pending'[j] = pending[j] \/ ~Holds(pending'[j])
      BY <1>0, <1>none, <2>1
    <2>3. HandsOver
      BY <1>0, <2>1, <2>2 DEF HandsOver
    <2> QED BY <1>hand, <1>stay, <2>1, <2>3
  <1>10. ASSUME NEW t \in Tasks, NEW shape \in Shapes, RetryQueued(t, shape)
         PROVE  Good
    <2>1. /\ \E k : pending' = [pending EXCEPT ![k] = None]
          /\ UNCHANGED <<active, nextLeaseId, call, delivered>>
      BY <1>10 DEF RetryQueued, admissionVars, callerVars
    <2>2. \A j \in Keys : pending'[j] = pending[j] \/ ~Holds(pending'[j])
      BY <1>0, <1>none, <2>1
    <2>3. HandsOver
      BY <1>0, <2>1, <2>2 DEF HandsOver
    <2> QED BY <1>hand, <1>stay, <2>1, <2>3
  <1>11. ASSUME UNCHANGED <<active, nextLeaseId, pending, delivered>>,
                call'.target = call.target \/ call'.target = None
         PROVE  Good
    <2>1. HandsOver
      BY <1>0, <1>none, <1>11 DEF HandsOver
    <2> QED BY <1>hand, <1>stay, <1>11, <2>1
  <1>12. ASSUME NEW k \in Keys, NEW now \in CallerNow, PollStart(k, now)
         PROVE  Good
    <2>1. call'.target = None
      BY <1>12 DEF PollStart, Polling, Idle
    <2> QED BY <1>11, <1>12, <2>1 DEF PollStart, admissionVars, callerVars
  <1>13. ASSUME DrainBlocked
        PROVE  Good
    <2>1. /\ call' = [call EXCEPT !.left = 0]
          /\ UNCHANGED <<ledgerVars, admissionVars, pending, callerVars>>
      BY <1>13, Zenon DEF DrainBlocked
    <2>2. call'.target = call.target
      BY <1>0, <2>1 DEF Calls
    <2>3. UNCHANGED <<active, nextLeaseId, pending, delivered>>
      BY <2>1, Zenon DEF admissionVars, callerVars
    <2> QED BY <1>11, <2>2, <2>3
  <1>14. ASSUME NEW now \in CallerNow, ReapStart(now)
         PROVE  Good
    <2>1. \E S : call' = Reaping(S, now)
      BY <1>14 DEF ReapStart
    <2>2. call'.target = None
      BY <2>1 DEF Reaping, Idle
    <2> QED BY <1>11, <1>14, <2>2 DEF ReapStart, admissionVars, callerVars
  <1>15. ASSUME ReapReturn
        PROVE  Good
    <2>1. call'.target = None
      BY <1>15 DEF ReapReturn, Idle
    <2> QED BY <1>11, <1>15, <2>1 DEF ReapReturn, admissionVars, callerVars
  <1>16. ASSUME ObserveResourceSample \/ Tick \/ UNCHANGED vars
        PROVE  Good
    BY <1>11, <1>16 DEF ObserveResourceSample, CapacityFeedback, Tick, vars,
                        admissionVars, callerVars
  <1>17. Good
    BY <1>1, <1>2, <1>3, <1>4, <1>5, <1>6, <1>7, <1>8, <1>9, <1>10, <1>12,
       <1>13, <1>14, <1>15, <1>16, Zenon DEF Next
  <1> QED BY <1>17 DEF Good

\* A token kept for its owner still names its lease when it is fetched, unless
\* the reaper has timed the task out: nobody else can have finished it.
THEOREM RetainedTokensStayGood == Spec => []RetainedTokenIsLive
  <1>1. Init => UndeliveredInv /\ RetainedTokenIsLive
    BY ResultsDiffer DEF Init, Idle, UndeliveredInv, RetainedTokenIsLive, Holds
  <1>2. /\ RuntimeInv /\ RuntimeInv' /\ UndeliveredInv /\ RetainedTokenIsLive
        /\ [Next]_vars
        => UndeliveredInv' /\ RetainedTokenIsLive'
    BY RetainedTokenStep
  <1> QED BY <1>1, <1>2, RuntimeInvariant, PTL DEF Spec

-----------------------------------------------------------------------------
(* The runtime keeps the promises of the envelope.                         *)

Envelope == INSTANCE CapacityEnvelope WITH Most <- MaxCapacity

\* Granting takes from what is left, finishing gives back, a sample adapts
\* the capacity, and nothing else touches either.
THEOREM RuntimeKeepsEnvelope == Spec => Envelope!Spec
  <1> DEFINE Promise == [Envelope!Next]_<<capacity, used>>
  <1>1. Init => Envelope!Init
    BY AdmissionAssumption DEF Init, Envelope!Init
  <1>2. ASSUME RuntimeInv, RuntimeInv', [Next]_vars
        PROVE  Promise
    <2>0. /\ TypeOK /\ CoreInv /\ QueueConsistent /\ UsedWithinCapacity
          /\ used \in Nat /\ capacity \in Nat /\ used' \in Nat
      BY <1>2 DEF RuntimeInv, CoreInv, TypeOK
    <2>1. ASSUME NEW q, NEW idx, NEW st, NEW r, NEW now, NEW kind,
                 AdmissionStep(q, idx, st, r, now, kind)
          PROVE  Promise
      <3>1. CASE AdmissionGrants(idx, r)
        <4>1. r.units \in Nat
          BY <2>1 DEF AdmissionStep, ResourceRequest
        <4> QED BY <2>0, <3>1, <4>1
                DEF AdmissionGrants, Fits, Envelope!Next, Envelope!Take
      <3>2. CASE ~AdmissionGrants(idx, r)
        BY <2>0, <2>1, <3>2, AdmissionCases DEF AdmissionWaits, AdmissionFails
      <3> QED BY <3>1, <3>2
    <2>2. ASSUME NEW tok, NEW outcome \in Outcomes, NEW now,
                 FinishAt(tok, outcome, now)
          PROVE  Promise
      <3>1. PICK l \in active : FinishStep(l, outcome, now)
        BY <2>0, <2>2, FinishCases DEF CoreInv
      <3> QED BY <2>0, <3>1 DEF FinishStep, Envelope!Next, Envelope!Give
    <2>3. ASSUME NEW k, QueueEntryEnds(k)
          PROVE  Promise
      BY <2>3 DEF QueueEntryEnds
    <2>4. ASSUME UNCHANGED <<ledgerVars, admissionVars>>
          PROVE  Promise
      BY <2>4 DEF admissionVars
    <2>5. CASE ObserveResourceSample
      BY <2>5 DEF ObserveResourceSample, CapacityFeedback, Envelope!Next,
                  Envelope!Adapt
    <2> HIDE DEF Promise
    <2>6. ASSUME NEW t \in Tasks, NEW shape \in Shapes, NEW now \in CallerNow,
                 NEW hard \in HardDeadlines, Submit(t, shape, hard, now)
          PROVE  Promise
      BY <2>0, <2>1, <2>6, SubmitAdmission
    <2>7. ASSUME NEW t \in Tasks, NEW shape \in Shapes, NEW now \in CallerNow,
                 RetryFresh(t, shape, now)
          PROVE  Promise
      <3>1. CASE AdmissionStep(queue, queuedAttempts, status,
                               RetryRequest(t, shape), now, "Retry")
        BY <2>1, <3>1
      <3>2. CASE UNCHANGED <<ledgerVars, admissionVars, delivered>>
        BY <2>4, <3>2
      <3> QED BY <2>0, <2>7, <3>1, <3>2, RetryAdmission
    <2>8. ASSUME NEW tok, NEW outcome \in Outcomes, Finish(tok, outcome)
          PROVE  Promise
      BY <2>2, <2>8 DEF Finish
    <2>9. ASSUME NEW tok, ReapOne(tok)
          PROVE  Promise
      <3>1. FinishAt(tok, "TimedOut", call.now) /\ "TimedOut" \in Outcomes
        BY <2>9, Zenon DEF ReapOne, Outcomes
      <3> QED BY <2>2, <3>1
    <2>10. CASE DrainDrop
      BY <2>0, <2>3, <2>10, DropEnds
    <2>11. CASE DrainAdmit
      BY <2>0, <2>1, <2>11, DrainAdmission
    <2>12. ASSUME NEW k \in Keys, CancelQueued(k)
           PROVE  Promise
      BY <2>0, <2>3, <2>12, CancelEnds
    <2> QED
      BY <1>2, <2>4, <2>5, <2>6, <2>7, <2>8, <2>9, <2>10, <2>11, <2>12,
         QuietSteps DEF Next, Quiet
  <1>3. RuntimeInv /\ RuntimeInv' /\ [Next]_vars => Promise
    BY <1>2
  <1> QED BY <1>1, <1>3, RuntimeInvariant, PTL DEF Spec, Envelope!Spec

=============================================================================
