------------------------ MODULE AuthoritativeRuntime ------------------------
(***************************************************************************)
(* AuthoritativeRuntime (core/rust/src/runtime.rs): the one owner of task  *)
(* lifecycle and resource admission in the process.  Python threads and    *)
(* event loops call it through the FFI, which serialises the calls on one  *)
(* mutex; a call is therefore one action, except poll_queued and           *)
(* reap_expired, whose loops are one action per iteration with the mutex   *)
(* held (the variable call) so that no other call can come in between.     *)
(*                                                                         *)
(* submit, retry, poll and reap take the caller's reading of the clock,    *)
(* taken before the mutex was acquired and so possibly late by MaxLag;     *)
(* finish reads the clock itself.                                          *)
(***************************************************************************)
EXTENDS AdmissionController

CONSTANTS
    HardDeadlines,  \* hard deadlines a task card may carry
    MaxLag          \* bound: how late a caller's clock reading may be

ASSUME RuntimeAssumption ==
    /\ HardDeadlines \subseteq Instants
    /\ MaxLag \in Nat

VARIABLES
    pending,    \* pending_admissions: results kept until their owner polls
    call,       \* the call that holds the mutex
    delivered,  \* every token a caller has been handed
    clock       \* wall-clock time

callerVars == <<delivered, clock>>
vars == <<ledgerVars, admissionVars, pending, call, callerVars>>

-----------------------------------------------------------------------------
(* RuntimeAdmission.                                                       *)

None == [kind |-> "None"]
Queued == [kind |-> "Queued"]
Rejected == [kind |-> "Rejected"]
Admitted(tok) == [kind |-> "Admitted", token |-> tok]

RuntimeAdmission ==
    {Queued, Rejected} \cup [kind: {"Admitted"}, token: Token]

\* The tokens in one optional result.
TokensIn(result) ==
    IF result.kind = "Admitted" THEN {result.token} ELSE {}

-----------------------------------------------------------------------------
(* The mutex.                                                              *)

NoKey == <<"none", 0>>

Idle == [op |-> "idle", key |-> NoKey, left |-> 0, now |-> 0,
         target |-> None, tokens |-> {}]

Polling(k, n, now) == [Idle EXCEPT !.op = "poll", !.key = k, !.left = n,
                                   !.now = now]

Reaping(tokens, now) == [Idle EXCEPT !.op = "reap", !.tokens = tokens,
                                     !.now = now]

Free == call.op = "idle"

\* The instants a caller may pass as now_ms.
CallerNow == {n \in 0 .. clock : clock - n <= MaxLag}

-----------------------------------------------------------------------------
(* admit_existing.  kind is AttemptKind; st is the ledger's status map as  *)
(* the call has left it so far.                                            *)

\* Its verdict on a request whose attempt the caller has matched against
\* the ledger.  An error of enqueue reaches the caller as a refusal.
Verdict(q, idx, r, now, kind) ==
    IF kind = "Retry" /\ ~ValidRetryStart(r.task, r.attempt, now)
    THEN "Rejected"
    ELSE IF LaneFree(r.lane) THEN AdmitVerdict(q, idx, r, now)
    ELSE IF CanEnqueue(q, idx, r, now) THEN "Queued"
    ELSE "Rejected"

Result(r, verdict) ==
    IF verdict = "Admitted" THEN Admitted(TokenOf(NewLease(r)))
    ELSE IF verdict = "Queued" THEN Queued
    ELSE Rejected

AdmitExisting(q, idx, st, r, verdict) ==
    \/ /\ verdict = "Admitted"
       /\ Granted(q, idx, r)
       /\ status' = [st EXCEPT ![r.task] = "Running"]
       /\ attempt' = [attempt EXCEPT ![r.task] = r.attempt]
       /\ notBefore' = [notBefore EXCEPT ![r.task] = Never]
    \/ /\ verdict = "Queued"
       /\ Enqueued(q, idx, r)
       /\ status' = st
       /\ UNCHANGED <<attempt, notBefore>>
    \/ /\ verdict = "Rejected"
       /\ Refused(q, idx)
       /\ status' = st
       /\ UNCHANGED <<attempt, notBefore>>

-----------------------------------------------------------------------------
(* submit and retry.                                                       *)

Submit(t, shape, hard, now) ==
    LET r == Request(t, attempt[t], shape, Earlier(shape.deadline, hard))
        v == Verdict(queue, queuedAttempts, r, now, "Initial")
    IN  /\ Free
        /\ status[t] = "Absent"
        /\ hardDeadline' = [hardDeadline EXCEPT ![t] = hard]
        /\ AdmitExisting(queue, queuedAttempts,
                         [status EXCEPT ![t] = "Ready"], r, v)
        /\ delivered' = delivered \cup TokensIn(Result(r, v))
        /\ UNCHANGED <<pending, call, clock>>

\* The request a caller makes for the next attempt of t.
RetryRequest(t, shape) ==
    Request(t, attempt[t] + 1, shape, Earlier(shape.deadline, hardDeadline[t]))

\* The attempt is already queued with the same request: acknowledge it and
\* drop the notification kept for it.  (A different request is refused.  A
\* retained rejection is consumed first, but never coexists with a queue
\* entry: PendingMatchesQueue.)
RetryQueued(t, shape) ==
    LET r == RetryRequest(t, shape)
    IN  /\ Free
        /\ status[t] = "RetryWait"
        /\ Key(r) \in queuedAttempts
        /\ \E i \in 1 .. Len(queue) : queue[i] = r
        /\ pending' = [pending EXCEPT ![Key(r)] = None]
        /\ UNCHANGED <<ledgerVars, admissionVars, call, callerVars>>

\* The attempt is not queued: whatever was retained for it is stale.
RetryFresh(t, shape, now) ==
    LET r == RetryRequest(t, shape)
        k == Key(r)
        v == Verdict(queue, queuedAttempts, r, now, "Retry")
    IN  /\ Free
        /\ status[t] = "RetryWait"
        /\ k \notin queuedAttempts
        /\ pending' = [pending EXCEPT ![k] = None]
        /\ AdmitExisting(queue, queuedAttempts, status, r, v)
        /\ delivered' = delivered \cup TokensIn(Result(r, v))
        /\ UNCHANGED <<hardDeadline, call, clock>>

-----------------------------------------------------------------------------
(* finish.                                                                 *)

Outcomes == {"Done", "Failed", "RetryWait", "TimedOut", "Cancelled"}

\* Mutant: the lease's deadline is not consulted.
MutOutcomeIgnoresExpiry(l, outcome, now) == outcome

\* The outcome finish_at acts on: past the deadline only a cancellation is
\* still what the caller says it is.
EffectiveOutcome(l, outcome, now) ==
    IF outcome # "Cancelled" /\ IsExpired(l, now) THEN "TimedOut" ELSE outcome

\* The instant the next attempt may start.
RetryDueAt(t, now) == now + Delay(attempt[t])

\* The status finish_at asks for: a retry that the policy or the hard
\* deadline leaves no room for is a failure.
FinishTarget(l, outcome, now) ==
    LET eff == EffectiveOutcome(l, outcome, now)
    IN  IF /\ eff = "RetryWait"
           /\ ~(/\ MayRetryAfter(attempt[l.task])
                /\ RetryDueAt(l.task, now) < hardDeadline[l.task])
        THEN "Failed" ELSE eff

\* finish_at, with cancel_and_release and release_and_transition: validate
\* the token, the transition and the lane first, then release and settle.
FinishAt(tok, outcome, now) ==
    \E l \in active :
        LET t == l.task
            target == FinishTarget(l, outcome, now)
        IN  /\ Inspects(tok, l)
            /\ laneActive[l.lane] > 0
            /\ ReleaseLease(l)
            /\ status' = [status EXCEPT ![t] = target]
            /\ \/ /\ target = "RetryWait"
                  /\ ValidRetryWait(t, RetryDueAt(t, now))
                  /\ notBefore' = [notBefore EXCEPT ![t] = RetryDueAt(t, now)]
               \/ /\ target = "Cancelled"
                  /\ ValidTransition(t, "Cancelling")
                  /\ notBefore' = [notBefore EXCEPT ![t] = Never]
               \/ /\ target \notin {"RetryWait", "Cancelled"}
                  /\ ValidTransition(t, target)
                  /\ notBefore' = [notBefore EXCEPT ![t] = Never]
            /\ UNCHANGED <<attempt, hardDeadline>>

\* A caller reports an outcome with a token it was handed, perhaps again.
Finish(tok, outcome) ==
    /\ Free
    /\ FinishAt(tok, outcome, clock)
    /\ UNCHANGED <<pending, call, callerVars>>

-----------------------------------------------------------------------------
(* poll_queued and the loop of drain_queued.                               *)

\* Mutant: the retained result is read but not removed.
MutPollKeepsRetained(k) ==
    /\ Free
    /\ pending[k] # None
    /\ delivered' = delivered \cup TokensIn(pending[k])
    /\ UNCHANGED <<ledgerVars, admissionVars, pending, call, clock>>

\* A result was retained for this attempt by an earlier drain.
PollRetained(k) ==
    /\ Free
    /\ pending[k] # None
    /\ pending' = [pending EXCEPT ![k] = None]
    /\ delivered' = delivered \cup TokensIn(pending[k])
    /\ UNCHANGED <<ledgerVars, admissionVars, call, clock>>

PollStart(k, now) ==
    /\ Free
    /\ pending[k] = None
    /\ call' = Polling(k, Len(queue), now)
    /\ UNCHANGED <<ledgerVars, admissionVars, pending, callerVars>>

\* queued_attempt_kind of a queue entry.
QueuedAttemptKind(r) ==
    IF status[r.task] = "Ready" /\ r.attempt = attempt[r.task]
    THEN "Initial"
    ELSE IF status[r.task] = "RetryWait" /\ r.attempt = attempt[r.task] + 1
    THEN "Retry"
    ELSE "Stale"

\* Mutant: a result that is not the poller's is dropped.
MutDeliverDropsOthers(k, result, left) ==
    /\ call' = [call EXCEPT !.left = left,
                           !.target = IF k = call.key THEN result ELSE @]
    /\ UNCHANGED pending

\* An iteration's result goes to the poller if it is the poller's, and is
\* retained otherwise.
Deliver(k, result, left) ==
    IF k = call.key /\ call.target = None
    THEN /\ call' = [call EXCEPT !.left = left, !.target = result]
         /\ UNCHANGED pending
    ELSE /\ call' = [call EXCEPT !.left = left]
         /\ pending' = [pending EXCEPT ![k] = result]

Draining == call.op = "poll" /\ call.left > 0 /\ queue # <<>>

\* The head cannot be restored, or is a retry past its hard deadline, which
\* is timed out.
HeadIsDead(r) ==
    LET kind == QueuedAttemptKind(r)
    IN  kind = "Stale" \/ (kind = "Retry" /\ call.now >= hardDeadline[r.task])

\* The head is a retry whose backoff has not elapsed.
HeadIsEarly(r) ==
    /\ QueuedAttemptKind(r) = "Retry"
    /\ ~HeadIsDead(r)
    /\ call.now < notBefore[r.task]

PopHead(r) == queuedAttempts \ {Key(r)}

DrainDrop ==
    LET r == Head(queue)
    IN  /\ Draining
        /\ HeadIsDead(r)
        /\ Refused(Tail(queue), PopHead(r))
        /\ IF QueuedAttemptKind(r) = "Retry"
           THEN /\ status' = [status EXCEPT ![r.task] = "TimedOut"]
                /\ notBefore' = [notBefore EXCEPT ![r.task] = Never]
           ELSE UNCHANGED <<status, notBefore>>
        /\ Deliver(Key(r), Rejected, call.left - 1)
        /\ UNCHANGED <<attempt, hardDeadline, callerVars>>

\* The loop stops at a retry that must still wait.
DrainBlocked ==
    /\ Draining
    /\ HeadIsEarly(Head(queue))
    /\ call' = [call EXCEPT !.left = 0]
    /\ UNCHANGED <<ledgerVars, admissionVars, pending, callerVars>>

\* The head is popped and goes through admission again; if it has to wait
\* once more it is now at the back, and the loop stops.
DrainAdmit ==
    LET r == Head(queue)
        v == Verdict(Tail(queue), PopHead(r), r, call.now,
                     QueuedAttemptKind(r))
    IN  /\ Draining
        /\ ~HeadIsDead(r)
        /\ ~HeadIsEarly(r)
        /\ AdmitExisting(Tail(queue), PopHead(r), status, r, v)
        /\ Deliver(Key(r), Result(r, v),
                   IF v = "Queued" THEN 0 ELSE call.left - 1)
        /\ UNCHANGED <<hardDeadline, callerVars>>

PollReturn ==
    /\ call.op = "poll"
    /\ ~Draining
    /\ call' = Idle
    /\ delivered' = delivered \cup TokensIn(call.target)
    /\ UNCHANGED <<ledgerVars, admissionVars, pending, clock>>

-----------------------------------------------------------------------------
(* cancel_queued, reap_expired, host samples and time.                     *)

\* cancel_queued finds a queued attempt that the ledger still expects, and
\* answers true; in every other case it answers without touching anything.
CanCancel(k) ==
    LET t == k[1]
    IN  /\ pending[k].kind # "Admitted"
        /\ \/ status[t] = "Ready" /\ k[2] = attempt[t]
           \/ status[t] = "RetryWait" /\ k[2] = attempt[t] + 1
        /\ k \in QueuedKeys

CancelQueued(k) ==
    LET t == k[1]
    IN  /\ Free
        /\ CanCancel(k)
        /\ RemoveQueued(k)
        /\ pending' = [pending EXCEPT ![k] = None]
        /\ status' = [status EXCEPT ![t] = "Cancelled"]
        /\ notBefore' = [notBefore EXCEPT ![t] = Never]
        /\ UNCHANGED <<attempt, hardDeadline, call, callerVars>>

ReapStart(now) ==
    /\ Free
    /\ call' = Reaping({TokenOf(l) : l \in {m \in active : IsExpired(m, now)}},
                       now)
    /\ UNCHANGED <<ledgerVars, admissionVars, pending, callerVars>>

\* One expired lease, in the order of the lease map.
ReapOne(tok) ==
    /\ call.op = "reap"
    /\ tok \in call.tokens
    /\ \A o \in call.tokens : tok.lease <= o.lease
    /\ FinishAt(tok, "TimedOut", call.now)
    /\ call' = [call EXCEPT !.tokens = @ \ {tok}]
    /\ UNCHANGED <<pending, callerVars>>

ReapReturn ==
    /\ call.op = "reap"
    /\ call.tokens = {}
    /\ call' = Idle
    /\ UNCHANGED <<ledgerVars, admissionVars, pending, callerVars>>

ObserveResourceSample ==
    /\ Free
    /\ CapacityFeedback
    /\ UNCHANGED <<ledgerVars, pending, call, callerVars>>

Tick ==
    /\ Free
    /\ clock < MaxClock
    /\ clock' = clock + 1
    /\ UNCHANGED <<ledgerVars, admissionVars, pending, call, delivered>>

-----------------------------------------------------------------------------
Init ==
    /\ status = [t \in Tasks |-> "Absent"]
    /\ attempt = [t \in Tasks |-> 1]
    /\ notBefore = [t \in Tasks |-> Never]
    /\ hardDeadline = [t \in Tasks |-> Never]
    /\ capacity = BaselineCapacity
    /\ used = 0
    /\ memState = "Normal"
    /\ queue = <<>>
    /\ queuedAttempts = {}
    /\ active = {}
    /\ nextLeaseId = 1
    /\ generation = 0
    /\ laneActive = [l \in Lanes |-> 0]
    /\ pending = [k \in Keys |-> None]
    /\ call = Idle
    /\ delivered = {}
    /\ clock = 0

Next ==
    \/ \E t \in Tasks, shape \in Shapes, now \in CallerNow :
          \/ \E hard \in HardDeadlines : Submit(t, shape, hard, now)
          \/ RetryFresh(t, shape, now)
    \/ \E t \in Tasks, shape \in Shapes : RetryQueued(t, shape)
    \/ \E tok \in delivered, outcome \in Outcomes : Finish(tok, outcome)
    \/ \E k \in Keys : PollRetained(k) \/ CancelQueued(k)
    \/ \E k \in Keys, now \in CallerNow : PollStart(k, now)
    \/ DrainDrop \/ DrainBlocked \/ DrainAdmit \/ PollReturn
    \/ \E now \in CallerNow : ReapStart(now)
    \/ \E tok \in call.tokens : ReapOne(tok)
    \/ ReapReturn
    \/ ObserveResourceSample
    \/ Tick

Spec == Init /\ [][Next]_vars
-----------------------------------------------------------------------------
(* Properties.                                                             *)

Calls ==
    [op: {"idle", "poll", "reap"}, key: Keys \cup {NoKey}, left: Nat,
     now: Nat, target: RuntimeAdmission \cup {None}, tokens: SUBSET Token]

\* Every variable has the type of the field of the Rust structures it models.
TypeOK ==
    /\ status \in [Tasks -> TaskStatus \cup {"Absent"}]
    /\ attempt \in [Tasks -> Attempts]
    /\ notBefore \in [Tasks -> Instants]
    /\ hardDeadline \in [Tasks -> Instants]
    /\ capacity \in Nat
    /\ used \in Nat
    /\ memState \in MemoryPressure
    /\ queue \in Seq(ResourceRequest)
    /\ queuedAttempts \subseteq Keys
    /\ active \subseteq Lease
    /\ nextLeaseId \in Nat
    /\ generation \in Nat
    /\ laneActive \in [Lanes -> Nat]
    /\ pending \in [Keys -> RuntimeAdmission \cup {None}]
    /\ call \in Calls
    /\ delivered \subseteq Token
    /\ clock \in 0 .. MaxClock

\* "So no lease is lost" (poll_queued): the token of every lease in force is
\* with a caller, kept for the owner's next poll, or about to be returned.
NoLeaseLost ==
    \A l \in active :
        \/ TokenOf(l) \in delivered
        \/ pending[<<l.task, l.attempt>>] = Admitted(TokenOf(l))
        \/ /\ call.key = <<l.task, l.attempt>>
           /\ call.target = Admitted(TokenOf(l))

\* The ledger and the admission controller agree: a task is Running exactly
\* when one lease is in force for its current attempt.
RunningIffLeased ==
    /\ \A l \in active : /\ status[l.task] = "Running"
                        /\ attempt[l.task] = l.attempt
    /\ \A l, m \in active : l.task = m.task \/ l.lease = m.lease => l = m
    /\ \A t \in Tasks : status[t] = "Running" => \E l \in active : l.task = t

\* The in-flight counter of a lane counts its leases: no exit path of
\* admit_existing keeps a lane slot it acquired, so a lane never jams.
LaneAccounting ==
    \A lane \in Lanes :
        /\ laneActive[lane] = Cardinality({l \in active : l.lane = lane})
        /\ laneActive[lane] <= LaneLimit[lane]

\* The three records of what runs agree at every step: the ledger's Running
\* tasks, the controller's leases and the lanes' counters, with one lease for a
\* task and no slot kept or given back twice.
LeasesAreCounted == RunningIffLeased /\ LaneAccounting

\* The counter of what is in use is what the leases in force hold, so
\* finished work gives back exactly what it took.
UsedMatchesLeases == used = Total(active, [l \in active |-> l.units])

\* "Samples may reduce future admission capacity but cannot revoke an active
\* lease": what is in use never exceeds the capacity of the moment.
UsedWithinCapacity == used <= capacity /\ capacity <= MaxCapacity

\* The queue and its index agree, hold an attempt once and within the bound,
\* and every entry still is what the ledger expects, so the drain never
\* meets a task it cannot restore.
QueueConsistent ==
    /\ QueuedKeys = queuedAttempts
    /\ \A i, j \in 1 .. Len(queue) : Key(queue[i]) = Key(queue[j]) => i = j
    /\ Len(queue) <= QueueLimit
    /\ \A i \in 1 .. Len(queue) : QueuedAttemptKind(queue[i]) # "Stale"

\* A notification kept for an owner is current: a kept "queued" still has its
\* queue entry, and a kept rejection or admission has none.
PendingMatchesQueue ==
    \A k \in Keys :
        /\ pending[k] = Queued => k \in queuedAttempts
        /\ pending[k].kind \in {"Rejected", "Admitted"} => k \notin queuedAttempts

\* A token kept for its owner still works when it is fetched, unless the
\* deadline reaper ended the task first.
RetainedTokenIsLive ==
    \A k \in Keys :
        pending[k].kind = "Admitted" =>
            \/ \E l \in active : l.task = k[1] /\ TokenOf(l) = pending[k].token
            \/ status[k[1]] = "TimedOut"

\* The attempt number grows by one, only when a waiting retry starts, never
\* past the policy's limit and never before its backoff has elapsed.
AttemptDiscipline ==
    [][\A t \in Tasks : attempt'[t] # attempt[t] =>
          /\ status[t] = "RetryWait" /\ status'[t] = "Running"
          /\ attempt'[t] = attempt[t] + 1
          /\ attempt'[t] <= MaxAttempts
          /\ notBefore[t] <= clock]_vars

\* Nothing that arrives late (a drain, a cancel, a duplicate finish, the
\* reaper) changes a task that has reached a terminal status.
TerminalIsFinal ==
    [][\A t \in Tasks : IsTerminal(status[t]) => status'[t] = status[t]]_vars

\* A task never ends as Done, Failed or waiting for a retry on a lease whose
\* deadline has passed.
NoLateSuccess ==
    [][\A l \in active : status'[l.task] \in {"Done", "Failed", "RetryWait"} =>
          ~IsExpired(l, clock)]_vars

=============================================================================
