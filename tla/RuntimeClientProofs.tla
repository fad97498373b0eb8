------------------------ MODULE RuntimeClientProofs ------------------------
(***************************************************************************)
(* Proofs about RuntimeClient: the Python clients use the runtime within   *)
(* its interface, so what is proved of it holds for them, and a client and *)
(* the runtime agree on its lease, for any number of clients, lanes and    *)
(* limits and however the clients time out, abort or are interrupted.      *)
(***************************************************************************)
EXTENDS RuntimeClient, AuthoritativeRuntimeProofs

-----------------------------------------------------------------------------
(* The inductive invariant.                                                *)

Undecided == {"waiting", "aborting", "interrupted", "reclaiming"}
Holding == {"holding", "returning"}
ClientStates == Undecided \cup Holding \cup {"new", "done", "failed"}

\* The result carries the token of a lease in force for t.
Leased(t, result) == \E l \in active : l.task = t /\ result = Admitted(TokenOf(l))

ClientTypeOK ==
    /\ client \in [Tasks -> ClientStates]
    /\ token \in [Tasks -> RuntimeAdmission \cup {None}]

\* A client makes one attempt and never retries.
FirstAttempts ==
    \A t \in Tasks : /\ attempt[t] = 1
                     /\ status[t] # "RetryWait"
                     /\ client[t] = "new" <=> status[t] = "Absent"

\* A lease in force is with its client, is kept for it, or is about to be
\* returned to it.
LeaseIsWithClient ==
    \A l \in active :
        \/ client[l.task] \in Holding /\ token[l.task] = Admitted(TokenOf(l))
        \/ client[l.task] \in Undecided /\ pending[Own(l.task)] = Admitted(TokenOf(l))
        \/ /\ call.op = "poll" /\ call.key = Own(l.task)
           /\ call.target = Admitted(TokenOf(l))

\* What a client holds, or has waiting for it, is in force.
HeldIsLeased ==
    \A t \in Tasks : client[t] \in Holding => Leased(t, token[t])

KeptIsLeased ==
    \A k \in Keys : Holds(pending[k]) =>
        k = Own(k[1]) /\ client[k[1]] \in Undecided /\ Leased(k[1], pending[k])

\* Only a client that still waits has a queue entry: one that reclaims has
\* found that the queue holds nothing of its.
QueuedIsUndecided ==
    \A k \in queuedAttempts :
        k = Own(k[1]) /\ client[k[1]] \in Undecided \ {"reclaiming"}

\* A poll is its client's, nothing is kept for that client meanwhile, and the
\* result in hand is still true of the queue and the leases.
PollIsClients ==
    /\ call.op # "reap"
    /\ call.op = "poll" =>
          /\ call.key[1] \in Tasks /\ call.key = Own(call.key[1])
          /\ client[call.key[1]] \in {"waiting", "reclaiming"}
          /\ pending[call.key] = None
          /\ call.target = Queued => call.left = 0 /\ call.key \in queuedAttempts
          /\ call.target.kind \in {"Rejected", "Admitted"}
                => call.key \notin queuedAttempts
          /\ Holds(call.target) => Leased(call.key[1], call.target)

\* A client's token was delivered by the runtime.
TokensDelivered ==
    \A t \in Tasks : Holds(token[t]) => token[t].token \in delivered

ClientInv ==
    /\ ClientTypeOK
    /\ FirstAttempts
    /\ LeaseIsWithClient
    /\ HeldIsLeased
    /\ KeptIsLeased
    /\ QueuedIsUndecided
    /\ PollIsClients
    /\ TokensDelivered

-----------------------------------------------------------------------------
(* Basic facts.                                                            *)

\* A client's own attempt is one the runtime knows, and no other client's.
LEMMA OwnKeys ==
    /\ \A t \in Tasks : Own(t) \in Keys
    /\ \A t, u : Own(t) = Own(u) => t = u
    /\ \A t : Own(t)[1] = t /\ Own(t)[2] = 1
  BY LedgerAssumption DEF Own, Keys, Attempts

\* A result is Admitted, or one of three.
LEMMA ResultKinds ==
    /\ \A x \in RuntimeAdmission \cup {None} :
          \/ Holds(x) /\ x = Admitted(x.token) /\ x.token \in Token
          \/ ~Holds(x) /\ x \in {None, Queued, Rejected}
    /\ \A tok : Holds(Admitted(tok)) /\ Admitted(tok).token = tok
    /\ ~Holds(None) /\ ~Holds(Queued) /\ ~Holds(Rejected)
    /\ None # Queued /\ None # Rejected /\ Queued # Rejected
  BY DEF RuntimeAdmission, None, Queued, Rejected, Holds, Admitted

\* Where an answer takes a client.
LEMMA Answers ==
    ASSUME NEW t \in Tasks, ClientTypeOK,
           NEW answer \in RuntimeAdmission \cup {None}, Receives(t, answer)
    PROVE  /\ ClientTypeOK'
           /\ \A u \in Tasks : u # t => client'[u] = client[u] /\ token'[u] = token[u]
           /\ Holds(answer) => client'[t] \in Holding /\ token'[t] = answer
           /\ ~Holds(answer) => token'[t] = token[t]
           /\ answer = Rejected \/ (~Holds(answer) /\ client[t] = "reclaiming")
                 => client'[t] = "failed"
           /\ answer \in {None, Queued} /\ client[t] # "reclaiming"
                 => client'[t] = "waiting"
  <1>1. /\ client' = [client EXCEPT ![t] = After(client[t], answer)]
        /\ token' = [token EXCEPT
                       ![t] = IF answer.kind = "Admitted" THEN answer ELSE token[t]]
    BY DEF Receives
  <1>2. /\ client'[t] = After(client[t], answer)
        /\ token'[t] = IF Holds(answer) THEN answer ELSE token[t]
        /\ \A u \in Tasks : u # t => client'[u] = client[u] /\ token'[u] = token[u]
    BY <1>1 DEF ClientTypeOK, Holds
  <1>3. After(client[t], answer) \in ClientStates
    BY DEF After, ClientStates, Undecided, Holding
  <1>4. ClientTypeOK'
    BY <1>1, <1>3 DEF ClientTypeOK
  <1>5. /\ Holds(answer) => After(client[t], answer) \in Holding
        /\ answer = Rejected \/ (~Holds(answer) /\ client[t] = "reclaiming")
              => After(client[t], answer) = "failed"
        /\ answer \in {None, Queued} /\ client[t] # "reclaiming"
              => After(client[t], answer) = "waiting"
    BY ResultsDiffer DEF After, Holds, Holding
  <1> QED BY <1>2, <1>4, <1>5

-----------------------------------------------------------------------------
(* What the clients call is what the runtime offers.                       *)

\* finish finds the client's lease, for it is in force: the client never gets
\* the refusal of a token whose lease is gone.
LEMMA FinishFinds ==
    ASSUME RuntimeInv, ClientInv, NEW t \in Tasks, client[t] \in Holding,
           NEW outcome, FinishLease(t, outcome)
    PROVE  /\ Finish(token[t].token, outcome) /\ token[t].token \in delivered
           /\ token' = token
           /\ \E l \in active :
                 /\ l.task = t /\ active' = active \ {l}
                 /\ status' = [status EXCEPT ![t] = FinishTarget(l, outcome, clock)]
                 /\ UNCHANGED <<attempt, queuedAttempts, pending, call, delivered>>
  <1>1. PICK l \in active : l.task = t /\ token[t] = Admitted(TokenOf(l))
    BY DEF ClientInv, HeldIsLeased, Leased
  <1>2. token[t].token = TokenOf(l) /\ Holds(token[t])
    BY <1>1, ResultKinds
  <1>3. Inspects(token[t].token, l)
    BY <1>2 DEF Inspects, TokenOf
  <1>4. Finish(token[t].token, outcome) /\ token' = token
    BY <1>3 DEF FinishLease, Live
  <1>5. PICK m \in active :
            /\ Inspects(token[t].token, m) /\ ReleaseLease(m) /\ attempt' = attempt
            /\ status' = [status EXCEPT ![m.task] = FinishTarget(m, outcome, clock)]
    BY <1>4 DEF Finish, FinishAt
  <1>6. m = l
    BY <1>3, <1>5 DEF Inspects, RuntimeInv, RunningIffLeased
  <1>7. active' = active \ {l} /\ queuedAttempts' = queuedAttempts
    BY <1>5, <1>6 DEF ReleaseLease, RuntimeInv, RunningIffLeased
  <1>8. UNCHANGED <<pending, call, delivered>>
    BY <1>4 DEF Finish, callerVars
  <1>9. token[t].token \in delivered
    BY <1>2 DEF ClientInv, TokensDelivered
  <1> QED BY <1>1, <1>4, <1>5, <1>6, <1>7, <1>8, <1>9

\* Every step of the clients is a step of the runtime or leaves it alone.
LEMMA ClientStepIsRuntimeStep ==
    ASSUME RuntimeInv, ClientInv, [ClientNext]_allVars
    PROVE  [Next]_vars
  <1>1. ASSUME NEW t \in Tasks, NEW shape \in Shapes, NEW now \in CallerNow,
               AcquireTask(t, shape, now)
        PROVE  Next
    <2>1. Never \in HardDeadlines /\ Submit(t, shape, Never, now)
      BY <1>1, ClientAssumption DEF AcquireTask
    <2> QED BY <2>1, Zenon DEF Next
  <1>2. ASSUME NEW t \in Tasks, PollTakes(t)
        PROVE  Next
    <2>1. Own(t) \in Keys /\ PollRetained(Own(t))
      BY <1>2, OwnKeys DEF PollTakes
    <2> QED BY <2>1, Zenon DEF Next
  <1>3. ASSUME NEW t \in Tasks, AbortCancel(t)
        PROVE  [Next]_vars
    <2>1. Own(t) \in Keys
      BY OwnKeys
    <2>2. CASE CancelQueued(Own(t))
      BY <2>1, <2>2, Zenon DEF Next
    <2> QED BY <1>3, <2>2, Zenon DEF AbortCancel
  <1>4. ASSUME NEW t \in Tasks, NEW outcome \in Outcomes, client[t] \in Holding,
               FinishLease(t, outcome)
        PROVE  Next
    <2>1. Finish(token[t].token, outcome) /\ token[t].token \in delivered
      BY <1>4, FinishFinds
    <2> QED BY <2>1, Zenon DEF Next
  <1>5. ASSUME NEW t \in Tasks, GiveBack(t)
        PROVE  Next
    <2>1. "Cancelled" \in Outcomes /\ client[t] \in Holding /\ FinishLease(t, "Cancelled")
      BY <1>5 DEF GiveBack, Outcomes, Holding
    <2> QED BY <1>4, <2>1
  <1>6. ASSUME NEW t \in Tasks, NEW outcome \in {"Done", "Failed", "Cancelled"},
               Leave(t, outcome)
        PROVE  Next
    <2>1. outcome \in Outcomes /\ client[t] \in Holding /\ FinishLease(t, outcome)
      BY <1>6 DEF Leave, Outcomes, Holding
    <2> QED BY <1>4, <2>1
  <1>7. ASSUME NEW t \in Tasks, NEW now \in CallerNow, PollBegins(t, now)
        PROVE  Next
    <2>1. Own(t) \in Keys /\ PollStart(Own(t), now)
      BY <1>7, OwnKeys DEF PollBegins
    <2> QED BY <2>1, Zenon DEF Next
  <1>8. CASE PollDrains
    BY <1>8, Zenon DEF PollDrains, Next
  <1>9. CASE PollEnds
    BY <1>9, Zenon DEF PollEnds, Next
  <1>10. ASSUME NEW t, Abort(t) \/ Interrupt(t)
         PROVE  vars' = vars
    BY <1>10, Zenon DEF Abort, Interrupt
  <1>11. CASE ObserveResourceSample \/ Tick
    BY <1>11, Zenon DEF Next
  <1>12. CASE UNCHANGED allVars
    BY <1>12, Zenon DEF allVars
  <1> QED
    BY <1>1, <1>2, <1>3, <1>5, <1>6, <1>7, <1>8, <1>9, <1>10, <1>11, <1>12, Zenon
       DEF ClientNext

-----------------------------------------------------------------------------
(* The invariant, action by action.                                        *)

\* A first attempt that goes through admission leaves the attempt number as
\* it is and its task Ready or Running.
LEMMA FirstAdmission ==
    ASSUME TypeOK, NEW q, NEW idx, NEW st, NEW r, NEW now,
           AdmissionStep(q, idx, st, r, now, "Initial")
    PROVE  /\ attempt' = attempt
           /\ status'[r.task] \in {"Ready", "Running"}
           /\ \A t \in Tasks : t # r.task => status'[t] = status[t]
  <1>1. /\ r.task \in Tasks /\ st[r.task] = "Ready" /\ r.attempt = attempt[r.task]
    BY DEF AdmissionStep, ResourceRequest
  <1>2. [attempt EXCEPT ![r.task] = r.attempt] = attempt
    BY <1>1 DEF TypeOK
  <1> QED BY <1>1, <1>2, AdmissionCases
          DEF AdmissionGrants, AdmissionWaits, AdmissionFails

\* A finished client has nothing left.
LEMMA FinishKeeps ==
    ASSUME RuntimeInv, ClientInv, NEW t \in Tasks, client[t] \in Holding, Free,
           NEW outcome \in {"Done", "Failed", "Cancelled"}, FinishLease(t, outcome),
           NEW end \in {"done", "failed"}, client' = [client EXCEPT ![t] = end]
    PROVE  ClientInv'
  <1>0. TypeOK /\ ClientTypeOK
    BY DEF RuntimeInv, ClientInv
  <1>1. PICK l \in active :
            /\ l.task = t /\ active' = active \ {l}
            /\ status' = [status EXCEPT ![t] = FinishTarget(l, outcome, clock)]
            /\ UNCHANGED <<attempt, queuedAttempts, pending, call, delivered>>
    BY FinishFinds
  <1>2. token' = token
    BY DEF FinishLease
  <1>3. /\ client'[t] = end /\ \A u \in Tasks : u # t => client'[u] = client[u]
    BY <1>0 DEF ClientTypeOK
  <1>4. ClientTypeOK'
    BY <1>0, <1>2 DEF ClientTypeOK, ClientStates
  <1>5. \A u, r : u # t /\ Leased(u, r) => Leased(u, r)'
    BY <1>1 DEF Leased
  <1>6. \A m \in active' : m \in active /\ m.task \in Tasks /\ m.task # t
    BY <1>1 DEF RuntimeInv, RunningIffLeased, TypeOK, Lease
  <1>7. client[t] \notin Undecided /\ client[t] # "new"
    BY DEF Holding, Undecided
  <1>8. FirstAttempts'
    <2>1. FinishTarget(l, outcome, clock) \notin {"RetryWait", "Absent"}
      BY DEF FinishTarget, EffectiveOutcome
    <2>2. status'[t] \notin {"RetryWait", "Absent"}
          /\ \A u \in Tasks : u # t => status'[u] = status[u]
      BY <1>0, <1>1, <2>1 DEF TypeOK
    <2>3. client'[t] # "new"
      BY <1>3
    <2> QED BY <1>1, <1>3, <2>2, <2>3 DEF ClientInv, FirstAttempts
  <1>9. LeaseIsWithClient'
    BY <1>1, <1>2, <1>3, <1>6 DEF ClientInv, LeaseIsWithClient
  <1>10. HeldIsLeased'
    <2> SUFFICES ASSUME NEW u \in Tasks, client'[u] \in Holding
                 PROVE  Leased(u, token[u])'
      BY DEF HeldIsLeased
    <2>1. u # t
      BY <1>3 DEF Holding
    <2>2. Leased(u, token[u])
      BY <1>3, <2>1 DEF ClientInv, HeldIsLeased
    <2> QED BY <1>1, <1>2, <2>1, <2>2 DEF Leased
  <1>11. KeptIsLeased'
    <2> SUFFICES ASSUME NEW k \in Keys, Holds(pending[k])
                 PROVE  /\ k = Own(k[1]) /\ client'[k[1]] \in Undecided
                        /\ Leased(k[1], pending[k])'
      BY <1>1 DEF KeptIsLeased, Leased
    <2>1. k = Own(k[1]) /\ client[k[1]] \in Undecided /\ Leased(k[1], pending[k])
      BY DEF ClientInv, KeptIsLeased
    <2>2. k[1] \in Tasks /\ k[1] # t
      BY <1>7, <2>1 DEF Keys
    <2> QED BY <1>1, <1>3, <2>1, <2>2 DEF Leased
  <1>12. QueuedIsUndecided'
    <2> SUFFICES ASSUME NEW k \in queuedAttempts
                 PROVE  k = Own(k[1]) /\ client'[k[1]] \in Undecided \ {"reclaiming"}
      BY <1>1 DEF QueuedIsUndecided
    <2>1. k = Own(k[1]) /\ client[k[1]] \in Undecided \ {"reclaiming"} /\ k[1] \in Tasks
      BY <1>0 DEF ClientInv, QueuedIsUndecided, TypeOK, Keys
    <2> QED BY <1>3, <1>7, <2>1
  <1>13. PollIsClients'
    BY <1>1 DEF Free, PollIsClients
  <1>14. TokensDelivered'
    BY <1>1, <1>2 DEF ClientInv, TokensDelivered
  <1> QED BY <1>4, <1>8, <1>9, <1>10, <1>11, <1>12, <1>13, <1>14 DEF ClientInv

\* A poll has brought client t the answer, which is true of the queue and of
\* the leases, and nothing of the client's is left in the runtime.
Fetches(t, answer) ==
    /\ client[t] \in {"waiting", "reclaiming"}
    /\ answer \in RuntimeAdmission \cup {None}
    /\ Receives(t, answer)
    /\ call'.op = "idle"
    /\ call.op = "poll" => call.key = Own(t)
    /\ delivered' = delivered \cup TokensIn(answer)
    /\ pending'[Own(t)] = None
    /\ \A k \in Keys : k # Own(t) => pending'[k] = pending[k]
    /\ \A l \in active : l.task = t => answer = Admitted(TokenOf(l))
    /\ Holds(answer) => Leased(t, answer)
    /\ answer = Queued => Own(t) \in queuedAttempts
    /\ answer = Rejected \/ Holds(answer) => Own(t) \notin queuedAttempts
    /\ UNCHANGED <<status, attempt, active, queuedAttempts>>

\* A fetched answer leaves the client and the runtime in agreement.
LEMMA FetchKeeps ==
    ASSUME RuntimeInv, ClientInv, NEW t \in Tasks, NEW answer, Fetches(t, answer)
    PROVE  ClientInv'
  <1>0. /\ TypeOK /\ ClientTypeOK /\ answer \in RuntimeAdmission \cup {None}
        /\ Receives(t, answer) /\ client[t] \in {"waiting", "reclaiming"}
    BY DEF RuntimeInv, ClientInv, Fetches
  <1>1. /\ ClientTypeOK'
        /\ \A u \in Tasks : u # t => client'[u] = client[u] /\ token'[u] = token[u]
        /\ Holds(answer) => client'[t] \in Holding /\ token'[t] = answer
        /\ ~Holds(answer) => token'[t] = token[t]
        /\ answer = Rejected \/ (~Holds(answer) /\ client[t] = "reclaiming")
              => client'[t] = "failed"
        /\ answer \in {None, Queued} /\ client[t] # "reclaiming"
              => client'[t] = "waiting"
    BY <1>0, Answers
  <1>2. \/ Holds(answer) /\ client'[t] \in Holding
        \/ ~Holds(answer) /\ client'[t] = "failed"
        \/ ~Holds(answer) /\ client'[t] = "waiting" /\ client[t] = "waiting"
    BY <1>0, <1>1, ResultKinds
  <1>3. client'[t] # "new" /\ client[t] # "new" /\ client[t] \notin Holding
    BY <1>0, <1>2 DEF Holding
  <1>4. FirstAttempts'
    BY <1>1, <1>3 DEF Fetches, ClientInv, FirstAttempts
  <1>5. \A u, r : Leased(u, r) <=> \E l \in active' : l.task = u /\ r = Admitted(TokenOf(l))
    BY DEF Fetches, Leased
  <1>6. LeaseIsWithClient'
    <2> SUFFICES ASSUME NEW l \in active
                 PROVE  \/ client'[l.task] \in Holding /\ token'[l.task] = Admitted(TokenOf(l))
                        \/ /\ client'[l.task] \in Undecided
                           /\ pending'[Own(l.task)] = Admitted(TokenOf(l))
      BY DEF Fetches, LeaseIsWithClient
    <2>0. l.task \in Tasks
      BY <1>0 DEF TypeOK, Lease
    <2>1. CASE l.task = t
      <3>1. answer = Admitted(TokenOf(l))
        BY <2>1 DEF Fetches
      <3>2. Holds(answer)
        BY <3>1, ResultKinds
      <3> QED BY <1>1, <2>1, <3>1, <3>2
    <2>2. CASE l.task # t
      <3>1. Own(l.task) \in Keys /\ Own(l.task) # Own(t)
        BY <2>0, <2>2, OwnKeys
      <3>2. pending'[Own(l.task)] = pending[Own(l.task)]
        BY <3>1 DEF Fetches
      <3>3. ~(call.op = "poll" /\ call.key = Own(l.task))
        BY <3>1 DEF Fetches
      <3> QED BY <1>1, <2>0, <2>2, <3>2, <3>3 DEF ClientInv, LeaseIsWithClient
    <2> QED BY <2>1, <2>2
  <1>7. HeldIsLeased'
    <2> SUFFICES ASSUME NEW u \in Tasks, client'[u] \in Holding
                 PROVE  Leased(u, token'[u])
      BY <1>5 DEF HeldIsLeased, Leased
    <2>1. CASE u = t
      <3>1. Holds(answer)
        BY <1>2, <2>1 DEF Holding
      <3> QED BY <1>1, <2>1, <3>1 DEF Fetches
    <2>2. CASE u # t
      BY <1>1, <2>2 DEF ClientInv, HeldIsLeased
    <2> QED BY <2>1, <2>2
  <1>8. KeptIsLeased'
    <2> SUFFICES ASSUME NEW k \in Keys, Holds(pending'[k])
                 PROVE  /\ k = Own(k[1]) /\ client'[k[1]] \in Undecided
                        /\ Leased(k[1], pending'[k])
      BY <1>5 DEF KeptIsLeased, Leased
    <2>1. k # Own(t) /\ pending'[k] = pending[k]
      BY ResultKinds DEF Fetches
    <2>2. k = Own(k[1]) /\ client[k[1]] \in Undecided /\ Leased(k[1], pending[k])
      BY <2>1 DEF ClientInv, KeptIsLeased
    <2>3. k[1] \in Tasks /\ k[1] # t
      BY <2>1, <2>2 DEF Keys
    <2> QED BY <1>1, <2>1, <2>2, <2>3
  <1>9. QueuedIsUndecided'
    <2> SUFFICES ASSUME NEW k \in queuedAttempts
                 PROVE  k = Own(k[1]) /\ client'[k[1]] \in Undecided \ {"reclaiming"}
      BY DEF QueuedIsUndecided, Fetches
    <2>1. k = Own(k[1]) /\ client[k[1]] \in Undecided \ {"reclaiming"} /\ k[1] \in Tasks
      BY <1>0 DEF ClientInv, QueuedIsUndecided, TypeOK, Keys
    <2>2. CASE k[1] = t
      <3>1. k = Own(t) /\ client[t] # "reclaiming"
        BY <2>1, <2>2
      <3>2. answer \in {None, Queued}
        BY <1>0, <3>1, ResultKinds DEF Fetches
      <3> QED BY <1>1, <2>1, <2>2, <3>1, <3>2 DEF Undecided
    <2>3. CASE k[1] # t
      BY <1>1, <2>1, <2>3
    <2> QED BY <2>2, <2>3
  <1>10. PollIsClients'
    BY DEF Fetches, PollIsClients
  <1>11. TokensDelivered'
    <2> SUFFICES ASSUME NEW u \in Tasks, Holds(token'[u])
                 PROVE  token'[u].token \in delivered'
      BY DEF TokensDelivered
    <2>1. CASE u = t /\ Holds(answer)
      BY <1>1, <2>1 DEF Fetches, TokensIn, Holds
    <2>2. CASE ~(u = t /\ Holds(answer))
      BY <1>1, <2>2 DEF Fetches, ClientInv, TokensDelivered
    <2> QED BY <2>1, <2>2
  <1> QED BY <1>1, <1>4, <1>6, <1>7, <1>8, <1>9, <1>10, <1>11 DEF ClientInv

\* A kept result is fetched.
LEMMA PollTakesKeeps ==
    ASSUME RuntimeInv, ClientInv, NEW t \in Tasks, PollTakes(t)
    PROVE  ClientInv'
  <1> DEFINE k == Own(t)
             answer == pending[Own(t)]
  <1>0. k \in Keys /\ k[1] = t /\ pending \in [Keys -> RuntimeAdmission \cup {None}]
    BY OwnKeys DEF RuntimeInv, TypeOK
  <1>1. /\ client[t] \in {"waiting", "reclaiming"} /\ Free
        /\ pending' = [pending EXCEPT ![k] = None]
        /\ delivered' = delivered \cup TokensIn(answer)
        /\ Receives(t, answer)
        /\ UNCHANGED <<status, attempt, active, queuedAttempts, call>>
    BY DEF PollTakes, Polls, PollRetained, ledgerVars, admissionVars
  <1>2. answer \in RuntimeAdmission \cup {None} /\ call.op = "idle"
    BY <1>0, <1>1 DEF Free
  <1>3. pending'[k] = None /\ \A j \in Keys : j # k => pending'[j] = pending[j]
    BY <1>0, <1>1
  <1>4. \A l \in active : l.task = t => answer = Admitted(TokenOf(l))
    BY <1>1, <1>2 DEF ClientInv, LeaseIsWithClient, Holding
  <1>5. Holds(answer) => Leased(t, answer)
    BY <1>0 DEF ClientInv, KeptIsLeased
  <1>6. /\ answer = Queued => k \in queuedAttempts
        /\ answer = Rejected \/ Holds(answer) => k \notin queuedAttempts
    BY <1>0, ResultsDiffer DEF RuntimeInv, PendingMatchesQueue, Holds
  <1> HIDE DEF k, answer
  <1>7. Fetches(t, answer)
    BY <1>1, <1>2, <1>3, <1>4, <1>5, <1>6 DEF Fetches, k
  <1> QED BY <1>7, FetchKeeps

\* A poll that has drained the queue answers its caller.
LEMMA PollEndsKeeps ==
    ASSUME RuntimeInv, ClientInv, PollEnds
    PROVE  ClientInv'
  <1>1. PICK t, answer : t = call.key[1] /\ answer = call.target
    OBVIOUS
  <1>2. /\ call.op = "poll" /\ call' = Idle
        /\ delivered' = delivered \cup TokensIn(answer)
        /\ Receives(t, answer)
        /\ UNCHANGED <<status, attempt, active, queuedAttempts, pending>>
    BY <1>1 DEF PollEnds, PollReturn, ledgerVars, admissionVars
  <1>3. /\ t \in Tasks /\ call.key = Own(t) /\ client[t] \in {"waiting", "reclaiming"}
        /\ pending[Own(t)] = None
        /\ answer = Queued => Own(t) \in queuedAttempts
        /\ answer.kind \in {"Rejected", "Admitted"} => Own(t) \notin queuedAttempts
        /\ Holds(answer) => Leased(t, answer)
    BY <1>1, <1>2 DEF ClientInv, PollIsClients
  <1>4. answer \in RuntimeAdmission \cup {None} /\ call'.op = "idle"
    BY <1>1, <1>2 DEF RuntimeInv, TypeOK, Calls, Idle
  <1>5. \A l \in active : l.task = t => answer = Admitted(TokenOf(l))
    <2>1. \A l : None # Admitted(TokenOf(l))
      BY ResultsDiffer
    <2> QED BY <1>1, <1>3, <2>1 DEF ClientInv, LeaseIsWithClient, Holding
  <1>6. answer = Rejected \/ Holds(answer) => Own(t) \notin queuedAttempts
    BY <1>3, ResultsDiffer DEF Holds
  <1>7. Fetches(t, answer)
    BY <1>2, <1>3, <1>4, <1>5, <1>6 DEF Fetches
  <1> QED BY <1>3, <1>7, FetchKeeps

\* submit answers a new client.
LEMMA AcquireKeeps ==
    ASSUME RuntimeInv, ClientInv, NEW t \in Tasks, NEW shape \in Shapes, NEW now,
           AcquireTask(t, shape, now)
    PROVE  ClientInv'
  <1>0. TypeOK /\ ClientTypeOK /\ QueueConsistent
    BY DEF RuntimeInv, ClientInv
  <1>1. PICK r, st, v, answer :
            /\ r = SubmitRequest(t, shape, Never)
            /\ st = [status EXCEPT ![t] = "Ready"]
            /\ v = Verdict(queue, queuedAttempts, r, now, "Initial")
            /\ answer = Result(r, v)
    OBVIOUS
  <1>2. Never \in HardDeadlines /\ Submit(t, shape, Never, now) /\ client[t] = "new"
    BY ClientAssumption DEF AcquireTask
  <1>3. AdmissionStep(queue, queuedAttempts, st, r, now, "Initial")
    BY <1>0, <1>1, <1>2, SubmitAdmission
  <1>4. shape.deadline \in Nat /\ shape.deadline <= Never
    BY AdmissionAssumption, NeverIsInstant DEF Instants, Never
  <1>5. r = Request(t, attempt[t], shape, shape.deadline)
    BY <1>1, <1>4 DEF SubmitRequest, Earlier
  <1>6. /\ r.task = t /\ r.attempt = 1 /\ Key(r) = Own(t) /\ r \in ResourceRequest
    BY <1>3, <1>5 DEF AdmissionStep, Request, Key, Own, ClientInv, FirstAttempts
  <1>7. /\ Receives(t, answer) /\ delivered' = delivered \cup TokensIn(answer)
        /\ Free /\ status[t] = "Absent" /\ UNCHANGED <<pending, call>>
    BY <1>1, <1>2, <1>5 DEF AcquireTask, SubmitAnswer, Submit, SubmitRequest
  <1>8. answer \in RuntimeAdmission /\ answer # None
    BY <1>0, <1>1, <1>6, ResultType, TypeParts, ResultsDiffer
  <1>9. /\ ClientTypeOK'
        /\ \A u \in Tasks : u # t => client'[u] = client[u] /\ token'[u] = token[u]
        /\ Holds(answer) => client'[t] \in Holding /\ token'[t] = answer
        /\ ~Holds(answer) => token'[t] = token[t]
        /\ answer = Rejected => client'[t] = "failed"
        /\ answer = Queued => client'[t] = "waiting"
    BY <1>0, <1>2, <1>7, <1>8, Answers
  <1>10. /\ \/ v = "Admitted" /\ AdmissionGrants(queuedAttempts, r)
            \/ v = "Queued" /\ AdmissionWaits(queuedAttempts, st, r)
            \/ v = "Rejected" /\ AdmissionFails(queuedAttempts, st)
         /\ attempt' = attempt /\ status'[t] \in {"Ready", "Running"}
         /\ \A u \in Tasks : u # t => status'[u] = status[u]
    BY <1>0, <1>1, <1>3, <1>6, AdmissionCases, FirstAdmission
  <1>11. /\ \/ /\ answer = Admitted(TokenOf(NewLease(r)))
               /\ active' = active \cup {NewLease(r)} /\ queuedAttempts' = queuedAttempts
            \/ /\ answer = Queued /\ active' = active
               /\ queuedAttempts' = queuedAttempts \cup {Own(t)}
            \/ answer = Rejected /\ UNCHANGED <<active, queuedAttempts>>
    BY <1>1, <1>6, <1>10 DEF Result, AdmissionGrants, AdmissionWaits, AdmissionFails
  <1>12. NewLease(r).task = t /\ \A l \in active : l.task \in Tasks /\ l.task # t
    BY <1>6, <1>7 DEF NewLease, RuntimeInv, RunningIffLeased, TypeOK, Lease
  <1>13. client'[t] # "new"
    BY <1>9, <1>11, ResultKinds DEF Holding
  <1>14. FirstAttempts'
    BY <1>9, <1>10, <1>13 DEF ClientInv, FirstAttempts
  <1>15. LeaseIsWithClient'
    <2> SUFFICES ASSUME NEW l \in active'
                 PROVE  \/ client'[l.task] \in Holding /\ token'[l.task] = Admitted(TokenOf(l))
                        \/ /\ client'[l.task] \in Undecided
                           /\ pending[Own(l.task)] = Admitted(TokenOf(l))
                        \/ /\ call.op = "poll" /\ call.key = Own(l.task)
                           /\ call.target = Admitted(TokenOf(l))
      BY <1>7 DEF LeaseIsWithClient
    <2>1. CASE l \in active
      BY <1>9, <1>12, <2>1 DEF ClientInv, LeaseIsWithClient
    <2>2. CASE l = NewLease(r) /\ answer = Admitted(TokenOf(l))
      BY <1>9, <1>12, <2>2, ResultKinds
    <2> QED BY <1>11, <2>1, <2>2
  <1>16. active \subseteq active'
    BY <1>11
  <1>17. \A u, x : Leased(u, x) => \E l \in active' : l.task = u /\ x = Admitted(TokenOf(l))
    BY <1>16 DEF Leased
  <1>18. HeldIsLeased'
    <2> SUFFICES ASSUME NEW u \in Tasks, client'[u] \in Holding
                 PROVE  \E l \in active' : l.task = u /\ token'[u] = Admitted(TokenOf(l))
      BY DEF HeldIsLeased, Leased
    <2>1. CASE u = t
      <3>1. client'[t] \notin {"failed", "waiting"}
        BY <2>1 DEF Holding
      <3>2. answer = Admitted(TokenOf(NewLease(r))) /\ NewLease(r) \in active'
        BY <1>9, <1>11, <3>1
      <3> QED BY <1>9, <1>12, <2>1, <3>2, ResultKinds
    <2>2. CASE u # t
      BY <1>9, <1>17, <2>2 DEF ClientInv, HeldIsLeased
    <2> QED BY <2>1, <2>2
  <1>19. \A u \in Tasks : client[u] \in Undecided => u # t
    BY <1>2 DEF Undecided
  <1>20. KeptIsLeased'
    <2> SUFFICES ASSUME NEW k \in Keys, Holds(pending[k])
                 PROVE  /\ k = Own(k[1]) /\ client'[k[1]] \in Undecided
                        /\ \E l \in active' : l.task = k[1] /\ pending[k] = Admitted(TokenOf(l))
      BY <1>7 DEF KeptIsLeased, Leased
    <2>1. k = Own(k[1]) /\ client[k[1]] \in Undecided /\ Leased(k[1], pending[k])
          /\ k[1] \in Tasks
      BY DEF ClientInv, KeptIsLeased, Keys
    <2> QED BY <1>9, <1>17, <1>19, <2>1
  <1>21. QueuedIsUndecided'
    <2> SUFFICES ASSUME NEW k \in queuedAttempts'
                 PROVE  k = Own(k[1]) /\ client'[k[1]] \in Undecided \ {"reclaiming"}
      BY DEF QueuedIsUndecided
    <2>1. CASE k \in queuedAttempts
      <3>1. k = Own(k[1]) /\ client[k[1]] \in Undecided \ {"reclaiming"} /\ k[1] \in Tasks
        BY <1>0, <2>1 DEF ClientInv, QueuedIsUndecided, TypeOK, Keys
      <3> QED BY <1>9, <1>19, <3>1
    <2>2. CASE k = Own(t) /\ answer = Queued
      BY <1>9, <2>2, OwnKeys DEF Undecided
    <2> QED BY <1>11, <2>1, <2>2
  <1>22. PollIsClients'
    BY <1>7 DEF Free, PollIsClients
  <1>23. TokensDelivered'
    <2> SUFFICES ASSUME NEW u \in Tasks, Holds(token'[u])
                 PROVE  token'[u].token \in delivered'
      BY DEF TokensDelivered
    <2>1. CASE u = t /\ Holds(answer)
      BY <1>7, <1>9, <2>1 DEF TokensIn, Holds
    <2>2. CASE ~(u = t /\ Holds(answer))
      BY <1>7, <1>9, <2>2 DEF ClientInv, TokensDelivered
    <2> QED BY <2>1, <2>2
  <1> QED BY <1>9, <1>14, <1>15, <1>18, <1>20, <1>21, <1>22, <1>23 DEF ClientInv

\* A poll begins with nothing kept for its client.
LEMMA PollBeginsKeeps ==
    ASSUME RuntimeInv, ClientInv, NEW t \in Tasks, NEW now, PollBegins(t, now)
    PROVE  ClientInv'
  <1>1. /\ client[t] \in {"waiting", "reclaiming"} /\ Free /\ pending[Own(t)] = None
        /\ call' = Polling(Own(t), Len(queue), now)
        /\ UNCHANGED <<status, attempt, active, queuedAttempts, pending, delivered,
                       client, token>>
    BY DEF PollBegins, Polls, PollStart, ledgerVars, admissionVars, callerVars, clientVars
  <1>2. call'.op = "poll" /\ call'.key = Own(t) /\ call'.target = None
    BY <1>1 DEF Polling, Idle
  <1>3. /\ ClientTypeOK' /\ FirstAttempts' /\ HeldIsLeased' /\ KeptIsLeased'
        /\ QueuedIsUndecided' /\ TokensDelivered'
    BY <1>1 DEF ClientInv, ClientTypeOK, FirstAttempts, HeldIsLeased, KeptIsLeased,
                QueuedIsUndecided, TokensDelivered, Leased
  <1>4. LeaseIsWithClient'
    BY <1>1 DEF ClientInv, LeaseIsWithClient, Free
  <1>5. PollIsClients'
    BY <1>1, <1>2, OwnKeys, ResultKinds, ResultsDiffer DEF PollIsClients, Holds
  <1> QED BY <1>3, <1>4, <1>5 DEF ClientInv

\* No entry is ever dropped as dead: that is the fate of a retry.
LEMMA NothingIsDropped ==
    ASSUME RuntimeInv, ClientInv
    PROVE  ~DrainDrop
  <1> SUFFICES ASSUME DrainDrop PROVE FALSE
    OBVIOUS
  <1>1. queue # <<>> /\ HeadIsDead(Head(queue)) /\ TypeOK /\ QueueConsistent
    BY DEF DrainDrop, Draining, RuntimeInv
  <1>2. /\ Head(queue).task \in Tasks
        /\ \/ QueuedAttemptKind(Head(queue)) = "Initial"
           \/ status[Head(queue).task] = "RetryWait"
    BY <1>1, HeadExpected
  <1> QED BY <1>1, <1>2 DEF HeadIsDead, ClientInv, FirstAttempts

\* The drain puts the head of the queue, some client's, through admission.
LEMMA DrainKeeps ==
    ASSUME RuntimeInv, ClientInv, DrainAdmit, UNCHANGED clientVars
    PROVE  ClientInv'
  <1>0. /\ TypeOK /\ ClientTypeOK /\ QueueConsistent /\ call \in Calls
        /\ pending \in [Keys -> RuntimeAdmission \cup {None}]
        /\ client' = client /\ token' = token
    BY DEF RuntimeInv, ClientInv, TypeOK, clientVars
  <1>1. PICK r, idx, v, left, result :
            /\ r = Head(queue) /\ idx = PopHead(r)
            /\ v = Verdict(Tail(queue), idx, r, call.now, QueuedAttemptKind(r))
            /\ left = IF v = "Queued" THEN 0 ELSE call.left - 1
            /\ result = Result(r, v)
    OBVIOUS
  <1>2. /\ queue # <<>> /\ call.op = "poll" /\ call.left > 0
        /\ Deliver(Key(r), result, left) /\ delivered' = delivered
    BY <1>1 DEF DrainAdmit, Draining, callerVars
  <1>3. PICK t : t = r.task
    OBVIOUS
  <1>4. /\ t \in Tasks /\ r \in ResourceRequest /\ Key(r) \in queuedAttempts
        /\ idx = queuedAttempts \ {Key(r)} /\ Key(r)[1] = t
        /\ status[t] \in {"Ready", "RetryWait"}
        /\ \/ QueuedAttemptKind(r) = "Initial"
           \/ status[t] = "RetryWait"
    BY <1>0, <1>1, <1>2, <1>3, HeadExpected DEF PopHead, Key
  <1>5. /\ Key(r) = Own(t) /\ client[t] \in Undecided \ {"reclaiming"}
        /\ QueuedAttemptKind(r) = "Initial" /\ Own(t) \in queuedAttempts
        /\ idx = queuedAttempts \ {Own(t)}
    BY <1>4 DEF ClientInv, QueuedIsUndecided, FirstAttempts
  <1>6. AdmissionStep(Tail(queue), idx, status, r, call.now, "Initial")
    BY <1>0, <1>1, <1>5, DrainAdmission
  <1>7. /\ \/ v = "Admitted" /\ AdmissionGrants(idx, r)
           \/ v = "Queued" /\ AdmissionWaits(idx, status, r)
           \/ v = "Rejected" /\ AdmissionFails(idx, status)
        /\ attempt' = attempt /\ status'[t] \in {"Ready", "Running"}
        /\ \A u \in Tasks : u # t => status'[u] = status[u]
    BY <1>0, <1>1, <1>3, <1>5, <1>6, AdmissionCases, FirstAdmission
  <1>8. \/ /\ result = Admitted(TokenOf(NewLease(r)))
           /\ active' = active \cup {NewLease(r)}
           /\ queuedAttempts' = queuedAttempts \ {Own(t)}
        \/ /\ result = Queued /\ left = 0 /\ active' = active
           /\ queuedAttempts' = queuedAttempts
        \/ /\ result = Rejected /\ active' = active
           /\ queuedAttempts' = queuedAttempts \ {Own(t)}
    <2>1. (queuedAttempts \ {Own(t)}) \cup {Own(t)} = queuedAttempts
      BY <1>5
    <2> QED BY <1>1, <1>5, <1>7, <2>1
            DEF Result, AdmissionGrants, AdmissionWaits, AdmissionFails
  <1>9. NewLease(r).task = t /\ \A l \in active : l.task \in Tasks /\ l.task # t
    BY <1>3, <1>4 DEF NewLease, RuntimeInv, RunningIffLeased, TypeOK, Lease
  <1>10. /\ call.key[1] \in Tasks /\ call.key = Own(call.key[1])
         /\ client[call.key[1]] \in {"waiting", "reclaiming"} /\ pending[call.key] = None
         /\ call.target = Queued => call.left = 0 /\ call.key \in queuedAttempts
         /\ call.target.kind \in {"Rejected", "Admitted"} => call.key \notin queuedAttempts
         /\ Holds(call.target) => Leased(call.key[1], call.target)
    BY <1>2 DEF ClientInv, PollIsClients
  <1>11. Own(t) = call.key => call.target = None
    <2>1. call.target \in RuntimeAdmission \cup {None} /\ call.left \in Nat
      BY <1>0 DEF Calls
    <2>2. call.target # Queued
      BY <1>2, <1>10, <2>1
    <2> QED BY <1>5, <1>10, <2>1, <2>2, ResultKinds, ResultsDiffer DEF Holds
  <1>12. /\ call'.op = "poll" /\ call'.key = call.key /\ call'.left = left
         /\ \/ /\ Own(t) = call.key /\ call.target = None
               /\ call'.target = result /\ pending' = pending
            \/ /\ Own(t) # call.key /\ call'.target = call.target
               /\ pending' = [pending EXCEPT ![Own(t)] = result]
    BY <1>0, <1>2, <1>5, <1>11 DEF Deliver, Calls
  <1>13. Own(t) \in Keys
    BY <1>4, OwnKeys
  <1>14. \A u, x : Leased(u, x) => Leased(u, x)'
    BY <1>8 DEF Leased
  <1>15. Holds(result) => Leased(t, result)'
    BY <1>8, <1>9, ResultKinds DEF Leased
  <1>16. ClientTypeOK' /\ TokensDelivered'
    BY <1>0, <1>2 DEF ClientInv, ClientTypeOK, TokensDelivered
  <1>17. FirstAttempts'
    <2>1. client[t] # "new"
      BY <1>5 DEF Undecided
    <2> QED BY <1>0, <1>7, <2>1 DEF ClientInv, FirstAttempts
  <1>18. \A u \in Tasks : u # t => Own(u) \in Keys /\ Own(u) # Own(t)
                                   /\ pending'[Own(u)] = pending[Own(u)]
    BY <1>0, <1>12, <1>13, OwnKeys
  <1>19. LeaseIsWithClient'
    <2> SUFFICES ASSUME NEW l \in active'
                 PROVE  \/ client[l.task] \in Holding /\ token[l.task] = Admitted(TokenOf(l))
                        \/ /\ client[l.task] \in Undecided
                           /\ pending'[Own(l.task)] = Admitted(TokenOf(l))
                        \/ /\ call'.op = "poll" /\ call'.key = Own(l.task)
                           /\ call'.target = Admitted(TokenOf(l))
      BY <1>0 DEF LeaseIsWithClient
    <2>1. CASE l \in active
      <3>1. l.task \in Tasks /\ l.task # t
        BY <1>9, <2>1
      <3>2. pending'[Own(l.task)] = pending[Own(l.task)]
        BY <1>18, <3>1
      <3>3. call.key = Own(l.task) => call'.target = call.target
        BY <1>12, <1>18, <3>1
      <3> QED BY <1>12, <2>1, <3>2, <3>3 DEF ClientInv, LeaseIsWithClient
    <2>2. CASE l = NewLease(r) /\ result = Admitted(TokenOf(l))
      BY <1>0, <1>5, <1>9, <1>12, <1>13, <2>2
    <2> QED BY <1>8, <2>1, <2>2
  <1>20. HeldIsLeased'
    <2> SUFFICES ASSUME NEW u \in Tasks, client[u] \in Holding
                 PROVE  Leased(u, token[u])'
      BY <1>0 DEF HeldIsLeased, Leased
    <2>1. Leased(u, token[u])
      BY DEF ClientInv, HeldIsLeased
    <2> QED BY <1>0, <1>8, <2>1 DEF Leased
  <1>21. KeptIsLeased'
    <2> SUFFICES ASSUME NEW k \in Keys, Holds(pending'[k])
                 PROVE  /\ k = Own(k[1]) /\ client[k[1]] \in Undecided
                        /\ \E l \in active' : l.task = k[1] /\ pending'[k] = Admitted(TokenOf(l))
      BY <1>0 DEF KeptIsLeased, Leased
    <2>1. CASE pending'[k] = pending[k]
      BY <1>8, <2>1 DEF ClientInv, KeptIsLeased, Leased
    <2>2. CASE k = Own(t) /\ pending'[k] = result
      BY <1>5, <1>15, <2>2, OwnKeys DEF Leased
    <2> QED BY <1>0, <1>12, <2>1, <2>2
  <1>22. QueuedIsUndecided'
    BY <1>0, <1>8 DEF ClientInv, QueuedIsUndecided
  <1>23. PollIsClients'
    <2>1. CASE Own(t) = call.key /\ call'.target = result /\ pending' = pending
      <3>1. call.key[1] = t
        BY <2>1, OwnKeys
      <3>2. /\ result = Queued => left = 0 /\ Own(t) \in queuedAttempts'
            /\ result.kind \in {"Rejected", "Admitted"} => Own(t) \notin queuedAttempts'
        BY <1>5, <1>8, ResultsDiffer
      <3>3. Holds(result) => \E l \in active' : l.task = t /\ result = Admitted(TokenOf(l))
        BY <1>15 DEF Leased
      <3> QED BY <1>0, <1>10, <1>12, <2>1, <3>1, <3>2, <3>3 DEF PollIsClients, Leased
    <2>2. CASE /\ Own(t) # call.key /\ call'.target = call.target
               /\ pending' = [pending EXCEPT ![Own(t)] = result]
      <3>1. pending'[call.key] = None
        BY <1>0, <1>10, <1>18, <2>2
      <3>2. call.key \in queuedAttempts' <=> call.key \in queuedAttempts
        BY <1>8, <2>2
      <3>3. call.target # Queued
        BY <1>0, <1>2, <1>10 DEF Calls
      <3>4. Holds(call.target) => \E l \in active' : /\ l.task = call.key[1]
                                                     /\ call.target = Admitted(TokenOf(l))
        BY <1>8, <1>10 DEF Leased
      <3> QED BY <1>0, <1>10, <1>12, <2>2, <3>1, <3>2, <3>3, <3>4
              DEF PollIsClients, Leased
    <2> QED BY <1>12, <2>1, <2>2
  <1> QED BY <1>16, <1>17, <1>19, <1>20, <1>21, <1>22, <1>23 DEF ClientInv

\* A client gives up waiting while it is not in a call.
LEMMA GivesUpKeeps ==
    ASSUME RuntimeInv, ClientInv, NEW t \in Tasks, client[t] \in Undecided,
           NEW to \in Undecided, client' = [client EXCEPT ![t] = to],
           call.op = "poll" => call.key # Own(t),
           to = "reclaiming" => Own(t) \notin queuedAttempts,
           UNCHANGED <<vars, token>>
    PROVE  ClientInv'
  <1>0. TypeOK /\ ClientTypeOK
    BY DEF RuntimeInv, ClientInv
  <1>1. /\ client'[t] = to /\ \A u \in Tasks : u # t => client'[u] = client[u]
    BY <1>0 DEF ClientTypeOK
  <1>2. UNCHANGED <<status, attempt, active, queuedAttempts, pending, call, delivered>>
    BY DEF vars, ledgerVars, admissionVars, callerVars
  <1>3. ClientTypeOK' /\ TokensDelivered'
    BY <1>0, <1>2 DEF ClientInv, ClientTypeOK, TokensDelivered, ClientStates
  <1>4. FirstAttempts'
    BY <1>1, <1>2 DEF ClientInv, FirstAttempts, Undecided
  <1>5. LeaseIsWithClient'
    <2>1. \A l \in active : l.task \in Tasks
      BY <1>0 DEF TypeOK, Lease
    <2>2. client[t] \notin Holding
      BY DEF Holding, Undecided
    <2> QED BY <1>1, <1>2, <2>1, <2>2 DEF ClientInv, LeaseIsWithClient
  <1>6. HeldIsLeased'
    <2>1. client'[t] \notin Holding
      BY <1>1 DEF Holding, Undecided
    <2> QED BY <1>1, <1>2, <2>1 DEF ClientInv, HeldIsLeased, Leased
  <1>7. KeptIsLeased'
    <2>1. \A k \in Keys : k[1] \in Tasks
      BY DEF Keys
    <2> QED BY <1>1, <1>2, <2>1 DEF ClientInv, KeptIsLeased, Leased
  <1>8. QueuedIsUndecided'
    <2> SUFFICES ASSUME NEW k \in queuedAttempts
                 PROVE  k = Own(k[1]) /\ client'[k[1]] \in Undecided \ {"reclaiming"}
      BY <1>2 DEF QueuedIsUndecided
    <2>1. k = Own(k[1]) /\ client[k[1]] \in Undecided \ {"reclaiming"} /\ k[1] \in Tasks
      BY <1>0 DEF ClientInv, QueuedIsUndecided, TypeOK, Keys
    <2> QED BY <1>1, <2>1
  <1>9. PollIsClients'
    <2>1. call.op = "poll" => call.key[1] # t /\ call.key[1] \in Tasks
      BY DEF ClientInv, PollIsClients
    <2> QED BY <1>1, <1>2, <2>1 DEF ClientInv, PollIsClients, Leased
  <1> QED BY <1>3, <1>4, <1>5, <1>6, <1>7, <1>8, <1>9 DEF ClientInv

\* A queued client can always cancel: what it cannot cancel is not queued.
LEMMA TooLateIsUnqueued ==
    ASSUME RuntimeInv, ClientInv, NEW t \in Tasks, ~CanCancel(Own(t))
    PROVE  Own(t) \notin queuedAttempts
  <1> SUFFICES ASSUME Own(t) \in queuedAttempts PROVE FALSE
    OBVIOUS
  <1>1. Own(t) \in Keys /\ Own(t)[1] = t /\ Own(t)[2] = 1
    BY OwnKeys
  <1>2. Own(t) \in QueuedKeys /\ Expected(Own(t), status, attempt)
    BY QueueParts DEF RuntimeInv, QueueConsistent, Scheduled
  <1>3. pending[Own(t)].kind # "Admitted"
    BY <1>1 DEF RuntimeInv, PendingMatchesQueue
  <1> QED BY <1>1, <1>2, <1>3 DEF CanCancel, Expected

\* A cancelled queue entry leaves its client with nothing.
LEMMA CancelKeeps ==
    ASSUME RuntimeInv, ClientInv, NEW t \in Tasks, client[t] = "aborting",
           CancelQueued(Own(t)), client' = [client EXCEPT ![t] = "failed"],
           token' = token
    PROVE  ClientInv'
  <1>0. /\ TypeOK /\ ClientTypeOK /\ CoreInv /\ Own(t) \in Keys /\ Own(t)[1] = t
        /\ pending \in [Keys -> RuntimeAdmission \cup {None}]
    BY OwnKeys DEF RuntimeInv, ClientInv, CoreInv, TypeOK
  <1>1. /\ Free /\ pending' = [pending EXCEPT ![Own(t)] = None]
        /\ status' = [status EXCEPT ![t] = "Cancelled"]
        /\ UNCHANGED <<attempt, call, delivered>>
    BY <1>0 DEF CancelQueued, callerVars
  <1>2. QueueEntryEnds(Own(t))
    BY <1>0, CancelEnds
  <1>3. /\ queuedAttempts' = queuedAttempts \ {Own(t)} /\ active' = active
        /\ \A l \in active : l.task # t
    BY <1>0, <1>2 DEF QueueEntryEnds, CoreInv, RunningIffLeased
  <1>4. /\ client'[t] = "failed" /\ \A u \in Tasks : u # t => client'[u] = client[u]
    BY <1>0 DEF ClientTypeOK
  <1>5. /\ pending'[Own(t)] = None
        /\ \A k \in Keys : k # Own(t) => pending'[k] = pending[k]
    BY <1>0, <1>1
  <1>6. ClientTypeOK' /\ TokensDelivered'
    BY <1>0, <1>1 DEF ClientInv, ClientTypeOK, TokensDelivered, ClientStates
  <1>7. FirstAttempts'
    <2>1. status'[t] = "Cancelled" /\ \A u \in Tasks : u # t => status'[u] = status[u]
      BY <1>0, <1>1 DEF TypeOK
    <2> QED BY <1>1, <1>4, <2>1 DEF ClientInv, FirstAttempts
  <1>8. LeaseIsWithClient'
    <2>1. \A l \in active : l.task \in Tasks /\ Own(l.task) \in Keys /\ Own(l.task) # Own(t)
      BY <1>0, <1>3, OwnKeys DEF TypeOK, Lease
    <2> QED BY <1>1, <1>3, <1>4, <1>5, <2>1 DEF ClientInv, LeaseIsWithClient
  <1>9. HeldIsLeased'
    <2>1. client'[t] \notin Holding
      BY <1>4 DEF Holding
    <2> QED BY <1>3, <1>4, <2>1 DEF ClientInv, HeldIsLeased, Leased
  <1>10. KeptIsLeased'
    <2> SUFFICES ASSUME NEW k \in Keys, Holds(pending'[k])
                 PROVE  /\ k = Own(k[1]) /\ client'[k[1]] \in Undecided
                        /\ Leased(k[1], pending'[k])
      BY <1>3 DEF KeptIsLeased, Leased
    <2>1. k # Own(t) /\ pending'[k] = pending[k]
      BY <1>5, ResultKinds
    <2>2. k = Own(k[1]) /\ client[k[1]] \in Undecided /\ Leased(k[1], pending[k])
          /\ k[1] \in Tasks
      BY <2>1 DEF ClientInv, KeptIsLeased, Keys
    <2> QED BY <1>4, <2>1, <2>2
  <1>11. QueuedIsUndecided'
    <2> SUFFICES ASSUME NEW k \in queuedAttempts, k # Own(t)
                 PROVE  k = Own(k[1]) /\ client'[k[1]] \in Undecided \ {"reclaiming"}
      BY <1>3 DEF QueuedIsUndecided
    <2>1. k = Own(k[1]) /\ client[k[1]] \in Undecided \ {"reclaiming"} /\ k[1] \in Tasks
      BY <1>0 DEF ClientInv, QueuedIsUndecided, TypeOK, Keys
    <2> QED BY <1>4, <2>1
  <1>12. PollIsClients'
    BY <1>1 DEF Free, PollIsClients
  <1> QED BY <1>6, <1>7, <1>8, <1>9, <1>10, <1>11, <1>12 DEF ClientInv

\* A step that leaves all of it alone, except for how long a poll still runs.
LEMMA ClientFrame ==
    ASSUME ClientInv, UNCHANGED <<status, attempt, active, queuedAttempts, pending,
                                  delivered, client, token>>,
           call'.op = call.op, call'.key = call.key, call'.target = call.target,
           call'.left = call.left \/ call'.left = 0
    PROVE  ClientInv'
  <1>1. /\ ClientTypeOK' /\ FirstAttempts' /\ LeaseIsWithClient' /\ HeldIsLeased'
        /\ KeptIsLeased' /\ QueuedIsUndecided' /\ TokensDelivered'
    BY DEF ClientInv, ClientTypeOK, FirstAttempts, LeaseIsWithClient, HeldIsLeased,
           KeptIsLeased, QueuedIsUndecided, TokensDelivered, Leased
  <1>2. PollIsClients'
    BY DEF ClientInv, PollIsClients, Leased
  <1> QED BY <1>1, <1>2 DEF ClientInv

\* Every step of the clients keeps the agreement.
LEMMA ClientStep ==
    ASSUME RuntimeInv, ClientInv, [ClientNext]_allVars
    PROVE  ClientInv'
  <1>1. ASSUME NEW t \in Tasks, Abort(t) \/ Interrupt(t)
        PROVE  ClientInv'
    <2>1. PICK to \in {"aborting", "interrupted"} :
              /\ client[t] = "waiting" /\ call.key # Own(t)
              /\ client' = [client EXCEPT ![t] = to] /\ UNCHANGED <<vars, token>>
      BY <1>1 DEF Abort, Interrupt
    <2>2. client[t] \in Undecided /\ to \in Undecided /\ to # "reclaiming"
      BY <2>1 DEF Undecided
    <2> QED BY <2>1, <2>2, GivesUpKeeps
  <1>2. ASSUME NEW t \in Tasks, AbortCancel(t)
        PROVE  ClientInv'
    <2>1. client[t] = "aborting" /\ Free /\ token' = token
      BY <1>2 DEF AbortCancel
    <2>2. CASE CancelQueued(Own(t)) /\ client' = [client EXCEPT ![t] = "failed"]
      BY <2>1, <2>2, CancelKeeps
    <2>3. CASE /\ ~CanCancel(Own(t)) /\ UNCHANGED vars
               /\ client' = [client EXCEPT ![t] = "reclaiming"]
      <3>1. Own(t) \notin queuedAttempts
        BY <2>3, TooLateIsUnqueued
      <3>2. client[t] \in Undecided /\ "reclaiming" \in Undecided
        BY <2>1 DEF Undecided
      <3>3. call.op # "poll"
        BY <2>1 DEF Free
      <3> QED BY <2>1, <2>3, <3>1, <3>2, <3>3, GivesUpKeeps
    <2> QED BY <1>2, <2>2, <2>3 DEF AbortCancel
  <1>3. ASSUME NEW t \in Tasks, GiveBack(t)
        PROVE  ClientInv'
    <2>1. client[t] \in Holding /\ Free
      BY <1>3 DEF GiveBack, FinishLease, Holding
    <2> QED BY <1>3, <2>1, FinishKeeps DEF GiveBack
  <1>4. ASSUME NEW t \in Tasks, NEW outcome \in {"Done", "Failed", "Cancelled"},
               Leave(t, outcome)
        PROVE  ClientInv'
    <2>1. client[t] \in Holding /\ Free
      BY <1>4 DEF Leave, FinishLease, Holding
    <2> QED BY <1>4, <2>1, FinishKeeps DEF Leave
  <1>5. ASSUME PollDrains
        PROVE  ClientInv'
    <2>1. CASE DrainBlocked /\ UNCHANGED clientVars
      <3>1. /\ call' = [call EXCEPT !.left = 0]
            /\ UNCHANGED <<ledgerVars, admissionVars, pending, callerVars>>
        BY <2>1, Zenon DEF DrainBlocked
      <3>2. call \in Calls
        BY DEF RuntimeInv, TypeOK
      <3>4. /\ call'.op = call.op /\ call'.key = call.key
            /\ call'.target = call.target /\ call'.left = 0
        BY <3>1, <3>2 DEF Calls
      <3>3. UNCHANGED <<status, attempt, active, queuedAttempts, pending, delivered,
                        client, token>>
        BY <2>1, <3>1, Zenon DEF ledgerVars, admissionVars, callerVars, clientVars
      <3> QED BY <3>3, <3>4, ClientFrame
    <2>2. CASE DrainAdmit /\ UNCHANGED clientVars
      BY <2>2, DrainKeeps
    <2> QED BY <1>5, <2>1, <2>2, NothingIsDropped, Zenon DEF PollDrains
  <1>6. ASSUME UNCHANGED <<status, attempt, active, queuedAttempts, pending,
                           delivered, client, token, call>>
        PROVE  ClientInv'
    BY <1>6, ClientFrame
  <1>7. ASSUME ObserveResourceSample \/ Tick, UNCHANGED clientVars
        PROVE  ClientInv'
    <2>1. UNCHANGED <<status, attempt, active, queuedAttempts, pending, delivered, call>>
      BY <1>7 DEF ObserveResourceSample, CapacityFeedback, Tick, ledgerVars,
                  admissionVars, callerVars
    <2>2. UNCHANGED <<client, token>>
      BY <1>7 DEF clientVars
    <2> QED BY <1>6, <2>1, <2>2
  <1>8. ASSUME UNCHANGED allVars
        PROVE  ClientInv'
    BY <1>6, <1>8 DEF allVars, vars, ledgerVars, admissionVars, callerVars, clientVars
  <1>9. \A t \in Impatient \cup Interruptible : t \in Tasks
    BY ClientAssumption
  <1>10. ASSUME NEW t \in Tasks, NEW shape \in Shapes, NEW now \in CallerNow,
                AcquireTask(t, shape, now)
         PROVE  ClientInv'
    BY <1>10, AcquireKeeps
  <1>11. ASSUME NEW t \in Tasks, PollTakes(t)
         PROVE  ClientInv'
    BY <1>11, PollTakesKeeps
  <1>12. ASSUME NEW t \in Tasks, NEW now \in CallerNow, PollBegins(t, now)
         PROVE  ClientInv'
    BY <1>12, PollBeginsKeeps
  <1>13. ASSUME PollEnds
         PROVE  ClientInv'
    BY <1>13, PollEndsKeeps
  <1> QED
    BY <1>1, <1>2, <1>3, <1>4, <1>5, <1>7, <1>8, <1>9, <1>10, <1>11, <1>12,
       <1>13, Zenon DEF ClientNext

-----------------------------------------------------------------------------
(* The theorems.                                                           *)

\* The two invariants hold together: each needs the other.
LEMMA ClientInvariant == ClientSpec => [](RuntimeInv /\ ClientInv)
  <1>1. ClientInit => RuntimeInv /\ ClientInv
    <2> SUFFICES ASSUME ClientInit PROVE RuntimeInv /\ ClientInv
      OBVIOUS
    <2>1. RuntimeInv
      BY InitRuntimeInv DEF ClientInit
    <2>2. ClientTypeOK
      BY DEF ClientInit, ClientTypeOK, ClientStates
    <2>3. FirstAttempts /\ LeaseIsWithClient /\ HeldIsLeased
      BY DEF ClientInit, Init, FirstAttempts, LeaseIsWithClient, HeldIsLeased, Holding
    <2>4. KeptIsLeased /\ QueuedIsUndecided /\ TokensDelivered
      BY ResultKinds
         DEF ClientInit, Init, KeptIsLeased, QueuedIsUndecided, TokensDelivered
    <2>5. PollIsClients
      BY DEF ClientInit, Init, Idle, PollIsClients
    <2> QED BY <2>1, <2>2, <2>3, <2>4, <2>5 DEF ClientInv
  <1>2. RuntimeInv /\ ClientInv /\ [ClientNext]_allVars => (RuntimeInv /\ ClientInv)'
    BY ClientStepIsRuntimeStep, ClientStep, RuntimeInvStep
  <1> QED BY <1>1, <1>2, PTL DEF ClientSpec

\* The Python clients use the runtime within its interface: every behaviour of
\* clients that acquire, poll, abort, reclaim and finish is a behaviour of the
\* runtime, and all that is proved of it holds under them.
THEOREM ClientsUseTheRuntime == ClientSpec => Spec
  <1>1. ClientInit => Init
    BY DEF ClientInit
  <1>2. RuntimeInv /\ ClientInv /\ [ClientNext]_allVars => [Next]_vars
    BY ClientStepIsRuntimeStep
  <1> QED BY <1>1, <1>2, ClientInvariant, PTL DEF ClientSpec, Spec

\* An operation runs under a lease in force, and a client that has returned or
\* raised, even one that lost the race between its cancellation and a grant,
\* leaves neither a lease nor a queue entry nor an unfetched token behind.
THEOREM ClientsLeaveNothingBehind == ClientSpec => []ClientHoldsExactly
  <1>1. RuntimeInv /\ ClientInv => ClientHoldsExactly
    <2> SUFFICES ASSUME RuntimeInv, ClientInv PROVE ClientHoldsExactly
      OBVIOUS
    <2>1. HolderHasLease
      BY DEF HolderHasLease, ClientInv, HeldIsLeased, Leased, Holding
    <2>2. ASSUME NEW t \in Tasks, client[t] \in {"done", "failed"}
          PROVE  /\ \A l \in active : l.task # t
                 /\ Own(t) \notin queuedAttempts
                 /\ pending[Own(t)].kind # "Admitted"
      <3>0. Own(t) \in Keys /\ Own(t)[1] = t
        BY OwnKeys
      <3>1. client[t] \notin Holding /\ client[t] \notin Undecided
            /\ client[t] \notin {"waiting", "reclaiming"}
        BY <2>2 DEF Holding, Undecided
      <3>2. \A l \in active : l.task # t
        <4>1. ~(call.op = "poll" /\ call.key = Own(t))
          BY <3>0, <3>1 DEF ClientInv, PollIsClients
        <4> QED BY <3>1, <4>1 DEF ClientInv, LeaseIsWithClient
      <3>3. Own(t) \notin queuedAttempts
        BY <3>0, <3>1 DEF ClientInv, QueuedIsUndecided
      <3>4. pending[Own(t)].kind # "Admitted"
        BY <3>0, <3>1 DEF ClientInv, KeptIsLeased, Holds
      <3> QED BY <3>2, <3>3, <3>4
    <2>3. NothingLeftBehind
      BY <2>2 DEF NothingLeftBehind
    <2> QED BY <2>1, <2>3 DEF ClientHoldsExactly
  <1> QED BY <1>1, ClientInvariant, PTL

=============================================================================
