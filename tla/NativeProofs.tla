---------------------------- MODULE NativeProofs ----------------------------
(***************************************************************************)
(* All that the run of NativeStores checks, proved.  What is recorded,     *)
(* leased and reserved: the store of a conversation loses no update and    *)
(* executes a turn once, distributed work has one holder, the cooperative  *)
(* reservations balance.  The lock excludes, is never leaked and never     *)
(* loses a handoff; the hot engine keeps evidence and answers every seal;  *)
(* the client of a local MCP server keeps its slots and futures.  For any  *)
(* number of clients, turns, workers, attempts, recoveries, loops,         *)
(* acquisitions, payloads, sizes, limits and callers.                      *)
(***************************************************************************)
EXTENDS NativeStores, DataLemmas

-----------------------------------------------------------------------------
(* Revisions.                                                              *)

\* What the comparison of revisions rests on: no client is ahead of the store,
\* and one that is level with it has seen everything.
RevisionInv ==
    /\ revision \in Nat
    /\ expected \in [Clients -> Nat] /\ DOMAIN fresh = Clients
    /\ \A c \in Clients : expected[c] <= revision
    /\ NoLostUpdate

LEMMA RevisionInit == RepositoryInit => RevisionInv
  BY DEF RepositoryInit, RevisionInv, NoLostUpdate

\* A committed transaction leaves the others behind the new revision.
LEMMA CommittedKeepsRevision ==
    ASSUME RevisionInv, NEW c \in Clients, Committed(c)
    PROVE  RevisionInv'
  <1>1. /\ revision' = revision + 1
        /\ \A d \in Clients : expected'[d] = IF d = c THEN revision + 1 ELSE expected[d]
        /\ expected' \in [Clients -> Nat] /\ DOMAIN fresh' = Clients
    BY DEF RevisionInv, Committed
  <1>2. fresh'[c]
    BY Zenon DEF Committed
  <1>3. \A d \in Clients : expected'[d] = revision' => d = c
    BY <1>1 DEF RevisionInv
  <1> QED BY <1>1, <1>2, <1>3 DEF RevisionInv, NoLostUpdate

LEMMA RevisionStep == RevisionInv /\ [RepositoryNext]_repositoryVars => RevisionInv'
  <1> SUFFICES ASSUME RevisionInv, [RepositoryNext]_repositoryVars
               PROVE  RevisionInv'
    OBVIOUS
  <1>1. ASSUME NEW c \in Clients, GetConversation(c)
        PROVE  RevisionInv'
    <2>1. /\ revision' = revision /\ status' = status
          /\ expected' = [expected EXCEPT ![c] = revision]
          /\ fresh' = [d \in DOMAIN fresh |-> IF d = c THEN TRUE ELSE fresh[d]]
          /\ DOMAIN fresh = Clients
      BY <1>1 DEF GetConversation, content, RevisionInv
    <2> QED BY <2>1 DEF RevisionInv, NoLostUpdate
  <1>2. CASE Open
    BY <1>2 DEF Open, RecoveredContent, RevisionInv, NoLostUpdate
  <1>3. CASE UNCHANGED repositoryVars
    BY <1>3 DEF repositoryVars, content, RevisionInv, NoLostUpdate
  <1>4. ASSUME NEW c \in Clients, Committed(c)
        PROVE  RevisionInv'
    BY <1>4, CommittedKeepsRevision
  <1> QED
    BY <1>1, <1>2, <1>3, <1>4, ZenonT(60)
       DEF RepositoryNext, CreateConversation, AppendTurn, AppendTurnPart, TransitionTurn,
           StartExecution, CheckpointExecution, FinishExecution, RecordToolCall,
           RecordToolResult, ReconcileToolCall, SwitchModel, SetStatus

\* A client whose transaction passes the comparison of revisions has seen every
\* write of the others and every recovery (append_turn and all that compare).
THEOREM UpdatesAreSeen == RepositorySpec => []NoLostUpdate
  <1>1. RevisionInv => NoLostUpdate
    BY DEF RevisionInv
  <1> QED BY <1>1, RevisionInit, RevisionStep, PTL DEF RepositorySpec

-----------------------------------------------------------------------------
(* Turns and executions.                                                   *)

TurnRow == [role : Roles, status : Pending \cup Settled,
            execution : Executions \cup {NoExecution}, finished : BOOLEAN]

ExecutionRow == [turn : DOMAIN turns, status : {"RUNNING"} \cup Settled, checkpoint : Nat]

\* The rows of turns and executions as the tables type them.
RowsTyped ==
    /\ \A t \in DOMAIN turns : turns[t] \in TurnRow
    /\ \A e \in DOMAIN executions : executions[e] \in ExecutionRow

\* What an UPDATE of a turn changes and keeps.
WithStatus(row, s, done) == [row EXCEPT !.status = s, !.finished = done]
Finished(row, s) == [row EXCEPT !.status = s, !.finished = TRUE]
WithExecution(row, e) == [row EXCEPT !.status = "RUNNING", !.execution = e]

LEMMA TurnUpdate ==
    ASSUME NEW row \in TurnRow, NEW s \in Pending \cup Settled, NEW done \in BOOLEAN
    PROVE  /\ WithStatus(row, s, done) \in TurnRow
           /\ WithStatus(row, s, done).execution = row.execution
           /\ WithStatus(row, s, done).status = s
  BY DEF TurnRow, WithStatus

LEMMA TurnFinish ==
    ASSUME NEW row \in TurnRow, NEW s \in Settled
    PROVE  /\ Finished(row, s) \in TurnRow
           /\ Finished(row, s).execution = row.execution
           /\ Finished(row, s).status = s
  BY DEF TurnRow, Finished

LEMMA TurnStart ==
    ASSUME NEW row \in TurnRow, NEW e \in Executions
    PROVE  WithExecution(row, e) \in TurnRow /\ WithExecution(row, e).execution = e
  BY DEF TurnRow, Pending, WithExecution

\* Recovery settles every turn and every execution.
LEMMA TurnRecovery ==
    ASSUME NEW row \in TurnRow
    PROVE  /\ RecoveredTurn(row) \in TurnRow
           /\ RecoveredTurn(row).execution = row.execution
           /\ RecoveredTurn(row).status \in Settled
  <1>1. CASE row.status \in Pending
    <2>1. RecoveredTurn(row) = Finished(row, "INTERRUPTED")
      BY <1>1 DEF RecoveredTurn, Finished
    <2>2. "INTERRUPTED" \in Settled
      BY DEF Settled
    <2> QED BY <2>1, <2>2, TurnFinish
  <1>2. CASE row.status \notin Pending
    BY <1>2 DEF RecoveredTurn, TurnRow
  <1> QED BY <1>1, <1>2

LEMMA ExecutionRecovery ==
    ASSUME NEW row \in ExecutionRow
    PROVE  /\ RecoveredExecution(row) \in ExecutionRow
           /\ RecoveredExecution(row).turn = row.turn
  BY DEF RecoveredExecution, ExecutionRow, Settled

ExecutionInv == RowsTyped /\ OneExecutionPerTurn

LEMMA ExecutionInit == RepositoryInit => ExecutionInv
  BY DEF RepositoryInit, ExecutionInv, RowsTyped, OneExecutionPerTurn

LEMMA ExecutionStep == ExecutionInv /\ [RepositoryNext]_repositoryVars => ExecutionInv'
  <1> SUFFICES ASSUME ExecutionInv, [RepositoryNext]_repositoryVars
               PROVE  ExecutionInv'
    OBVIOUS
  <1> USE DEF ExecutionInv
  <1>1. ASSUME NEW c \in Clients, NEW t \in Turns, NEW role \in Roles,
               NEW s \in Pending \cup Settled, AppendTurn(c, t, role, s)
        PROVE  ExecutionInv'
    <2>1. /\ t \notin DOMAIN turns
          /\ DOMAIN turns' = DOMAIN turns \cup {t}
          /\ turns'[t] \in TurnRow
          /\ \A u \in DOMAIN turns : turns'[u] = turns[u]
          /\ executions' = executions
      BY <1>1 DEF AppendTurn, Put, Finishes, TurnRow
    <2> QED BY <2>1 DEF RowsTyped, ExecutionRow, OneExecutionPerTurn
  <1>2. ASSUME NEW c \in Clients, NEW t \in Turns, NEW s \in Pending \cup Settled,
               TransitionTurn(c, t, s)
        PROVE  ExecutionInv'
    <2>1. /\ t \in DOMAIN turns /\ turns[t].status \notin Settled
          /\ DOMAIN turns' = DOMAIN turns
          /\ turns'[t] = WithStatus(turns[t], s, Finishes(s))
          /\ \A u \in DOMAIN turns \ {t} : turns'[u] = turns[u]
          /\ executions' = executions
      BY <1>2 DEF TransitionTurn, TurnTransitionAllowed, Settled, WithStatus
    <2>2. Finishes(s) \in BOOLEAN
      BY DEF Finishes
    <2>3. /\ turns'[t] \in TurnRow /\ turns'[t].execution = turns[t].execution
      BY <2>1, <2>2, TurnUpdate DEF RowsTyped
    <2>4. RowsTyped'
      BY <2>1, <2>3 DEF RowsTyped, ExecutionRow
    <2>5. OneExecutionPerTurn'
      BY <2>1, <2>3 DEF RowsTyped, ExecutionRow, OneExecutionPerTurn
    <2> QED BY <2>4, <2>5
  <1>3. ASSUME NEW c \in Clients, NEW e \in Executions, NEW t \in Turns,
               StartExecution(c, e, t)
        PROVE  ExecutionInv'
    <2>1. /\ t \in DOMAIN turns /\ turns[t].status \notin Settled
          /\ e \notin DOMAIN executions
          /\ \A x \in DOMAIN executions :
                executions[x].turn = t => executions[x].status # "RUNNING"
          /\ DOMAIN turns' = DOMAIN turns
          /\ turns'[t] = WithExecution(turns[t], e)
          /\ \A u \in DOMAIN turns \ {t} : turns'[u] = turns[u]
          /\ DOMAIN executions' = DOMAIN executions \cup {e}
          /\ executions'[e] = [turn |-> t, status |-> "RUNNING", checkpoint |-> 0]
          /\ \A x \in DOMAIN executions : executions'[x] = executions[x]
      BY <1>3 DEF StartExecution, Settled, Put, WithExecution
    <2>2. \A x \in DOMAIN executions : executions[x].turn # t
      BY <2>1 DEF OneExecutionPerTurn
    <2>3. turns'[t] \in TurnRow /\ turns'[t].execution = e
      BY <2>1, TurnStart DEF RowsTyped
    <2>4. RowsTyped'
      BY <2>1, <2>3 DEF RowsTyped, ExecutionRow
    <2>5. OneExecutionPerTurn'
      BY <2>1, <2>2, <2>3 DEF RowsTyped, ExecutionRow, OneExecutionPerTurn
    <2> QED BY <2>4, <2>5
  <1>4. ASSUME NEW c \in Clients, NEW e \in Executions, NEW n \in 1 .. MaxRevision,
               CheckpointExecution(c, e, n)
        PROVE  ExecutionInv'
    <2>1. /\ e \in DOMAIN executions /\ n = executions[e].checkpoint + 1
          /\ turns' = turns
          /\ DOMAIN executions' = DOMAIN executions
          /\ executions'[e] = [executions[e] EXCEPT !.checkpoint = n]
          /\ \A x \in DOMAIN executions \ {e} : executions'[x] = executions[x]
      BY <1>4 DEF CheckpointExecution
    <2>2. n \in Nat
      BY RepositoryAssumption
    <2>3. RowsTyped'
      BY <2>1, <2>2 DEF RowsTyped, ExecutionRow
    <2>4. \A x \in DOMAIN executions :
             executions'[x].turn = executions[x].turn
             /\ executions'[x].status = executions[x].status
      BY <2>1, <2>2 DEF RowsTyped, ExecutionRow
    <2> QED BY <2>1, <2>3, <2>4 DEF OneExecutionPerTurn
  <1>5. ASSUME NEW c \in Clients, NEW e \in Executions, NEW s \in Settled,
               FinishExecution(c, e, s)
        PROVE  ExecutionInv'
    <2> DEFINE t == executions[e].turn
    <2>1. /\ e \in DOMAIN executions
          /\ DOMAIN turns' = DOMAIN turns
          /\ turns' = [turns EXCEPT ![t].status = s, ![t].finished = TRUE]
          /\ DOMAIN executions' = DOMAIN executions
          /\ executions'[e] = [executions[e] EXCEPT !.status = s]
          /\ \A x \in DOMAIN executions \ {e} : executions'[x] = executions[x]
      BY <1>5 DEF FinishExecution
    <2>2. t \in DOMAIN turns
      BY <2>1 DEF RowsTyped, ExecutionRow
    <2>3. /\ turns'[t] = Finished(turns[t], s)
          /\ \A u \in DOMAIN turns \ {t} : turns'[u] = turns[u]
      BY <2>1, <2>2 DEF Finished
    <2>4. /\ turns'[t] \in TurnRow
          /\ turns'[t].execution = turns[t].execution /\ turns'[t].status = s
      BY <2>2, <2>3, TurnFinish DEF RowsTyped
    <2>5. /\ executions'[e].turn = t
          /\ \A x \in DOMAIN executions :
                executions'[x] \in ExecutionRow /\ executions'[x].turn = executions[x].turn
      BY <2>1 DEF RowsTyped, ExecutionRow
    <2>6. RowsTyped'
      BY <2>1, <2>3, <2>4, <2>5 DEF RowsTyped, ExecutionRow
    <2>7. ASSUME NEW x \in DOMAIN executions
          PROVE  /\ turns'[executions'[x].turn].execution = x
                 /\ executions'[x].status # "RUNNING"
                       => turns'[executions'[x].turn].status \in Settled
      <3>1. executions[x].turn \in DOMAIN turns /\ turns[executions[x].turn].execution = x
        BY DEF RowsTyped, ExecutionRow, OneExecutionPerTurn
      <3>2. CASE executions[x].turn = t
        BY <2>4, <2>5, <3>1, <3>2
      <3>3. CASE executions[x].turn # t
        <4>1. x # e /\ executions'[x] = executions[x]
          BY <2>1, <3>3
        <4> QED BY <2>3, <3>1, <3>3, <4>1 DEF OneExecutionPerTurn
      <3> QED BY <3>2, <3>3
    <2> QED BY <2>1, <2>6, <2>7 DEF OneExecutionPerTurn
  <1>6. CASE Open
    <2>1. /\ DOMAIN turns' = DOMAIN turns /\ DOMAIN executions' = DOMAIN executions
          /\ \A t \in DOMAIN turns : turns'[t] = RecoveredTurn(turns[t])
          /\ \A e \in DOMAIN executions : executions'[e] = RecoveredExecution(executions[e])
      BY <1>6 DEF Open, RecoveredContent
    <2>2. \A t \in DOMAIN turns :
             /\ turns'[t] \in TurnRow
             /\ turns'[t].execution = turns[t].execution /\ turns'[t].status \in Settled
      BY <2>1, TurnRecovery DEF RowsTyped
    <2>3. \A e \in DOMAIN executions :
             executions'[e] \in ExecutionRow /\ executions'[e].turn = executions[e].turn
      BY <2>1, ExecutionRecovery DEF RowsTyped
    <2>4. RowsTyped'
      BY <2>1, <2>2, <2>3 DEF RowsTyped, ExecutionRow
    <2> QED BY <2>1, <2>2, <2>3, <2>4 DEF RowsTyped, ExecutionRow, OneExecutionPerTurn
  <1>7. CASE UNCHANGED <<turns, executions>>
    BY <1>7 DEF RowsTyped, ExecutionRow, OneExecutionPerTurn
  <1>8. CASE UNCHANGED repositoryVars
    BY <1>7, <1>8 DEF repositoryVars, content
  <1> QED
    BY <1>1, <1>2, <1>3, <1>4, <1>5, <1>6, <1>7, <1>8
       DEF RepositoryNext, CreateConversation, GetConversation, AppendTurnPart, RecordToolCall,
           RecordToolResult, ReconcileToolCall, SwitchModel, SetStatus, content

LEMMA ExecutionInvariant == RepositorySpec => []ExecutionInv
  BY ExecutionInit, ExecutionStep, PTL DEF RepositorySpec

\* A turn is executed once in its life, though start_execution looks only for
\* an execution that still runs.
THEOREM TurnsRunOnce == RepositorySpec => []OneExecutionPerTurn
  <1>1. ExecutionInv => OneExecutionPerTurn
    BY DEF ExecutionInv
  <1> QED BY <1>1, ExecutionInvariant, PTL

-----------------------------------------------------------------------------
(* Outcomes.                                                               *)

\* What SettledIsFinal says of one step.
OutcomesKept ==
    /\ \A t \in DOMAIN turns :
          turns[t].status \in Settled => turns'[t].status = turns[t].status
    /\ \A e \in DOMAIN executions :
          executions[e].status # "RUNNING" => executions'[e] = executions[e]
    /\ \A k \in DOMAIN calls :
          calls[k].status \in Settled => calls'[k] = calls[k]

LEMMA OutcomeStep == RowsTyped /\ [RepositoryNext]_repositoryVars => OutcomesKept
  <1> SUFFICES ASSUME RowsTyped, [RepositoryNext]_repositoryVars
               PROVE  OutcomesKept
    OBVIOUS
  <1> DEFINE TurnsKept == \A t \in DOMAIN turns : turns'[t] = turns[t]
             ExecutionsKept == \A e \in DOMAIN executions : executions'[e] = executions[e]
             CallsKept == \A k \in DOMAIN calls : calls'[k] = calls[k]
  <1>1. ASSUME NEW c \in Clients, NEW t \in Turns, NEW role \in Roles,
               NEW s \in Pending \cup Settled, AppendTurn(c, t, role, s)
        PROVE  OutcomesKept
    <2>1. TurnsKept /\ ExecutionsKept /\ CallsKept
      BY <1>1 DEF AppendTurn, Put
    <2> QED BY <2>1 DEF OutcomesKept
  <1>2. ASSUME NEW c \in Clients, NEW t \in Turns, NEW s \in Pending \cup Settled,
               TransitionTurn(c, t, s)
        PROVE  OutcomesKept
    <2>1. /\ t \in DOMAIN turns /\ turns[t].status \notin Settled
          /\ \A u \in DOMAIN turns \ {t} : turns'[u] = turns[u]
          /\ ExecutionsKept /\ CallsKept
      BY <1>2 DEF TransitionTurn, TurnTransitionAllowed, Settled
    <2> QED BY <2>1 DEF OutcomesKept
  <1>3. ASSUME NEW c \in Clients, NEW e \in Executions, NEW t \in Turns,
               StartExecution(c, e, t)
        PROVE  OutcomesKept
    <2>1. /\ t \in DOMAIN turns /\ turns[t].status \notin Settled
          /\ \A u \in DOMAIN turns \ {t} : turns'[u] = turns[u]
          /\ ExecutionsKept /\ CallsKept
      BY <1>3 DEF StartExecution, Settled, Put
    <2> QED BY <2>1 DEF OutcomesKept
  <1>4. ASSUME NEW c \in Clients, NEW e \in Executions, NEW n \in 1 .. MaxRevision,
               CheckpointExecution(c, e, n)
        PROVE  OutcomesKept
    <2>1. /\ executions[e].status = "RUNNING"
          /\ \A x \in DOMAIN executions \ {e} : executions'[x] = executions[x]
          /\ TurnsKept /\ CallsKept
      BY <1>4 DEF CheckpointExecution
    <2> QED BY <2>1 DEF OutcomesKept
  <1>5. ASSUME NEW c \in Clients, NEW e \in Executions, NEW s \in Settled,
               FinishExecution(c, e, s)
        PROVE  OutcomesKept
    <2> DEFINE t == executions[e].turn
    <2>1. /\ executions[e].status = "RUNNING" /\ turns[t].status \notin Settled
          /\ \A x \in DOMAIN executions \ {e} : executions'[x] = executions[x]
          /\ \A u \in DOMAIN turns \ {t} : turns'[u] = turns[u]
          /\ CallsKept
      BY <1>5 DEF FinishExecution, TurnTransitionAllowed, Settled
    <2> HIDE DEF t
    <2> QED BY <2>1 DEF OutcomesKept
  <1>6. CASE Open
    <2>1. /\ \A t \in DOMAIN turns : turns'[t] = RecoveredTurn(turns[t])
          /\ \A e \in DOMAIN executions : executions'[e] = RecoveredExecution(executions[e])
          /\ \A k \in DOMAIN calls : calls'[k] = RecoveredCall(calls[k])
      BY <1>6 DEF Open, RecoveredContent
    <2>2. \A t \in DOMAIN turns : turns[t].status \in Settled => turns'[t] = turns[t]
      BY <2>1 DEF RecoveredTurn, Pending, Settled
    <2>3. \A e \in DOMAIN executions :
             executions[e].status # "RUNNING" => executions'[e] = executions[e]
      BY <2>1 DEF RecoveredExecution
    <2>4. \A k \in DOMAIN calls : calls[k].status \in Settled => calls'[k] = calls[k]
      BY <2>1 DEF RecoveredCall, Settled
    <2> QED BY <2>2, <2>3, <2>4 DEF OutcomesKept
  <1>7. ASSUME NEW c \in Clients, NEW k \in Calls,
               \/ \E t \in Turns : RecordToolCall(c, k, t)
               \/ \E t \in Turns, s \in {"COMPLETED", "FAILED"} : RecordToolResult(c, k, t, s)
               \/ \E s \in {"CANCELLED", "FAILED"} : ReconcileToolCall(c, k, s)
        PROVE  OutcomesKept
    <2>1. /\ k \in DOMAIN calls => calls[k].status \notin Settled
          /\ \A l \in DOMAIN calls \ {k} : calls'[l] = calls[l]
          /\ TurnsKept /\ ExecutionsKept
      BY <1>7 DEF RecordToolCall, RecordToolResult, ReconcileToolCall, Settled, Put
    <2> QED BY <2>1 DEF OutcomesKept
  <1>8. CASE UNCHANGED <<turns, executions, calls>>
    BY <1>8 DEF OutcomesKept
  <1>9. CASE UNCHANGED repositoryVars
    BY <1>8, <1>9 DEF repositoryVars, content
  <1> QED
    BY <1>1, <1>2, <1>3, <1>4, <1>5, <1>6, <1>7, <1>8, <1>9
       DEF RepositoryNext, CreateConversation, GetConversation, AppendTurnPart, SwitchModel,
           SetStatus, content

\* No operation and no recovery rewrites the outcome of a turn, an execution or
\* a call; only an ambiguous call is decided by hand (reconcile_tool_call).
THEOREM OutcomesAreFinal == RepositorySpec => SettledIsFinal
  <1>1. ExecutionInv /\ [RepositoryNext]_repositoryVars => [OutcomesKept]_repositoryVars
    BY OutcomeStep DEF ExecutionInv
  <1> QED BY <1>1, ExecutionInvariant, PTL DEF RepositorySpec, SettledIsFinal, OutcomesKept

-----------------------------------------------------------------------------
(* Distributed work.                                                       *)

WorkLease == [key : Keys, worker : Workers, acquired : Nat, expires : Nat]

Candidate == [key : Keys, artifact : Artifacts, lease : WorkLease, holder : WorkLease,
              partitioned : BOOLEAN]

\* The table, the copies of leases and the log as the code types them.
WorkTyped ==
    /\ now \in Nat /\ partitioned \in BOOLEAN
    /\ issued \subseteq WorkLease
    /\ ledger \in Seq(Candidate)
    /\ IsFiniteSet(DOMAIN committed)

WorkInv == WorkTyped /\ Work!OneLiveLease /\ Work!AcceptedFromHolder

\* The instance counts as FiniteSets does.
LEMMA WorkCounts == \A S : Work!Cardinality(S) = Cardinality(S)
  BY Zenon DEF Work!Cardinality, Cardinality

LEMMA WorkInvInit == Work!WorkInit => WorkInv
  <1> SUFFICES ASSUME Work!WorkInit PROVE WorkInv
    OBVIOUS
  <1>1. DOMAIN committed = {} /\ ledger = << >> /\ issued = {} /\ now = 0 /\ partitioned = FALSE
    BY DEF Work!WorkInit
  <1>2. IsFiniteSet(DOMAIN committed) /\ Cardinality(DOMAIN committed) = 0
    BY <1>1, FS_EmptySet
  <1>3. ledger \in Seq(Candidate) /\ Len(ledger) = 0 /\ DOMAIN ledger = {}
    BY <1>1
  <1>4. WorkTyped
    BY <1>1, <1>2, <1>3 DEF WorkTyped
  <1>5. Work!AcceptedFromHolder
    BY <1>2, <1>3, WorkCounts DEF Work!AcceptedFromHolder
  <1> QED BY <1>1, <1>4, <1>5 DEF WorkInv, Work!OneLiveLease

\* A new lease takes the place of none or of an expired one, so that the live
\* lease of every other key stays the only one.
LEMMA AcquireKeepsWork ==
    ASSUME WorkInv, NEW w \in Workers, NEW e \in Work!Envelopes, NEW ttl \in Ttls,
           Work!Acquire(w, e, ttl)
    PROVE  WorkInv'
  <1> DEFINE end == Work!Earlier(now + ttl, e.deadline)
             lease == [key |-> e.key, worker |-> w, acquired |-> now, expires |-> end]
  <1>1. now \in Nat /\ ttl \in Nat /\ e.deadline \in Nat /\ e.key \in Keys
    BY NativeAssumption DEF WorkInv, WorkTyped, Work!WorkLeaseAssumption, Work!Envelopes
  <1>2. end \in Nat
    BY <1>1 DEF Work!Earlier
  <1> HIDE DEF end
  <1>3. lease \in WorkLease /\ lease.key = e.key
    BY <1>1, <1>2 DEF WorkLease
  <1>4. /\ Work!Free(e.key)
        /\ leases' = [k \in DOMAIN leases \cup {e.key} |->
                         IF k = e.key THEN lease ELSE leases[k]]
        /\ issued' = issued \cup {lease}
        /\ now' = now /\ partitioned' = partitioned
        /\ committed' = committed /\ ledger' = ledger
    BY DEF Work!Acquire, end
  <1> HIDE DEF lease
  <1>5. Work!OneLiveLease'
    <2> SUFFICES ASSUME NEW l \in issued', l.expires > now'
                 PROVE  l.key \in DOMAIN leases' /\ leases'[l.key] = l
      BY DEF Work!OneLiveLease
    <2>1. CASE l = lease
      BY <1>3, <1>4, <2>1
    <2>2. CASE l # lease
      <3>1. l.key \in DOMAIN leases /\ leases[l.key] = l /\ l.expires \in Nat
        BY <1>4, <2>2 DEF WorkInv, WorkTyped, Work!OneLiveLease, WorkLease
      <3>2. l.key # e.key
        BY <1>1, <1>4, <3>1 DEF Work!Free
      <3> QED BY <1>4, <3>1, <3>2
    <2> QED BY <2>1, <2>2
  <1>6. WorkTyped'
    BY <1>3, <1>4 DEF WorkInv, WorkTyped
  <1>7. Work!AcceptedFromHolder'
    BY <1>4 DEF WorkInv, Work!AcceptedFromHolder
  <1> QED BY <1>5, <1>6, <1>7 DEF WorkInv

\* The presented copy has not expired, so it is the lease of the table; the
\* candidate is the last of the ledger, and new.
LEMMA CommitKeepsWork ==
    ASSUME WorkInv, NEW lease \in issued, NEW e \in Work!Envelopes, NEW x \in Artifacts,
           Work!CommitCandidate(e, lease, x)
    PROVE  WorkInv'
  <1> DEFINE pair == <<e.key, x>>
             candidate == [key |-> e.key, artifact |-> x, lease |-> lease,
                           holder |-> leases[e.key], partitioned |-> partitioned]
  <1>1. /\ ~(partitioned /\ e.key \in PausedKeys)
        /\ lease.key = e.key /\ now < lease.expires
        /\ pair \notin DOMAIN committed
        /\ ledger' = Append(ledger, candidate)
        /\ committed' = [k \in DOMAIN committed \cup {pair} |->
                            IF k = pair THEN Len(ledger') ELSE committed[k]]
        /\ now' = now /\ leases' = leases /\ issued' = issued /\ partitioned' = partitioned
    BY DEF Work!CommitCandidate, Work!IsValidFor
  <1>2. leases[e.key] = lease /\ lease \in WorkLease /\ e.key \in Keys /\ partitioned \in BOOLEAN
    BY <1>1 DEF WorkInv, WorkTyped, Work!OneLiveLease, WorkLease, Work!Envelopes
  <1>3. candidate \in Candidate
    BY <1>2 DEF Candidate
  <1>4. /\ candidate.key = e.key /\ candidate.artifact = x
        /\ candidate.holder = candidate.lease
        /\ candidate.key \in PausedKeys => ~candidate.partitioned
    BY <1>1, <1>2
  <1> HIDE DEF candidate
  <1>5. /\ ledger \in Seq(Candidate) /\ ledger' \in Seq(Candidate)
        /\ Len(ledger) \in Nat /\ Len(ledger') = Len(ledger) + 1
        /\ DOMAIN ledger = 1 .. Len(ledger) /\ DOMAIN ledger' = 1 .. Len(ledger) + 1
        /\ \A i \in 1 .. Len(ledger) : ledger'[i] = ledger[i]
        /\ ledger'[Len(ledger) + 1] = candidate
    BY <1>1, <1>3 DEF WorkInv, WorkTyped
  <1>6. /\ DOMAIN committed' = DOMAIN committed \cup {pair}
        /\ committed'[pair] = Len(ledger) + 1
        /\ \A k \in DOMAIN committed : committed'[k] = committed[k]
    BY <1>1, <1>5
  <1>7. /\ IsFiniteSet(DOMAIN committed')
        /\ Cardinality(DOMAIN committed') = Cardinality(DOMAIN committed) + 1
    BY <1>1, <1>6, FS_AddElement DEF WorkInv, WorkTyped
  <1>8. WorkTyped'
    BY <1>1, <1>5, <1>7 DEF WorkInv, WorkTyped
  <1>9. Work!OneLiveLease'
    BY <1>1 DEF WorkInv, Work!OneLiveLease
  <1>10. Work!AcceptedFromHolder'
    <2>0. Cardinality(DOMAIN committed) = Len(ledger)
      BY WorkCounts DEF WorkInv, Work!AcceptedFromHolder
    <2>1. Cardinality(DOMAIN committed') = Len(ledger')
      BY <1>5, <1>7, <2>0
    <2>2. ASSUME NEW i \in DOMAIN ledger'
          PROVE  /\ ledger'[i].holder = ledger'[i].lease
                 /\ ledger'[i].key \in PausedKeys => ~ledger'[i].partitioned
                 /\ <<ledger'[i].key, ledger'[i].artifact>> \in DOMAIN committed'
                 /\ committed'[<<ledger'[i].key, ledger'[i].artifact>>] = i
      <3>1. CASE i \in 1 .. Len(ledger)
        <4>1. /\ ledger[i].holder = ledger[i].lease
              /\ ledger[i].key \in PausedKeys => ~ledger[i].partitioned
              /\ <<ledger[i].key, ledger[i].artifact>> \in DOMAIN committed
              /\ committed[<<ledger[i].key, ledger[i].artifact>>] = i
          BY <1>5, <3>1 DEF WorkInv, Work!AcceptedFromHolder
        <4> QED BY <1>5, <1>6, <3>1, <4>1
      <3>2. CASE i = Len(ledger) + 1
        BY <1>4, <1>5, <1>6, <3>2
      <3> QED BY <1>5, <3>1, <3>2
    <2> QED BY <2>1, <2>2, WorkCounts DEF Work!AcceptedFromHolder
  <1> QED BY <1>8, <1>9, <1>10 DEF WorkInv

LEMMA WorkInvStep == WorkInv /\ [Work!WorkNext]_(Work!workVars) => WorkInv'
  <1> SUFFICES ASSUME WorkInv, [Work!WorkNext]_(Work!workVars)
               PROVE  WorkInv'
    OBVIOUS
  <1>1. CASE Work!Tick
    BY <1>1 DEF Work!Tick, WorkInv, WorkTyped, WorkLease, Work!OneLiveLease, Work!AcceptedFromHolder
  <1>2. CASE Work!SetPartition
    BY <1>2 DEF Work!SetPartition, WorkInv, WorkTyped, Work!OneLiveLease, Work!AcceptedFromHolder
  <1>3. CASE UNCHANGED Work!workVars
    BY <1>3 DEF Work!workVars, WorkInv, WorkTyped, Work!OneLiveLease, Work!AcceptedFromHolder
  <1> QED
    BY <1>1, <1>2, <1>3, AcquireKeepsWork, CommitKeepsWork DEF Work!WorkNext

\* However leases expire, are taken over and are presented late, one worker at
\* a time holds a work item, and the log, which sees only the copy a worker
\* presents, accepts results from that worker alone and once each
\* (WorkLeaseTable::acquire, SingleWriterRunLog::commit_candidate).
THEOREM WorkHasOneHolder == Work!WorkSpec => []WorkIsExclusive
  <1>1. WorkInv => WorkIsExclusive
    BY DEF WorkInv, WorkIsExclusive, Work!WorkIsExclusive
  <1> QED BY <1>1, WorkInvInit, WorkInvStep, PTL DEF Work!WorkSpec

-----------------------------------------------------------------------------
(* Cooperative admission.                                                  *)

\* The tables as the code types them; numbers that were given out are behind
\* the counters, and an attempt with a lease is one that was seen.
CooperativeTyped ==
    /\ mode \in {"disabled", "shadow", "enforced"}
    /\ inventory \in [slots : Nat, tier : Nat, base : Amounts] /\ used \in Amounts
    /\ nextLease \in Nat /\ nextHandle \in Nat
    /\ IsFiniteSet(DOMAIN active)
    /\ \A l \in DOMAIN active : l \in Nat /\ l < nextLease /\ active[l].reservation \in Amounts
    /\ \A h \in DOMAIN handles \cup released : h \in Nat /\ h < nextHandle
    /\ DOMAIN activeByAttempt \subseteq DOMAIN attemptDigests

CooperativeInv == CooperativeTyped /\ CooperativeIsExact

LEMMA CooperativeInvInit == CooperativeInit => CooperativeInv
  <1> SUFFICES ASSUME CooperativeInit PROVE CooperativeInv
    OBVIOUS
  <1>1. /\ DOMAIN active = {} /\ DOMAIN handles = {} /\ DOMAIN activeByAttempt = {}
        /\ released = {} /\ mode = "disabled" /\ nextLease = 1 /\ nextHandle = 1
        /\ inventory \in [slots : Nat, tier : Nat, base : Amounts] /\ used = inventory.base
    BY CooperativeAssumption DEF CooperativeInit
  <1>2. /\ used \in Amounts /\ used.slots \in Nat /\ used.tier \in Nat /\ used.buffer \in Nat
    BY <1>1 DEF Amounts
  <1>3. \A f : Total(DOMAIN active, f) = 0
    BY <1>1, TotalOfNone
  <1>4. CooperativeTyped
    BY <1>1, <1>2, FS_EmptySet DEF CooperativeTyped
  <1>5. HandlesMatchLeases /\ ReleasedHandleIsInert
    BY <1>1 DEF HandlesMatchLeases, ReleasedHandleIsInert
  <1>6. ReservationsBalance
    BY <1>1, <1>2, <1>3 DEF ReservationsBalance
  <1> QED BY <1>4, <1>5, <1>6 DEF CooperativeInv, CooperativeIsExact

LEMMA ConfigureKeepsCooperative ==
    ASSUME CooperativeInv, NEW m \in {"disabled", "shadow", "enforced"}, NEW i \in Inventories,
           Configure(m, i)
    PROVE  CooperativeInv'
  <1>1. /\ DOMAIN active' = {} /\ DOMAIN handles' = {} /\ DOMAIN activeByAttempt' = {}
        /\ handles' = handles /\ released' = released /\ nextHandle' = nextHandle
        /\ mode' = m /\ nextLease' = 1
        /\ inventory' = i /\ i \in [slots : Nat, tier : Nat, base : Amounts]
        /\ used' = i.base
        /\ m # "disabled" =>
              i.base.slots <= i.slots /\ i.base.tier + i.base.buffer <= i.tier
    BY CooperativeAssumption DEF Configure, NewLedger
  <1>2. /\ used' \in Amounts /\ used'.slots \in Nat /\ used'.tier \in Nat /\ used'.buffer \in Nat
    BY <1>1 DEF Amounts
  <1>3. \A f : Total(DOMAIN active', f) = 0
    BY <1>1, TotalOfNone
  <1>4. CooperativeTyped'
    BY <1>1, <1>2, FS_EmptySet DEF CooperativeInv, CooperativeTyped
  <1>5. HandlesMatchLeases' /\ ReleasedHandleIsInert'
    BY <1>1 DEF HandlesMatchLeases, ReleasedHandleIsInert
  <1>6. ReservationsBalance'
    BY <1>1, <1>2, <1>3 DEF ReservationsBalance
  <1> QED BY <1>4, <1>5, <1>6 DEF CooperativeInv, CooperativeIsExact

\* What is exact stays exact while the tables stay.
LEMMA CooperativeUnchanged ==
    ASSUME CooperativeIsExact,
           UNCHANGED <<mode, inventory, used, active, activeByAttempt, handles, released>>
    PROVE  CooperativeIsExact'
  <1>1. /\ mode' = mode /\ inventory' = inventory /\ used' = used /\ active' = active
        /\ activeByAttempt' = activeByAttempt /\ handles' = handles /\ released' = released
    OBVIOUS
  <1>2. HandlesMatchLeases'
    BY <1>1 DEF HandlesMatchLeases, CooperativeIsExact
  <1>3. ReleasedHandleIsInert'
    BY <1>1 DEF ReleasedHandleIsInert, CooperativeIsExact
  <1>4. ReservationsBalance'
    <2> DEFINE sums(z) ==
                 <<Total(DOMAIN z, [l \in DOMAIN z |-> z[l].reservation.slots]),
                   Total(DOMAIN z, [l \in DOMAIN z |-> z[l].reservation.tier]),
                   Total(DOMAIN z, [l \in DOMAIN z |-> z[l].reservation.buffer])>>
    <2>1. /\ used.slots = inventory.base.slots + sums(active)[1]
          /\ used.tier = inventory.base.tier + sums(active)[2]
          /\ used.buffer = inventory.base.buffer + sums(active)[3]
      BY DEF ReservationsBalance, CooperativeIsExact
    <2> HIDE DEF sums
    <2>2. /\ used'.slots = inventory'.base.slots + sums(active')[1]
          /\ used'.tier = inventory'.base.tier + sums(active')[2]
          /\ used'.buffer = inventory'.base.buffer + sums(active')[3]
      BY <1>1, <2>1
    <2>3. /\ {activeByAttempt'[b] : b \in DOMAIN activeByAttempt'} = DOMAIN active'
          /\ \A b \in DOMAIN activeByAttempt' : active'[activeByAttempt'[b]].attempt = b
          /\ mode' # "disabled" =>
                used'.slots <= inventory'.slots /\ used'.tier + used'.buffer <= inventory'.tier
      BY <1>1 DEF ReservationsBalance, CooperativeIsExact
    <2> QED BY <2>2, <2>3 DEF ReservationsBalance, sums
  <1> QED BY <1>2, <1>3, <1>4 DEF CooperativeIsExact

\* The attempt has a lease, so its handle exists and nothing changes.
LEMMA SubmitAgainKeepsCooperative ==
    ASSUME CooperativeInv, NEW a, NEW p, SubmitAgain(a, p)
    PROVE  CooperativeInv'
  <1> DEFINE lease == active[activeByAttempt[a]]
  <1>1. activeByAttempt[a] \in DOMAIN active
    BY DEF SubmitAgain, CooperativeInv, CooperativeIsExact, ReservationsBalance
  <1>2. lease \in {active[l] : l \in DOMAIN active}
    BY <1>1
  <1>3. \E h \in DOMAIN handles : handles[h] = lease
    BY <1>2 DEF CooperativeInv, CooperativeIsExact, HandlesMatchLeases
  <1>4. UNCHANGED cooperativeVars
    BY <1>3 DEF SubmitAgain, cooperativeVars, ledgerVars
  <1>5. CooperativeTyped'
    BY <1>4 DEF CooperativeInv, CooperativeTyped, cooperativeVars, ledgerVars
  <1>6. CooperativeIsExact'
    BY <1>4, CooperativeUnchanged DEF CooperativeInv, cooperativeVars, ledgerVars
  <1> QED BY <1>5, <1>6 DEF CooperativeInv

\* The lease enters every table under new numbers, and the three sums grow by
\* what it reserves.
LEMMA SubmitKeepsCooperative ==
    ASSUME CooperativeInv, NEW a, NEW p, NEW r \in Reservations, NEW t, Submit(a, p, r, t)
    PROVE  CooperativeInv'
  <1> DEFINE new == Lease(a, p, r, t)
  <1>1. /\ CooperativeTyped /\ HandlesMatchLeases /\ ReleasedHandleIsInert /\ ReservationsBalance
    BY DEF CooperativeInv, CooperativeIsExact
  <1>2. /\ mode = "enforced" /\ a \notin DOMAIN attemptDigests /\ Fits(used, r)
        /\ nextLease' = nextLease + 1 /\ DOMAIN attemptDigests' = DOMAIN attemptDigests \cup {a}
        /\ mode' = mode /\ inventory' = inventory /\ released' = released
    BY DEF Submit, WithEntry
  <1>3. /\ inventory \in [slots : Nat, tier : Nat, base : Amounts] /\ used \in Amounts
        /\ nextLease \in Nat /\ nextHandle \in Nat /\ IsFiniteSet(DOMAIN active)
        /\ nextLease \notin DOMAIN active /\ nextHandle \notin DOMAIN handles \cup released
    BY <1>1 DEF CooperativeTyped
  <1>4. r \in Amounts
    BY CooperativeAssumption
  <1>5. new.id = nextLease /\ new.reservation = r /\ new.attempt = a
    BY DEF Lease
  <1>6. CASE nextHandle < MaxHandle
    <2> HIDE DEF new
    <2>1. /\ used' = Plus(used, r) /\ active' = WithEntry(active, nextLease, new)
          /\ activeByAttempt' = WithEntry(activeByAttempt, a, nextLease)
          /\ handles' = WithEntry(handles, nextHandle, new)
          /\ nextHandle' = nextHandle + 1
      BY <1>6 DEF Submit, new
    <2>2. /\ DOMAIN active' = DOMAIN active \cup {nextLease}
          /\ active'[nextLease] = new
          /\ \A l \in DOMAIN active : active'[l] = active[l]
      BY <1>3, <2>1 DEF WithEntry
    <2>3. /\ DOMAIN handles' = DOMAIN handles \cup {nextHandle}
          /\ handles'[nextHandle] = new
          /\ \A h \in DOMAIN handles : handles'[h] = handles[h]
      BY <1>3, <2>1 DEF WithEntry
    <2>4. /\ DOMAIN activeByAttempt' = DOMAIN activeByAttempt \cup {a}
          /\ activeByAttempt'[a] = nextLease /\ a \notin DOMAIN activeByAttempt
          /\ \A b \in DOMAIN activeByAttempt : activeByAttempt'[b] = activeByAttempt[b]
      BY <1>1, <1>2, <2>1 DEF WithEntry, CooperativeTyped
    <2>5. used' \in Amounts
      BY <1>3, <1>4, <2>1 DEF Plus, Amounts
    <2>6. CooperativeTyped'
      <3>1. IsFiniteSet(DOMAIN active')
        BY <1>3, <2>2, FS_AddElement
      <3>2. \A l \in DOMAIN active' :
               l \in Nat /\ l < nextLease' /\ active'[l].reservation \in Amounts
        BY <1>1, <1>2, <1>3, <1>4, <1>5, <2>2 DEF CooperativeTyped
      <3>3. \A h \in DOMAIN handles' \cup released' : h \in Nat /\ h < nextHandle'
        BY <1>1, <1>2, <1>3, <2>1, <2>3 DEF CooperativeTyped
      <3>4. DOMAIN activeByAttempt' \subseteq DOMAIN attemptDigests'
        BY <1>1, <1>2, <2>4 DEF CooperativeTyped
      <3> QED BY <1>2, <1>3, <2>1, <2>5, <3>1, <3>2, <3>3, <3>4 DEF CooperativeTyped
    <2>7. HandlesMatchLeases'
      <3>1. {handles'[h] : h \in DOMAIN handles'} = {handles[h] : h \in DOMAIN handles} \cup {new}
        BY <2>3
      <3>2. {active'[l] : l \in DOMAIN active'} = {active[l] : l \in DOMAIN active} \cup {new}
        BY <2>2
      <3>3. new \notin {active[l] : l \in DOMAIN active}
        BY <1>1, <1>3, <1>5 DEF HandlesMatchLeases
      <3>4. \A h \in DOMAIN handles : handles[h] # new
        BY <1>1, <3>3 DEF HandlesMatchLeases
      <3>5. \A g, h \in DOMAIN handles' : handles'[g] = handles'[h] => g = h
        BY <1>1, <2>3, <3>4 DEF HandlesMatchLeases
      <3>6. \A l \in DOMAIN active' : active'[l].id = l
        BY <1>1, <1>5, <2>2 DEF HandlesMatchLeases
      <3> QED BY <1>1, <3>1, <3>2, <3>5, <3>6 DEF HandlesMatchLeases
    <2>8. ReleasedHandleIsInert'
      BY <1>1, <1>2, <1>3, <2>3 DEF ReleasedHandleIsInert
    <2>9. ReservationsBalance'
      <3>1. \A f, g : (/\ \A l \in DOMAIN active' : f[l] \in Nat
                       /\ \A l \in DOMAIN active : f[l] = g[l])
                => Total(DOMAIN active', f) = Total(DOMAIN active, g) + f[nextLease]
        <4> SUFFICES ASSUME NEW f, NEW g, \A l \in DOMAIN active' : f[l] \in Nat,
                            \A l \in DOMAIN active : f[l] = g[l]
                     PROVE  Total(DOMAIN active', f) = Total(DOMAIN active, g) + f[nextLease]
          OBVIOUS
        <4>1. Total(DOMAIN active, f) = Total(DOMAIN active, g)
          BY TotalSame
        <4>2. Total(DOMAIN active \cup {nextLease}, f) = Total(DOMAIN active, f) + f[nextLease]
          BY <1>3, <2>2, TotalAdd
        <4> QED BY <2>2, <4>1, <4>2
      <3>2. \A l \in DOMAIN active' : active'[l].reservation \in Amounts
        BY <2>6 DEF CooperativeTyped
      <3> DEFINE slotsOf(z) == [l \in DOMAIN z |-> z[l].reservation.slots]
                 tierOf(z) == [l \in DOMAIN z |-> z[l].reservation.tier]
                 bufferOf(z) == [l \in DOMAIN z |-> z[l].reservation.buffer]
      <3>3. Total(DOMAIN active', slotsOf(active')) = Total(DOMAIN active, slotsOf(active)) + r.slots
        <4>1. /\ \A l \in DOMAIN active' : slotsOf(active')[l] \in Nat
              /\ \A l \in DOMAIN active : slotsOf(active')[l] = slotsOf(active)[l]
              /\ slotsOf(active')[nextLease] = r.slots
          BY <1>5, <2>2, <3>2 DEF Amounts
        <4> HIDE DEF slotsOf
        <4> QED BY <3>1, <4>1
      <3>4. Total(DOMAIN active', tierOf(active')) = Total(DOMAIN active, tierOf(active)) + r.tier
        <4>1. /\ \A l \in DOMAIN active' : tierOf(active')[l] \in Nat
              /\ \A l \in DOMAIN active : tierOf(active')[l] = tierOf(active)[l]
              /\ tierOf(active')[nextLease] = r.tier
          BY <1>5, <2>2, <3>2 DEF Amounts
        <4> HIDE DEF tierOf
        <4> QED BY <3>1, <4>1
      <3>5. Total(DOMAIN active', bufferOf(active'))
              = Total(DOMAIN active, bufferOf(active)) + r.buffer
        <4>1. /\ \A l \in DOMAIN active' : bufferOf(active')[l] \in Nat
              /\ \A l \in DOMAIN active : bufferOf(active')[l] = bufferOf(active)[l]
              /\ bufferOf(active')[nextLease] = r.buffer
          BY <1>5, <2>2, <3>2 DEF Amounts
        <4> HIDE DEF bufferOf
        <4> QED BY <3>1, <4>1
      <3>6. /\ used.slots = inventory.base.slots + Total(DOMAIN active, slotsOf(active))
            /\ used.tier = inventory.base.tier + Total(DOMAIN active, tierOf(active))
            /\ used.buffer = inventory.base.buffer + Total(DOMAIN active, bufferOf(active))
        BY <1>1 DEF ReservationsBalance
      <3>7. /\ Total(DOMAIN active, slotsOf(active)) \in Nat
            /\ Total(DOMAIN active, tierOf(active)) \in Nat
            /\ Total(DOMAIN active, bufferOf(active)) \in Nat
        <4>1. /\ \A l \in DOMAIN active : slotsOf(active)[l] \in Nat
              /\ \A l \in DOMAIN active : tierOf(active)[l] \in Nat
              /\ \A l \in DOMAIN active : bufferOf(active)[l] \in Nat
          BY <1>1 DEF CooperativeTyped, Amounts
        <4> HIDE DEF slotsOf, tierOf, bufferOf
        <4> QED BY <1>3, <4>1, UnitsFinite
      <3> HIDE DEF slotsOf, tierOf, bufferOf
      <3>8. /\ inventory.slots \in Nat /\ inventory.tier \in Nat
            /\ inventory.base.slots \in Nat /\ inventory.base.tier \in Nat
            /\ inventory.base.buffer \in Nat
            /\ used.slots \in Nat /\ used.tier \in Nat /\ used.buffer \in Nat
            /\ r.slots \in Nat /\ r.tier \in Nat /\ r.buffer \in Nat
            /\ used'.slots = used.slots + r.slots /\ used'.tier = used.tier + r.tier
            /\ used'.buffer = used.buffer + r.buffer
        BY <1>3, <1>4, <2>1 DEF Amounts, Plus
      <3>9. /\ used'.slots = inventory.base.slots + Total(DOMAIN active', slotsOf(active'))
            /\ used'.tier = inventory.base.tier + Total(DOMAIN active', tierOf(active'))
            /\ used'.buffer = inventory.base.buffer + Total(DOMAIN active', bufferOf(active'))
        BY <3>3, <3>4, <3>5, <3>6, <3>7, <3>8
      <3>10. used'.slots <= inventory.slots /\ used'.tier + used'.buffer <= inventory.tier
        <4>1. used.slots <= inventory.slots /\ used.tier + used.buffer <= inventory.tier
          BY <1>1, <1>2 DEF ReservationsBalance
        <4> QED BY <1>2, <3>8, <4>1 DEF Fits
      <3>11. {activeByAttempt'[b] : b \in DOMAIN activeByAttempt'} = DOMAIN active'
        <4>1. {activeByAttempt[b] : b \in DOMAIN activeByAttempt} = DOMAIN active
          BY <1>1 DEF ReservationsBalance
        <4> QED BY <2>2, <2>4, <4>1
      <3>12. \A b \in DOMAIN activeByAttempt' : active'[activeByAttempt'[b]].attempt = b
        <4>1. \A b \in DOMAIN activeByAttempt :
                 /\ activeByAttempt[b] \in DOMAIN active
                 /\ active[activeByAttempt[b]].attempt = b
          BY <1>1 DEF ReservationsBalance
        <4> QED BY <1>5, <2>2, <2>4, <4>1
      <3> QED BY <1>2, <3>9, <3>10, <3>11, <3>12
              DEF ReservationsBalance, slotsOf, tierOf, bufferOf
    <2> QED BY <2>6, <2>7, <2>8, <2>9 DEF CooperativeInv, CooperativeIsExact
  <1>7. CASE ~(nextHandle < MaxHandle)
    <2>1. UNCHANGED <<used, active, activeByAttempt, handles, nextHandle>>
      BY <1>7 DEF Submit
    <2>2. CooperativeTyped'
      BY <1>1, <1>2, <2>1 DEF CooperativeTyped
    <2>3. CooperativeIsExact'
      BY <1>2, <2>1, CooperativeUnchanged DEF CooperativeInv
    <2> QED BY <2>2, <2>3 DEF CooperativeInv
  <1> QED BY <1>6, <1>7

\* Its lease is in every table and its amounts are in the sums, so nothing
\* underflows and all of it goes.
LEMMA ReleaseKeepsCooperative ==
    ASSUME CooperativeInv, NEW h \in DOMAIN handles, ReleaseHandle(h)
    PROVE  CooperativeInv'
  <1> DEFINE lease == handles[h]
             n == lease.id
             r == lease.reservation
  <1>1. /\ CooperativeTyped /\ HandlesMatchLeases /\ ReleasedHandleIsInert /\ ReservationsBalance
    BY DEF CooperativeInv, CooperativeIsExact
  <1>2. /\ n \in DOMAIN active /\ active[n] = lease
        /\ active' = WithoutEntry(active, n)
        /\ mode' = mode /\ inventory' = inventory /\ nextLease' = nextLease
        /\ attemptDigests' = attemptDigests /\ nextHandle' = nextHandle
    BY DEF ReleaseHandle
  <1>3. /\ inventory \in [slots : Nat, tier : Nat, base : Amounts] /\ used \in Amounts
        /\ IsFiniteSet(DOMAIN active) /\ r \in Amounts
        /\ \A l \in DOMAIN active : active[l].reservation \in Amounts
    BY <1>1, <1>2 DEF CooperativeTyped
  <1>4. /\ DOMAIN active' = DOMAIN active \ {n}
        /\ \A l \in DOMAIN active' : active'[l] = active[l]
    BY <1>2 DEF WithoutEntry
  <1>5. active[n].reservation = r
    BY <1>2
  <1> HIDE DEF n, r
  <1>6. \A f, g : (/\ \A l \in DOMAIN active : f[l] \in Nat
                   /\ \A l \in DOMAIN active' : g[l] = f[l])
            => /\ Total(DOMAIN active', g) = Total(DOMAIN active, f) - f[n]
               /\ f[n] <= Total(DOMAIN active, f) /\ Total(DOMAIN active, f) \in Nat
    <2> SUFFICES ASSUME NEW f, NEW g, \A l \in DOMAIN active : f[l] \in Nat,
                        \A l \in DOMAIN active' : g[l] = f[l]
                 PROVE  /\ Total(DOMAIN active', g) = Total(DOMAIN active, f) - f[n]
                        /\ f[n] <= Total(DOMAIN active, f) /\ Total(DOMAIN active, f) \in Nat
      OBVIOUS
    <2>1. Total(DOMAIN active', g) = Total(DOMAIN active', f)
      BY TotalSame
    <2>2. /\ Total(DOMAIN active \ {n}, f) = Total(DOMAIN active, f) - f[n]
          /\ f[n] <= Total(DOMAIN active, f)
      BY <1>2, <1>3, TotalRemove
    <2>3. Total(DOMAIN active, f) \in Nat
      BY <1>3, UnitsFinite
    <2> QED BY <1>4, <2>1, <2>2, <2>3
  <1> DEFINE slotsOf(z) == [l \in DOMAIN z |-> z[l].reservation.slots]
             tierOf(z) == [l \in DOMAIN z |-> z[l].reservation.tier]
             bufferOf(z) == [l \in DOMAIN z |-> z[l].reservation.buffer]
  <1>7. /\ Total(DOMAIN active', slotsOf(active')) = Total(DOMAIN active, slotsOf(active)) - r.slots
        /\ r.slots <= Total(DOMAIN active, slotsOf(active))
        /\ Total(DOMAIN active, slotsOf(active)) \in Nat
    <2>1. /\ \A l \in DOMAIN active : slotsOf(active)[l] \in Nat
          /\ \A l \in DOMAIN active' : slotsOf(active')[l] = slotsOf(active)[l]
          /\ slotsOf(active)[n] = r.slots
      BY <1>2, <1>3, <1>4, <1>5 DEF Amounts
    <2> HIDE DEF slotsOf
    <2> QED BY <1>6, <2>1
  <1>8. /\ Total(DOMAIN active', tierOf(active')) = Total(DOMAIN active, tierOf(active)) - r.tier
        /\ r.tier <= Total(DOMAIN active, tierOf(active))
        /\ Total(DOMAIN active, tierOf(active)) \in Nat
    <2>1. /\ \A l \in DOMAIN active : tierOf(active)[l] \in Nat
          /\ \A l \in DOMAIN active' : tierOf(active')[l] = tierOf(active)[l]
          /\ tierOf(active)[n] = r.tier
      BY <1>2, <1>3, <1>4, <1>5 DEF Amounts
    <2> HIDE DEF tierOf
    <2> QED BY <1>6, <2>1
  <1>9. /\ Total(DOMAIN active', bufferOf(active'))
             = Total(DOMAIN active, bufferOf(active)) - r.buffer
        /\ r.buffer <= Total(DOMAIN active, bufferOf(active))
        /\ Total(DOMAIN active, bufferOf(active)) \in Nat
    <2>1. /\ \A l \in DOMAIN active : bufferOf(active)[l] \in Nat
          /\ \A l \in DOMAIN active' : bufferOf(active')[l] = bufferOf(active)[l]
          /\ bufferOf(active)[n] = r.buffer
      BY <1>2, <1>3, <1>4, <1>5 DEF Amounts
    <2> HIDE DEF bufferOf
    <2> QED BY <1>6, <2>1
  <1>10. /\ used.slots = inventory.base.slots + Total(DOMAIN active, slotsOf(active))
         /\ used.tier = inventory.base.tier + Total(DOMAIN active, tierOf(active))
         /\ used.buffer = inventory.base.buffer + Total(DOMAIN active, bufferOf(active))
    BY <1>1 DEF ReservationsBalance
  <1> HIDE DEF slotsOf, tierOf, bufferOf
  <1>11. /\ inventory.slots \in Nat /\ inventory.tier \in Nat
         /\ inventory.base.slots \in Nat /\ inventory.base.tier \in Nat
         /\ inventory.base.buffer \in Nat
         /\ used.slots \in Nat /\ used.tier \in Nat /\ used.buffer \in Nat
         /\ r.slots \in Nat /\ r.tier \in Nat /\ r.buffer \in Nat
    BY <1>3 DEF Amounts
  <1>12. NoUnderflow(used, r)
    BY <1>7, <1>8, <1>9, <1>10, <1>11 DEF NoUnderflow
  <1>13. /\ used' = Minus(used, r)
         /\ activeByAttempt' = WithoutEntry(activeByAttempt, lease.attempt)
         /\ handles' = WithoutEntry(handles, h) /\ released' = released \cup {h}
    BY <1>12 DEF ReleaseHandle, r
  <1>14. /\ used'.slots = used.slots - r.slots /\ used'.tier = used.tier - r.tier
         /\ used'.buffer = used.buffer - r.buffer
         /\ used' \in Amounts
    BY <1>11, <1>12, <1>13 DEF Minus, NoUnderflow, Amounts
  <1>15. /\ DOMAIN handles' = DOMAIN handles \ {h}
         /\ \A g \in DOMAIN handles' : handles'[g] = handles[g]
    BY <1>13 DEF WithoutEntry
  <1>16. /\ DOMAIN activeByAttempt' = DOMAIN activeByAttempt \ {lease.attempt}
         /\ \A b \in DOMAIN activeByAttempt' : activeByAttempt'[b] = activeByAttempt[b]
    BY <1>13 DEF WithoutEntry
  <1>17. CooperativeTyped'
    <2>1. IsFiniteSet(DOMAIN active')
      BY <1>3, <1>4, FS_RemoveElement
    <2> QED BY <1>1, <1>2, <1>4, <1>13, <1>14, <1>15, <1>16, <2>1 DEF CooperativeTyped
  <1>18. HandlesMatchLeases'
    <2>1. \A l \in DOMAIN active : active[l] = lease => l = n
      BY <1>1, <1>2 DEF HandlesMatchLeases, n
    <2>2. {active'[l] : l \in DOMAIN active'} = {active[l] : l \in DOMAIN active} \ {lease}
      BY <1>2, <1>4, <2>1
    <2>3. {handles'[g] : g \in DOMAIN handles'} = {handles[g] : g \in DOMAIN handles} \ {lease}
      BY <1>1, <1>15 DEF HandlesMatchLeases
    <2>4. \A g, k \in DOMAIN handles' : handles'[g] = handles'[k] => g = k
      BY <1>1, <1>15 DEF HandlesMatchLeases
    <2>5. \A l \in DOMAIN active' : active'[l].id = l
      BY <1>1, <1>4 DEF HandlesMatchLeases
    <2> QED BY <1>1, <2>2, <2>3, <2>4, <2>5 DEF HandlesMatchLeases
  <1>19. ReleasedHandleIsInert'
    BY <1>1, <1>13, <1>15 DEF ReleasedHandleIsInert
  <1>20. ReservationsBalance'
    <2>1. /\ used'.slots = inventory'.base.slots + Total(DOMAIN active', slotsOf(active'))
          /\ used'.tier = inventory'.base.tier + Total(DOMAIN active', tierOf(active'))
          /\ used'.buffer = inventory'.base.buffer + Total(DOMAIN active', bufferOf(active'))
      <3>1. inventory' = inventory
        BY <1>2
      <3> QED BY <1>7, <1>8, <1>9, <1>10, <1>11, <1>14, <3>1
    <2>2. mode' # "disabled" =>
             used'.slots <= inventory'.slots /\ used'.tier + used'.buffer <= inventory'.tier
      <3>1. mode # "disabled" =>
               used.slots <= inventory.slots /\ used.tier + used.buffer <= inventory.tier
        BY <1>1 DEF ReservationsBalance
      <3>2. inventory' = inventory /\ mode' = mode
        BY <1>2
      <3>3. used.slots - r.slots <= used.slots
               /\ (used.tier - r.tier) + (used.buffer - r.buffer) <= used.tier + used.buffer
        BY <1>11
      <3> QED BY <1>11, <1>14, <3>1, <3>2, <3>3
    <2>3. \A b \in DOMAIN activeByAttempt :
             activeByAttempt[b] \in DOMAIN active /\ active[activeByAttempt[b]].attempt = b
      BY <1>1 DEF ReservationsBalance
    <2>4. \A l \in DOMAIN active : \E b \in DOMAIN activeByAttempt : activeByAttempt[b] = l
      BY <1>1 DEF ReservationsBalance
    <2>5. \A b \in DOMAIN activeByAttempt : (activeByAttempt[b] = n) <=> (b = lease.attempt)
      BY <1>2, <2>3, <2>4
    <2>6. {activeByAttempt'[b] : b \in DOMAIN activeByAttempt'} = DOMAIN active'
      BY <1>4, <1>16, <2>3, <2>4, <2>5
    <2>7. \A b \in DOMAIN activeByAttempt' : active'[activeByAttempt'[b]].attempt = b
      BY <1>4, <1>16, <2>3, <2>5
    <2> QED BY <2>1, <2>2, <2>6, <2>7 DEF ReservationsBalance, slotsOf, tierOf, bufferOf
  <1> QED BY <1>17, <1>18, <1>19, <1>20 DEF CooperativeInv, CooperativeIsExact

LEMMA CooperativeInvStep ==
    ASSUME CooperativeInv, [CooperativeNext]_cooperativeVars PROVE CooperativeInv'
  <1>1. CASE UNCHANGED cooperativeVars
    <2>1. CooperativeTyped'
      BY <1>1 DEF CooperativeInv, CooperativeTyped, cooperativeVars, ledgerVars
    <2>2. CooperativeIsExact'
      BY <1>1, CooperativeUnchanged DEF CooperativeInv, cooperativeVars, ledgerVars
    <2> QED BY <2>1, <2>2 DEF CooperativeInv
  <1>2. CASE CooperativeNext
    BY <1>2, ConfigureKeepsCooperative, SubmitAgainKeepsCooperative, SubmitKeepsCooperative,
       ReleaseKeepsCooperative DEF CooperativeNext
  <1> QED BY <1>1, <1>2

\* Whatever is refused, retried, released or reconfigured at the cooperative
\* boundary, handles, leases and what is used agree, for any attempts, plans,
\* reservations and inventories (CooperativeAdmissionLedger, ffi/runtime.rs).
THEOREM CooperativeBooksBalance == CooperativeSpec => []CooperativeIsExact
  <1>1. CooperativeInv => CooperativeIsExact
    BY DEF CooperativeInv
  <1> QED BY <1>1, CooperativeInvInit, CooperativeInvStep, PTL DEF CooperativeSpec

-----------------------------------------------------------------------------
(* The lock.                                                               *)

\* What a waiter's state says about its coroutine.
StateMatchesCoroutine ==
    \A w \in Acquisitions :
        /\ pc[w] = "new" => state[w] = "NONE"
        /\ state[w] \in {"WAITING", "GRANTED"} => pc[w] = "awaiting"
        /\ pc[w] = "holding" => state[w] \in {"NONE", "ACQUIRED"}

\* The deque holds waiters that wait, each once.
DequeWaits ==
    /\ \A i \in 1 .. Len(waiters) : state[waiters[i]] = "WAITING"
    /\ \A i, j \in 1 .. Len(waiters) : waiters[i] = waiters[j] => i = j

\* A waiter is granted once: until it is, nothing was sent to it; then the
\* grant is with one dispatching thread, or with its loop, or in its future.
GrantTravelsOnce ==
    /\ \A w \in Acquisitions :
          /\ state[w] \in {"NONE", "WAITING"} =>
                /\ w \notin callbacks
                /\ future[w] # "result"
                /\ \A l \in Loops : dispatching[l] # w
          /\ w \in callbacks => future[w] # "result"
          /\ future[w] = "result" /\ pc[w] = "awaiting" => state[w] = "GRANTED"
    /\ \A l \in Loops : dispatching[l] \in Acquisitions =>
          /\ dispatching[l] \notin callbacks
          /\ future[dispatching[l]] # "result"
          /\ \A m \in Loops : dispatching[m] = dispatching[l] => m = l

LockInv ==
    /\ TypeOK
    /\ StateMatchesCoroutine
    /\ DequeWaits
    /\ GrantTravelsOnce
    /\ LockedIffOwned
    /\ NoFreeLockWithWaiters
    /\ NoHandoffError

-----------------------------------------------------------------------------
\* Owner w gives up the lock: a grant is cancelled, or a holder releases.  st
\* is the state it leaves and p where its coroutine goes.
GivesUp(w, st, p) ==
    \/ /\ state[w] = "GRANTED"
       /\ st = [state EXCEPT ![w] = "CANCELLED"]
       /\ p = "cancelled" \/ (p = pc[w] /\ future[w] # "result")
    \/ pc[w] = "holding" /\ st = state /\ p = "done"

\* The thread of loop l takes the lock from w and looks for the next waiter.
Handoff(w, l, st, p) ==
    /\ w \in Owners
    /\ dispatching[l] \in {NoWaiter, w}
    /\ GivesUp(w, st, p)
    /\ NextWaiter(st, l)
    /\ pc' = [pc EXCEPT ![w] = p]
    /\ callbacks' \subseteq callbacks
    /\ UNCHANGED <<future, cancelling, open>>

\* The lock changes hands: whoever calls _next_waiter_locked owns the lock and
\* gives it up, and the waiter found, if any, becomes the one owner.
LEMMA HandoffInv ==
    ASSUME LockInv, NEW w \in Acquisitions, NEW l \in Loops, NEW st, NEW p,
           Handoff(w, l, st, p)
    PROVE  LockInv'
  <1> USE LockAssumption DEF LockInv, Handoff
  <1>1. state[w] # "WAITING"
        /\ p \in {"cancelled", "awaiting", "done"}
    BY DEF Owners, StateMatchesCoroutine, Handoff, GivesUp
  <1>2. /\ st \in [Acquisitions -> {"NONE", "WAITING", "GRANTED", "ACQUIRED",
                                    "CANCELLED"}]
        /\ \A v \in Acquisitions \ {w} : st[v] = state[v]
        /\ st[w] \in {"NONE", "ACQUIRED", "CANCELLED"}
    BY <1>1 DEF TypeOK, StateMatchesCoroutine, Handoff, GivesUp
  <1>3. \A v \in Acquisitions : v \in Owners => v = w
    BY DEF LockedIffOwned, Handoff
  <1>4. CASE \E i \in 1 .. Len(waiters) :
                /\ st[waiters[i]] = "WAITING"
                /\ waiters' = SubSeq(waiters, i + 1, Len(waiters))
                /\ state' = [st EXCEPT ![waiters[i]] = "GRANTED"]
                /\ dispatching' = [dispatching EXCEPT ![l] = waiters[i]]
                /\ UNCHANGED locked
    <2>1. PICK i \in 1 .. Len(waiters) :
                /\ st[waiters[i]] = "WAITING"
                /\ waiters' = SubSeq(waiters, i + 1, Len(waiters))
                /\ state' = [st EXCEPT ![waiters[i]] = "GRANTED"]
                /\ dispatching' = [dispatching EXCEPT ![l] = waiters[i]]
                /\ UNCHANGED locked
      BY <1>4
    <2> DEFINE v == waiters[i]
    <2>2. v \in Acquisitions /\ state[v] = "WAITING" /\ pc[v] = "awaiting" /\ v # w
      BY <1>1, <1>2, <2>1 DEF TypeOK, StateMatchesCoroutine
    <2>3. /\ waiters' \in Seq(Acquisitions)
          /\ Len(waiters') = Len(waiters) - i
          /\ \A j \in 1 .. Len(waiters) - i : waiters'[j] = waiters[i + j]
      <3>1. waiters \in Seq(Acquisitions)
        BY DEF TypeOK
      <3>2. \A j \in i + 1 .. Len(waiters) : waiters[j] \in Acquisitions
        BY <3>1
      <3> QED BY <2>1, <3>1, <3>2, SubSeqProperties
    <2> HIDE DEF v
    <2>4. /\ state' = [st EXCEPT ![v] = "GRANTED"]
          /\ dispatching' = [dispatching EXCEPT ![l] = v]
          /\ UNCHANGED locked
      BY <2>1 DEF v
    <2>5. TypeOK'
      BY <1>1, <1>2, <2>2, <2>3, <2>4 DEF TypeOK, taskVars
    <2>6. StateMatchesCoroutine'
      BY <1>1, <1>2, <2>2, <2>4 DEF TypeOK, StateMatchesCoroutine
    <2>7. GrantTravelsOnce'
      BY <1>1, <1>2, <2>2, <2>4 DEF TypeOK, GrantTravelsOnce, GivesUp, taskVars
    <2>8. Owners' = {v}
      BY <1>1, <1>2, <1>3, <2>2, <2>4 DEF TypeOK, Owners
    <2>9. locked /\ locked'
      BY <2>4 DEF LockedIffOwned
    <2>10. LockedIffOwned' /\ NoFreeLockWithWaiters'
      BY <2>8, <2>9 DEF LockedIffOwned, NoFreeLockWithWaiters
    <2>11. NoHandoffError'
      BY <1>1 DEF TypeOK, NoHandoffError
    <2>12. DequeWaits'
      <3>1. waiters \in Seq(Acquisitions) /\ Len(waiters) \in Nat
        BY DEF TypeOK
      <3>2. \A j \in 1 .. Len(waiters) - i :
               /\ i + j \in 1 .. Len(waiters)
               /\ waiters[i + j] \in Acquisitions
               /\ state[waiters[i + j]] = "WAITING"
               /\ waiters[i + j] # v
        BY <3>1 DEF DequeWaits, v
      <3>3. \A u \in Acquisitions :
               state[u] = "WAITING" /\ u # v => state'[u] = "WAITING"
        BY <1>1, <1>2, <2>2, <2>4
      <3>4. \A j \in 1 .. Len(waiters') : state'[waiters'[j]] = "WAITING"
        BY <2>3, <3>2, <3>3
      <3>5. \A j, k \in 1 .. Len(waiters') : waiters'[j] = waiters'[k] => j = k
        <4>1. \A j, k \in 1 .. Len(waiters) - i :
                 waiters[i + j] = waiters[i + k] => i + j = i + k
          BY <3>2 DEF DequeWaits
        <4>2. \A j, k \in 1 .. Len(waiters) - i :
                 waiters'[j] = waiters'[k] => i + j = i + k
          BY <2>3, <4>1
        <4> QED BY <2>3, <3>1, <4>2
      <3> QED BY <3>4, <3>5 DEF DequeWaits
    <2> QED BY <2>5, <2>6, <2>7, <2>10, <2>11, <2>12
  <1>5. CASE /\ waiters' = <<>>
             /\ state' = st
             /\ dispatching' = [dispatching EXCEPT ![l] = NoWaiter]
             /\ locked' = FALSE
    <2>1. TypeOK'
      <3>1. waiters' \in Seq(Acquisitions)
        BY <1>5
      <3>2. locked' \in BOOLEAN
        BY <1>5, Zenon
      <3>3. dispatching' \in [Loops -> Acquisitions \cup {NoWaiter}]
        BY <1>5 DEF TypeOK
      <3>4. pc' \in [Acquisitions -> {"new", "awaiting", "holding", "done",
                                      "cancelled", "error"}]
        BY <1>1 DEF TypeOK
      <3>5. state' \in [Acquisitions -> {"NONE", "WAITING", "GRANTED",
                                         "ACQUIRED", "CANCELLED"}]
        BY <1>2, <1>5
      <3>6. UNCHANGED <<future, cancelling, open>> /\ callbacks' \subseteq callbacks
        BY DEF taskVars
      <3> QED BY <3>1, <3>2, <3>3, <3>4, <3>5, <3>6, Zenon DEF TypeOK
    <2>2. StateMatchesCoroutine'
      BY <1>1, <1>2, <1>5 DEF TypeOK, StateMatchesCoroutine
    <2>3. DequeWaits' /\ NoFreeLockWithWaiters'
      BY <1>5 DEF DequeWaits, NoFreeLockWithWaiters
    <2>4. GrantTravelsOnce'
      BY <1>1, <1>2, <1>5, ZenonT(60) DEF TypeOK, GrantTravelsOnce, GivesUp, taskVars
    <2>5. Owners' = {}
      BY <1>1, <1>2, <1>3, <1>5 DEF TypeOK, Owners
    <2>6. LockedIffOwned'
      BY <1>5, <2>5 DEF LockedIffOwned
    <2>7. NoHandoffError'
      BY <1>1 DEF TypeOK, NoHandoffError
    <2> QED BY <2>1, <2>2, <2>3, <2>4, <2>6, <2>7
  <1> QED BY <1>4, <1>5 DEF NextWaiter

\* A waiting coroutine is cancelled: its waiter leaves the deque, or what it
\* was granted is passed on.
LEMMA CancelWaiterInv ==
    ASSUME LockInv, NEW w \in Acquisitions, NEW l \in Loops,
           pc[w] = "awaiting", dispatching[l] = NoWaiter, CancelWaiter(w, l)
    PROVE  LockInv'
  <1> USE LockAssumption DEF LockInv
  <1>1. pc' = [pc EXCEPT ![w] = "cancelled"] /\ UNCHANGED <<taskVars, callbacks, open>>
    BY DEF CancelWaiter
  <1>2. CASE state[w] = "GRANTED"
    <2> DEFINE st == [state EXCEPT ![w] = "CANCELLED"]
    <2>1. Handoff(w, l, st, "cancelled")
      BY <1>1, <1>2 DEF CancelWaiter, Handoff, GivesUp, Owners, taskVars
    <2> HIDE DEF st
    <2> QED BY <2>1, HandoffInv
  <1>3. CASE state[w] \notin {"WAITING", "GRANTED"}
    <2>1. UNCHANGED <<lockVars, dispatching>>
      BY <1>3 DEF CancelWaiter
    <2>2. TypeOK' /\ StateMatchesCoroutine' /\ DequeWaits' /\ GrantTravelsOnce'
      BY <1>1, <1>3, <2>1 DEF TypeOK, StateMatchesCoroutine, DequeWaits,
                              GrantTravelsOnce, lockVars, taskVars
    <2>3. Owners' = Owners
      BY <1>1, <1>3, <2>1 DEF Owners, TypeOK, lockVars
    <2>4. LockedIffOwned' /\ NoFreeLockWithWaiters' /\ NoHandoffError'
      BY <1>1, <2>1, <2>3 DEF LockedIffOwned, NoFreeLockWithWaiters,
                              NoHandoffError, TypeOK, lockVars
    <2> QED BY <2>2, <2>4
  <1>4. CASE state[w] = "WAITING"
    <2>1. /\ state' = [state EXCEPT ![w] = "CANCELLED"]
          /\ RemoveWaiter(w)
          /\ UNCHANGED <<locked, dispatching>>
      BY <1>4 DEF CancelWaiter
    <2>2. waiters \in Seq(Acquisitions) /\ Len(waiters) \in Nat
      BY DEF TypeOK
    <2>3. /\ waiters' \in Seq(Acquisitions)
          /\ waiters' # <<>> => waiters # <<>>
          /\ \A j \in 1 .. Len(waiters') : \E k \in 1 .. Len(waiters) :
                waiters'[j] = waiters[k] /\ waiters[k] # w
          /\ \A j, k \in 1 .. Len(waiters') : waiters'[j] = waiters'[k] => j = k
      <3>1. CASE \A i \in 1 .. Len(waiters) : waiters[i] # w
        <4>1. UNCHANGED waiters
          BY <2>1, <3>1 DEF RemoveWaiter
        <4> QED BY <2>2, <3>1, <4>1 DEF DequeWaits
      <3>2. ASSUME NEW i \in 1 .. Len(waiters), waiters[i] = w,
                   waiters' = RemoveAt(waiters, i)
            PROVE  <2>3!1 /\ <2>3!2 /\ <2>3!3 /\ <2>3!4
        <4>1. /\ waiters' \in Seq(Acquisitions)
              /\ Len(waiters') = Len(waiters) - 1
              /\ \A j \in 1 .. Len(waiters) - 1 :
                    waiters'[j] = IF j < i THEN waiters[j] ELSE waiters[j + 1]
          BY <2>2, <3>2, RemoveAtProperties
        <4>2. waiters # <<>>
          BY <2>2
        <4>3. \A k \in 1 .. Len(waiters) : k # i => waiters[k] # w
          BY <3>2 DEF DequeWaits
        <4>4. \A j \in 1 .. Len(waiters') : \E k \in 1 .. Len(waiters) :
                 waiters'[j] = waiters[k] /\ waiters[k] # w
          <5> TAKE j \in 1 .. Len(waiters')
          <5>1. CASE j < i
            BY <2>2, <4>1, <4>3, <5>1
          <5>2. CASE ~(j < i)
            <6>1. j + 1 \in 1 .. Len(waiters) /\ j + 1 # i
              BY <2>2, <4>1, <5>2
            <6> QED BY <4>1, <4>3, <5>2, <6>1
          <5> QED BY <5>1, <5>2
        <4>5. \A j, k \in 1 .. Len(waiters') : waiters'[j] = waiters'[k] => j = k
          <5>1. \A m, n \in 1 .. Len(waiters) : waiters[m] = waiters[n] => m = n
            BY DEF DequeWaits
          <5> QED BY <2>2, <4>1, <5>1
        <4> QED BY <4>1, <4>2, <4>4, <4>5
      <3> QED BY <2>1, <3>1, <3>2 DEF RemoveWaiter
    <2>4. TypeOK'
      BY <1>1, <2>1, <2>3 DEF TypeOK, taskVars
    <2>5. StateMatchesCoroutine' /\ GrantTravelsOnce'
      BY <1>1, <1>4, <2>1 DEF TypeOK, StateMatchesCoroutine, GrantTravelsOnce,
                              taskVars
    <2>6. DequeWaits'
      BY <2>1, <2>2, <2>3 DEF DequeWaits, TypeOK
    <2>7. Owners' = Owners
      BY <1>1, <1>4, <2>1 DEF Owners, TypeOK
    <2>8. LockedIffOwned' /\ NoFreeLockWithWaiters' /\ NoHandoffError'
      BY <1>1, <2>1, <2>3, <2>7 DEF LockedIffOwned, NoFreeLockWithWaiters,
                                    NoHandoffError, TypeOK
    <2> QED BY <2>4, <2>5, <2>6, <2>8
  <1> QED BY <1>2, <1>3, <1>4

\* Initially the lock is free and nothing is on its way.
LEMMA LockInit == Init => LockInv
  <1> SUFFICES ASSUME Init PROVE LockInv
    OBVIOUS
  <1> USE LockAssumption DEF Init
  <1>1. locked \in BOOLEAN
    BY Zenon
  <1>2. cancelling \in [Acquisitions -> BOOLEAN]
    BY Zenon
  <1>3. TypeOK
    BY <1>1, <1>2 DEF TypeOK
  <1>4. StateMatchesCoroutine /\ DequeWaits /\ GrantTravelsOnce
    BY DEF StateMatchesCoroutine, DequeWaits, GrantTravelsOnce
  <1>5. Owners = {}
    BY DEF Owners
  <1>6. LockedIffOwned /\ NoFreeLockWithWaiters /\ NoHandoffError
    BY <1>5 DEF LockedIffOwned, NoFreeLockWithWaiters, NoHandoffError
  <1> QED BY <1>3, <1>4, <1>6 DEF LockInv

\* Every step keeps the invariant.
LEMMA LockStep == LockInv /\ [Next]_vars => LockInv'
  <1> SUFFICES ASSUME LockInv, [Next]_vars PROVE LockInv'
    OBVIOUS
  <1> USE LockAssumption
  <1>1. ASSUME NEW w \in Acquisitions, AcquireFree(w)
        PROVE  LockInv'
    <2> USE DEF LockInv
    <2>1. /\ pc[w] = "new" /\ ~locked /\ locked' = TRUE
          /\ pc' = [pc EXCEPT ![w] = "holding"]
          /\ UNCHANGED <<waiters, state, taskVars, callbacks, dispatching, open>>
      BY <1>1 DEF AcquireFree
    <2>2. locked' \in BOOLEAN
      BY <2>1, Zenon
    <2>3. TypeOK'
      BY <2>1, <2>2 DEF TypeOK, taskVars
    <2>4. StateMatchesCoroutine' /\ DequeWaits' /\ GrantTravelsOnce'
      BY <2>1 DEF TypeOK, StateMatchesCoroutine, DequeWaits, GrantTravelsOnce,
                  taskVars
    <2>5. Owners = {}
      BY <2>1 DEF LockedIffOwned
    <2>6. Owners' = {w}
      BY <2>1, <2>5 DEF Owners, TypeOK
    <2>7. LockedIffOwned' /\ NoFreeLockWithWaiters' /\ NoHandoffError'
      BY <2>1, <2>6 DEF LockedIffOwned, NoFreeLockWithWaiters, NoHandoffError,
                        TypeOK
    <2> QED BY <2>3, <2>4, <2>7
  <1>2. ASSUME NEW w \in Acquisitions, AcquireWait(w)
        PROVE  LockInv'
    <2> USE DEF LockInv
    <2>1. /\ pc[w] = "new" /\ locked
          /\ waiters' = Append(waiters, w)
          /\ state' = [state EXCEPT ![w] = "WAITING"]
          /\ future' = [future EXCEPT ![w] = "pending"]
          /\ pc' = [pc EXCEPT ![w] = "awaiting"]
          /\ UNCHANGED <<locked, cancelling, callbacks, dispatching, open>>
      BY <1>2 DEF AcquireWait
    <2>2. state[w] = "NONE"
      BY <2>1 DEF StateMatchesCoroutine
    <2>3. TypeOK'
      BY <2>1 DEF TypeOK
    <2>4. StateMatchesCoroutine' /\ GrantTravelsOnce'
      BY <2>1, <2>2 DEF TypeOK, StateMatchesCoroutine, GrantTravelsOnce
    <2>5. DequeWaits'
      <3>1. waiters \in Seq(Acquisitions) /\ Len(waiters) \in Nat
        BY DEF TypeOK
      <3>2. \A i \in 1 .. Len(waiters) :
               waiters[i] \in Acquisitions /\ waiters[i] # w
        BY <2>2, <3>1 DEF DequeWaits
      <3>3. /\ Len(waiters') = Len(waiters) + 1
            /\ \A i \in 1 .. Len(waiters) : waiters'[i] = waiters[i]
            /\ waiters'[Len(waiters) + 1] = w
        BY <2>1, <3>1
      <3>4. \A i \in 1 .. Len(waiters') : state'[waiters'[i]] = "WAITING"
        BY <2>1, <3>1, <3>2, <3>3 DEF DequeWaits, TypeOK
      <3>5. \A i, j \in 1 .. Len(waiters') : waiters'[i] = waiters'[j] => i = j
        BY <3>1, <3>2, <3>3 DEF DequeWaits
      <3> QED BY <3>4, <3>5 DEF DequeWaits
    <2>6. Owners' = Owners
      BY <2>1, <2>2 DEF Owners, TypeOK
    <2>7. LockedIffOwned' /\ NoFreeLockWithWaiters' /\ NoHandoffError'
      BY <2>1, <2>6 DEF LockedIffOwned, NoFreeLockWithWaiters, NoHandoffError,
                        TypeOK
    <2> QED BY <2>3, <2>4, <2>5, <2>7
  <1>3. ASSUME NEW w \in Acquisitions, Resume(w)
        PROVE  LockInv'
    <2> USE DEF LockInv
    <2>1. state[w] = "GRANTED" /\ pc[w] = "awaiting"
      BY <1>3 DEF Resume, GrantTravelsOnce
    <2>2. /\ state' = [state EXCEPT ![w] = "ACQUIRED"]
          /\ pc' = [pc EXCEPT ![w] = "holding"]
          /\ UNCHANGED <<locked, waiters, taskVars, callbacks, dispatching, open>>
      BY <1>3, <2>1 DEF Resume
    <2>3. TypeOK'
      BY <2>2 DEF TypeOK, taskVars
    <2>4. StateMatchesCoroutine' /\ GrantTravelsOnce'
      BY <2>1, <2>2 DEF TypeOK, StateMatchesCoroutine, GrantTravelsOnce, taskVars
    <2>5. DequeWaits'
      BY <2>1, <2>2 DEF TypeOK, DequeWaits
    <2>6. Owners' = Owners
      BY <2>1, <2>2 DEF Owners, TypeOK
    <2>7. LockedIffOwned' /\ NoFreeLockWithWaiters' /\ NoHandoffError'
      BY <2>2, <2>6 DEF LockedIffOwned, NoFreeLockWithWaiters, NoHandoffError,
                        TypeOK
    <2> QED BY <2>3, <2>4, <2>5, <2>7
  <1>4. ASSUME NEW w \in Acquisitions, CancelTask(w)
        PROVE  LockInv'
    <2> USE DEF LockInv
    <2>1. /\ \/ future' = [future EXCEPT ![w] = "cancelled"] /\ UNCHANGED cancelling
             \/ cancelling' = [cancelling EXCEPT ![w] = TRUE] /\ UNCHANGED future
          /\ UNCHANGED <<locked, waiters, state, pc, callbacks, dispatching, open>>
      BY <1>4 DEF CancelTask, lockVars
    <2>2. cancelling' \in [Acquisitions -> BOOLEAN]
      BY <2>1, Zenon DEF TypeOK
    <2>3. future' \in [Acquisitions -> {"none", "pending", "result", "cancelled"}]
          /\ \A v \in Acquisitions : future'[v] = "result" => future[v] = "result"
      BY <2>1 DEF TypeOK
    <2>4. TypeOK'
      BY <2>1, <2>2, <2>3 DEF TypeOK
    <2>5. StateMatchesCoroutine' /\ GrantTravelsOnce' /\ DequeWaits'
      BY <2>1, <2>3 DEF StateMatchesCoroutine, GrantTravelsOnce, DequeWaits
    <2>6. LockedIffOwned' /\ NoFreeLockWithWaiters' /\ NoHandoffError'
      BY <2>1 DEF LockedIffOwned, NoFreeLockWithWaiters, NoHandoffError, Owners
    <2> QED BY <2>4, <2>5, <2>6
  <1>5. ASSUME NEW w \in Acquisitions, Raise(w)
        PROVE  LockInv'
    <2>1. LoopOf[w] \in Loops
      OBVIOUS
    <2>2. pc[w] = "awaiting" /\ dispatching[LoopOf[w]] = NoWaiter
          /\ CancelWaiter(w, LoopOf[w])
      BY <1>5 DEF Raise, Ready
    <2> QED BY <2>1, <2>2, CancelWaiterInv
  <1>6. ASSUME NEW w \in Acquisitions, NEW l \in Loops, Collect(w, l)
        PROVE  LockInv'
    BY <1>6, CancelWaiterInv DEF Collect, Ready
  <1>7. ASSUME NEW w \in Acquisitions, Release(w)
        PROVE  LockInv'
    <2>1. locked /\ pc[w] = "holding" /\ w \in Owners
      BY <1>7 DEF Release, LockInv, LockedIffOwned, Owners
    <2>2. Handoff(w, LoopOf[w], state, "done")
      BY <1>7, <2>1 DEF Release, Ready, Handoff, GivesUp, taskVars
    <2>3. LoopOf[w] \in Loops
      OBVIOUS
    <2> QED BY <2>2, <2>3, HandoffInv
  <1>8. ASSUME NEW w \in Acquisitions, RunDeliver(w)
        PROVE  LockInv'
    <2>1. w \in callbacks /\ callbacks' = callbacks \ {w}
          /\ UNCHANGED <<cancelling, pc, open>>
      BY <1>8 DEF RunDeliver
    <2>2. CASE state[w] # "GRANTED"
      <3> USE DEF LockInv
      <3>1. UNCHANGED <<lockVars, future, dispatching>>
        BY <1>8, <2>2 DEF RunDeliver
      <3>2. TypeOK' /\ StateMatchesCoroutine' /\ DequeWaits' /\ GrantTravelsOnce'
        BY <2>1, <3>1 DEF TypeOK, StateMatchesCoroutine, DequeWaits,
                          GrantTravelsOnce, lockVars
      <3>3. LockedIffOwned' /\ NoFreeLockWithWaiters' /\ NoHandoffError'
        BY <2>1, <3>1 DEF LockedIffOwned, NoFreeLockWithWaiters, NoHandoffError,
                          Owners, lockVars
      <3> QED BY <3>2, <3>3
    <2>3. CASE state[w] = "GRANTED" /\ future[w] = "cancelled"
      <3> DEFINE st == [state EXCEPT ![w] = "CANCELLED"]
      <3>1. pc[w] = "awaiting"
        BY <2>3 DEF LockInv, StateMatchesCoroutine
      <3>2. pc' = [pc EXCEPT ![w] = pc[w]]
        BY <2>1 DEF LockInv, TypeOK
      <3>3. Handoff(w, LoopOf[w], st, pc[w])
        BY <1>8, <2>1, <2>3, <3>1, <3>2
           DEF RunDeliver, Ready, Handoff, GivesUp, Owners
      <3>4. LoopOf[w] \in Loops
        OBVIOUS
      <3> HIDE DEF st
      <3> QED BY <3>3, <3>4, HandoffInv
    <2>4. CASE state[w] = "GRANTED" /\ future[w] # "cancelled"
      <3> USE DEF LockInv
      <3>1. /\ future' = [future EXCEPT ![w] = "result"]
            /\ UNCHANGED <<lockVars, dispatching>>
        BY <1>8, <2>4 DEF RunDeliver
      <3>2. TypeOK' /\ StateMatchesCoroutine' /\ DequeWaits'
        BY <2>1, <3>1 DEF TypeOK, StateMatchesCoroutine, DequeWaits, lockVars
      <3>3. GrantTravelsOnce'
        BY <2>1, <2>4, <3>1 DEF TypeOK, GrantTravelsOnce, lockVars
      <3>4. LockedIffOwned' /\ NoFreeLockWithWaiters' /\ NoHandoffError'
        BY <2>1, <3>1 DEF LockedIffOwned, NoFreeLockWithWaiters, NoHandoffError,
                          Owners, lockVars
      <3> QED BY <3>2, <3>3, <3>4
    <2> QED BY <2>2, <2>3, <2>4
  <1>9. ASSUME NEW l \in Loops, DispatchAccepted(l)
        PROVE  LockInv'
    <2> USE DEF LockInv
    <2> DEFINE w == dispatching[l]
    <2>1. /\ w \in Acquisitions
          /\ callbacks' = callbacks \cup {w}
          /\ dispatching' = [dispatching EXCEPT ![l] = NoWaiter]
          /\ UNCHANGED <<lockVars, taskVars, pc, open>>
      BY <1>9 DEF DispatchAccepted, TypeOK
    <2>2. TypeOK' /\ StateMatchesCoroutine' /\ DequeWaits'
      BY <2>1 DEF TypeOK, StateMatchesCoroutine, DequeWaits, lockVars, taskVars
    <2>3. GrantTravelsOnce'
      BY <2>1 DEF TypeOK, GrantTravelsOnce, lockVars, taskVars
    <2>4. LockedIffOwned' /\ NoFreeLockWithWaiters' /\ NoHandoffError'
      BY <2>1 DEF LockedIffOwned, NoFreeLockWithWaiters, NoHandoffError, Owners,
                  lockVars
    <2> QED BY <2>2, <2>3, <2>4
  <1>10. ASSUME NEW l \in Loops, DispatchAbandoned(l)
         PROVE  LockInv'
    <2> DEFINE w == dispatching[l]
    <2>1. w \in Acquisitions /\ UNCHANGED <<taskVars, pc, callbacks, open>>
      BY <1>10 DEF DispatchAbandoned, LockInv, TypeOK
    <2>2. CASE state[w] = "GRANTED"
      <3> DEFINE st == [state EXCEPT ![w] = "CANCELLED"]
      <3>1. pc[w] = "awaiting" /\ future[w] # "result"
        BY <2>1, <2>2 DEF LockInv, StateMatchesCoroutine, GrantTravelsOnce
      <3>2. pc' = [pc EXCEPT ![w] = pc[w]]
        BY <2>1 DEF LockInv, TypeOK
      <3>3. NextWaiter(st, l)
        BY <1>10, <2>2 DEF DispatchAbandoned
      <3>4. Handoff(w, l, st, pc[w])
        BY <2>1, <2>2, <3>1, <3>2, <3>3 DEF Handoff, GivesUp, Owners, taskVars
      <3> HIDE DEF w, st
      <3> QED BY <2>1, <3>4, HandoffInv
    <2>3. CASE state[w] # "GRANTED"
      <3> USE DEF LockInv
      <3>1. /\ dispatching' = [dispatching EXCEPT ![l] = NoWaiter]
            /\ UNCHANGED lockVars
        BY <1>10, <2>3 DEF DispatchAbandoned
      <3>2. TypeOK' /\ StateMatchesCoroutine' /\ DequeWaits' /\ GrantTravelsOnce'
        BY <2>1, <3>1 DEF TypeOK, StateMatchesCoroutine, DequeWaits,
                          GrantTravelsOnce, lockVars, taskVars
      <3>3. LockedIffOwned' /\ NoFreeLockWithWaiters' /\ NoHandoffError'
        BY <2>1, <3>1 DEF LockedIffOwned, NoFreeLockWithWaiters, NoHandoffError,
                          Owners, lockVars
      <3> QED BY <3>2, <3>3
    <2> QED BY <2>2, <2>3
  <1>11. ASSUME NEW l \in Loops, CloseLoop(l)
         PROVE  LockInv'
    <2> USE DEF LockInv
    <2>1. /\ open' \subseteq open /\ callbacks' \subseteq callbacks
          /\ UNCHANGED <<lockVars, taskVars, pc, dispatching>>
      BY <1>11 DEF CloseLoop
    <2>2. TypeOK' /\ StateMatchesCoroutine' /\ DequeWaits' /\ GrantTravelsOnce'
      BY <2>1 DEF TypeOK, StateMatchesCoroutine, DequeWaits, GrantTravelsOnce,
                  lockVars, taskVars
    <2>3. LockedIffOwned' /\ NoFreeLockWithWaiters' /\ NoHandoffError'
      BY <2>1 DEF LockedIffOwned, NoFreeLockWithWaiters, NoHandoffError, Owners,
                  lockVars
    <2> QED BY <2>2, <2>3
  <1>12. CASE UNCHANGED vars
    BY <1>12 DEF LockInv, TypeOK, StateMatchesCoroutine, DequeWaits,
                 GrantTravelsOnce, LockedIffOwned, Owners, NoFreeLockWithWaiters,
                 NoHandoffError, vars, lockVars, taskVars
  <1> QED BY <1>1, <1>2, <1>3, <1>4, <1>5, <1>6, <1>7, <1>8, <1>9, <1>10, <1>11,
             <1>12 DEF Next

\* The invariant holds throughout.
LEMMA LockInvariant == Spec => []LockInv
  BY LockInit, LockStep, PTL DEF Spec

\* At most one coroutine is between acquire and release, whatever is cancelled
\* and whichever loops are closed.
THEOREM Exclusion == Spec => []MutualExclusion
  <1>1. LockInv => MutualExclusion
    BY DEF LockInv, LockedIffOwned, MutualExclusion, Owners
  <1> QED BY <1>1, LockInvariant, PTL

\* The lock is locked exactly while one acquisition holds it or is on its way
\* to: no path of cancel, abandon or deliver leaks it or grants it twice.
THEOREM LockNeverLeaks == Spec => []LockedIffOwned
  <1>1. LockInv => LockedIffOwned
    BY DEF LockInv
  <1> QED BY <1>1, LockInvariant, PTL

\* Neither of the code's two assertions ever raises.
THEOREM NoLostHandoff == Spec => []NoHandoffError
  <1>1. LockInv => NoHandoffError
    BY DEF LockInv
  <1> QED BY <1>1, LockInvariant, PTL

\* While someone waits the lock is locked: release and the abandoning of a
\* grant pass the lock on instead of freeing it beside a waiter.
THEOREM WaitersImplyLocked == Spec => []NoFreeLockWithWaiters
  <1>1. LockInv => NoFreeLockWithWaiters
    BY DEF LockInv
  <1> QED BY <1>1, LockInvariant, PTL

\* Release, cancellation and the abandoning of a grant hand the lock over
\* without freeing it beside a waiter and without tripping an assertion.
THEOREM HandoverSafe == Spec => []HandoverIsSafe
  <1>1. LockInv => HandoverIsSafe
    BY DEF LockInv, HandoverIsSafe
  <1> QED BY <1>1, LockInvariant, PTL

-----------------------------------------------------------------------------
(* The hot engine.                                                         *)

HandleTypes == [slot : Nat, generation : Nat, hash : Payloads]
SlotTypes == [generation : Nat, payload : Payloads \cup {Hot!NoPayload}, hash : Payloads]
Commands ==
    [type : {"seal"}, id : Nat, handle : HandleTypes, payload : Payloads]
      \cup [type : {"flush", "shutdown"}]
Answers == [id : Nat, handle : HandleTypes, ok : BOOLEAN]

HandleAt(s) == [slot |-> s, generation |-> slots[s].generation, hash |-> slots[s].hash]

\* The handles not released are those of the slots in use, which hold what
\* their hash says.
ArenaHeld ==
    /\ slots \in Seq(SlotTypes) /\ free \in Seq(Nat)
    /\ live = {HandleAt(s) : s \in Hot!InUse}
    /\ \A s \in Hot!InUse : slots[s].payload = slots[s].hash
    /\ \A i, j \in 1 .. Len(free) : free[i] = free[j] => i = j
    /\ \A i \in 1 .. Len(free) : free[i] \in DOMAIN slots \ Hot!InUse
    /\ \A s \in DOMAIN slots \ Hot!InUse : \E i \in 1 .. Len(free) : free[i] = s
    /\ liveBytes = Hot!LiveSize /\ liveBytes <= MaxLiveBytes

\* The seals on their way carry the numbers that are not answered yet, in
\* order, each with the payload of its handle; a shutdown is the last command.
SealsHeld ==
    /\ channel \in Seq(Commands) /\ answered \in Seq(Answers) /\ queued \in Nat
    /\ \/ current = << >>
       \/ /\ current = <<current[1]>> /\ current[1] \in Commands
          /\ current[1].type = "seal" /\ current[1].id = Len(answered) + 1
          /\ current[1].payload = current[1].handle.hash
    /\ \A i \in Hot!Seals : channel[i].payload = channel[i].handle.hash
    /\ Len(answered) + Len(current) <= queued
    /\ {channel[i].id : i \in Hot!Seals} = Len(answered) + Len(current) + 1 .. queued
    /\ \A i, j \in Hot!Seals : i < j => channel[i].id < channel[j].id
    /\ \A i \in DOMAIN channel : channel[i].type = "shutdown" =>
          i = Len(channel) /\ sealer = "dropped"
    /\ sealer = "stopped" => channel = << >> /\ current = << >> /\ Len(answered) = queued
    /\ \A i \in DOMAIN answered : answered[i].id = i

ReceiptsHeld ==
    /\ \A i \in DOMAIN answered : answered[i].ok => answered[i].handle \in DOMAIN files
    /\ Hot!ReceiptIsTrue

HotInv == ArenaHeld /\ SealsHeld /\ ReceiptsHeld

LEMMA HotOperators ==
    /\ \A S : Hot!Cardinality(S) = Cardinality(S)
    /\ \A S, f : Hot!Total(S, f) = Total(S, f)
    /\ \A f : Hot!Range(f) = Range(f)
    /\ \A f : Hot!IsInjective(f) = IsInjective(f)
    /\ \A s : Hot!Last(s) = s[Len(s)]
    /\ \A s : Hot!Front(s) = SubSeq(s, 1, Len(s) - 1)
  <1>1. \A S : Hot!Cardinality(S) = Cardinality(S)
    BY Zenon DEF Hot!Cardinality, Cardinality, Hot!IsFiniteSet, IsFiniteSet
  <1>2. \A S, f : Hot!Total(S, f) = Total(S, f)
    BY <1>1, Zenon DEF Hot!Total, Total, Hot!Units, Units
  <1>3. \A f : Hot!Range(f) = Range(f)
    BY Zenon DEF Hot!Range, Range
  <1>4. \A f : Hot!IsInjective(f) = IsInjective(f)
    BY Zenon DEF Hot!IsInjective, IsInjective
  <1>5. \A s : Hot!Last(s) = s[Len(s)]
    BY Zenon DEF Hot!Last
  <1>6. \A s : Hot!Front(s) = SubSeq(s, 1, Len(s) - 1)
    BY Zenon DEF Hot!Front
  <1> QED BY <1>1, <1>2, <1>3, <1>4, <1>5, <1>6

LEMMA HotConstants ==
    /\ Size \in [Payloads -> Nat \ {0}] /\ Hot!NoPayload \notin Payloads
    /\ MaxLiveBytes \in Nat /\ MaxGeneration \in Nat \ {0}
  BY NativeAssumption DEF Hot!HotEngineAssumption

\* A slot in use holds a payload with a size.
LEMMA InUseTypes ==
    ASSUME ArenaHeld
    PROVE  /\ Len(slots) \in Nat /\ DOMAIN slots = 1 .. Len(slots)
           /\ Hot!InUse \subseteq DOMAIN slots /\ IsFiniteSet(Hot!InUse)
           /\ \A s \in DOMAIN slots : slots[s] \in SlotTypes
           /\ \A s \in Hot!InUse : slots[s].payload \in Payloads /\ Size[slots[s].payload] \in Nat
           /\ \A s \in DOMAIN slots \ Hot!InUse : slots[s].payload = Hot!NoPayload
           /\ Len(free) \in Nat /\ DOMAIN free = 1 .. Len(free)
           /\ liveBytes \in Nat
  <1>1. /\ Len(slots) \in Nat /\ DOMAIN slots = 1 .. Len(slots)
        /\ \A s \in DOMAIN slots : slots[s] \in SlotTypes
        /\ Len(free) \in Nat /\ DOMAIN free = 1 .. Len(free)
    BY DEF ArenaHeld
  <1>2. IsFiniteSet(Hot!InUse) /\ Hot!InUse \subseteq DOMAIN slots
    <2>1. IsFiniteSet(1 .. Len(slots))
      BY <1>1, FS_Interval
    <2>2. Hot!InUse \subseteq 1 .. Len(slots)
      BY <1>1 DEF Hot!InUse
    <2> QED BY <1>1, <2>1, <2>2, FS_Subset
  <1>3. \A s \in Hot!InUse : slots[s].payload \in Payloads /\ Size[slots[s].payload] \in Nat
    BY <1>1, HotConstants DEF Hot!InUse, SlotTypes
  <1>4. \A s \in DOMAIN slots \ Hot!InUse : slots[s].payload = Hot!NoPayload
    BY DEF Hot!InUse
  <1>5. liveBytes \in Nat
    <2> DEFINE amount == [s \in Hot!InUse |-> Size[slots[s].payload]]
    <2>1. \A s \in Hot!InUse : amount[s] \in Nat
      BY <1>3
    <2> HIDE DEF amount
    <2>2. Total(Hot!InUse, amount) \in Nat
      BY <1>2, <2>1, UnitsFinite
    <2> QED BY <2>2, HotOperators DEF ArenaHeld, Hot!LiveSize, amount
  <1> QED BY <1>1, <1>2, <1>3, <1>4, <1>5

LEMMA CommitKeepsArena ==
    ASSUME ArenaHeld, NEW p \in Payloads, Hot!Commit(p)
    PROVE  ArenaHeld'
  <1>1. PICK slot, row :
          /\ slot = IF free = << >> THEN Len(slots) + 1 ELSE free[Len(free)]
          /\ row = [generation |-> Hot!NextGeneration(Hot!Generation(slot)),
                    payload |-> p, hash |-> p]
          /\ free' = IF free = << >> THEN free ELSE SubSeq(free, 1, Len(free) - 1)
          /\ slots' = [s \in DOMAIN slots \cup {slot} |-> IF s = slot THEN row ELSE slots[s]]
          /\ liveBytes + Size[p] <= MaxLiveBytes /\ liveBytes' = liveBytes + Size[p]
          /\ live' = live \cup {[slot |-> slot, generation |-> row.generation, hash |-> p]}
    BY HotOperators DEF Hot!Commit
  <1>0. /\ Len(slots) \in Nat /\ DOMAIN slots = 1 .. Len(slots)
        /\ Hot!InUse \subseteq DOMAIN slots /\ IsFiniteSet(Hot!InUse)
        /\ \A s \in DOMAIN slots : slots[s] \in SlotTypes
        /\ \A s \in Hot!InUse : slots[s].payload \in Payloads /\ Size[slots[s].payload] \in Nat
        /\ \A s \in DOMAIN slots \ Hot!InUse : slots[s].payload = Hot!NoPayload
        /\ Len(free) \in Nat /\ DOMAIN free = 1 .. Len(free)
        /\ liveBytes \in Nat
    BY InUseTypes
  <1>2. Size[p] \in Nat
    BY <1>0, HotConstants
  <1>3. slot \notin Hot!InUse /\ slot \in 1 .. Len(slots) + 1
    <2>1. CASE free = << >>
      BY <1>0, <1>1, <2>1
    <2>2. CASE free # << >>
      <3>1. Len(free) \in 1 .. Len(free)
        BY <1>0, <2>2 DEF ArenaHeld
      <3> QED BY <1>0, <1>1, <2>2, <3>1 DEF ArenaHeld
    <2> QED BY <1>0, <2>1, <2>2
  <1>4. row \in SlotTypes /\ row.payload = p /\ row.hash = p
    <2>1. Hot!Generation(slot) \in Nat
      BY <1>0 DEF Hot!Generation, SlotTypes
    <2>2. Hot!NextGeneration(Hot!Generation(slot)) \in Nat
      BY <1>0, <2>1 DEF Hot!NextGeneration
    <2> QED BY <1>0, <1>1, <2>2 DEF SlotTypes
  <1>5. /\ DOMAIN slots' = DOMAIN slots \cup {slot} /\ slots'[slot] = row
        /\ \A s \in DOMAIN slots \ {slot} : slots'[s] = slots[s]
    BY <1>0, <1>1
  <1>6. Hot!InUse' = Hot!InUse \cup {slot}
    BY <1>0, <1>3, <1>4, <1>5, HotConstants DEF Hot!InUse
  <1>7. slots' \in Seq(SlotTypes)
    <2>1. CASE slot = Len(slots) + 1
      <3>1. slots' \in [1 .. Len(slots) + 1 -> SlotTypes]
        BY <1>0, <1>1, <1>4, <2>1
      <3> QED BY <1>0, <3>1
    <2>2. CASE slot \in 1 .. Len(slots)
      <3>1. slots' \in [1 .. Len(slots) -> SlotTypes]
        BY <1>0, <1>1, <1>4, <2>2
      <3> QED BY <1>0, <3>1
    <2> QED BY <1>0, <1>3, <2>1, <2>2
  <1>8. live' = {HandleAt(s)' : s \in Hot!InUse'}
    <2>1. HandleAt(slot)' = [slot |-> slot, generation |-> row.generation, hash |-> p]
      BY <1>4, <1>5 DEF HandleAt
    <2>2. \A s \in Hot!InUse : HandleAt(s)' = HandleAt(s)
      BY <1>0, <1>3, <1>5 DEF HandleAt
    <2>3. live = {HandleAt(s) : s \in Hot!InUse}
      BY <1>0 DEF ArenaHeld
    <2> QED BY <1>1, <1>6, <2>1, <2>2, <2>3
  <1>9. \A s \in Hot!InUse' : slots'[s].payload = slots'[s].hash
    BY <1>0, <1>3, <1>4, <1>5, <1>6 DEF ArenaHeld
  <1>10. /\ free' \in Seq(Nat)
         /\ \A i, j \in 1 .. Len(free') : free'[i] = free'[j] => i = j
         /\ \A i \in 1 .. Len(free') : free'[i] \in DOMAIN slots' \ Hot!InUse'
         /\ \A s \in DOMAIN slots' \ Hot!InUse' : \E i \in 1 .. Len(free') : free'[i] = s
    <2>1. CASE free = << >>
      <3>1. free' = free /\ DOMAIN slots' \ Hot!InUse' = DOMAIN slots \ Hot!InUse
        BY <1>0, <1>1, <1>5, <1>6, <2>1
      <3> QED BY <1>0, <3>1 DEF ArenaHeld
    <2>2. CASE free # << >>
      <3>1. Len(free) \in Nat \ {0} /\ free' = SubSeq(free, 1, Len(free) - 1)
        BY <1>0, <1>1, <2>2 DEF ArenaHeld
      <3>2. /\ free' \in Seq(Nat) /\ Len(free') = Len(free) - 1
            /\ \A i \in 1 .. Len(free) - 1 : free'[i] = free[i]
        BY <1>0, <3>1 DEF ArenaHeld
      <3>3. slot = free[Len(free)] /\ slot \in DOMAIN slots
        BY <1>0, <1>1, <2>2, <3>1 DEF ArenaHeld
      <3>4. DOMAIN slots' \ Hot!InUse' = (DOMAIN slots \ Hot!InUse) \ {slot}
        BY <1>0, <1>5, <1>6, <3>3
      <3>5. \A i \in 1 .. Len(free) : (free[i] = slot) <=> (i = Len(free))
        <4>1. Len(free) \in 1 .. Len(free)
          BY <3>1
        <4>2. \A i, j \in 1 .. Len(free) : free[i] = free[j] => i = j
          BY DEF ArenaHeld
        <4> QED BY <3>3, <4>1, <4>2
      <3>6. Len(free') = Len(free) - 1 /\ Len(free) \in Nat
        BY <3>1, <3>2
      <3>7. 1 .. Len(free') = (1 .. Len(free)) \ {Len(free)}
        BY <3>6
      <3>8. \A i \in 1 .. Len(free') : free'[i] = free[i]
        BY <3>2, <3>6
      <3> QED BY <3>2, <3>4, <3>5, <3>7, <3>8 DEF ArenaHeld
    <2> QED BY <1>0, <2>1, <2>2
  <1>11. liveBytes' = Hot!LiveSize' /\ liveBytes' <= MaxLiveBytes
    <2> DEFINE f == [s \in Hot!InUse |-> Size[slots[s].payload]]
               g == [s \in Hot!InUse' |-> Size[slots'[s].payload]]
    <2>1. /\ \A s \in Hot!InUse : f[s] \in Nat /\ f[s] = g[s]
          /\ g[slot] = Size[p]
          /\ \A s \in Hot!InUse \cup {slot} : g[s] \in Nat
      BY <1>0, <1>2, <1>3, <1>4, <1>5, <1>6
    <2>2. Hot!LiveSize = Total(Hot!InUse, f) /\ Hot!LiveSize' = Total(Hot!InUse', g)
      BY <1>0, HotOperators DEF Hot!LiveSize
    <2> HIDE DEF f, g
    <2>3. Total(Hot!InUse, f) = Total(Hot!InUse, g)
      BY <1>0, <2>1, TotalSame
    <2>4. Total(Hot!InUse \cup {slot}, g) = Total(Hot!InUse, g) + g[slot]
      BY <1>0, <1>3, <2>1, TotalAdd
    <2> QED BY <1>0, <1>1, <1>6, <2>1, <2>2, <2>3, <2>4 DEF ArenaHeld
  <1> QED BY <1>0, <1>7, <1>8, <1>9, <1>10, <1>11 DEF ArenaHeld

LEMMA ReleaseKeepsArena ==
    ASSUME ArenaHeld, NEW h \in Hot!Handles, Hot!Release(h)
    PROVE  ArenaHeld'
  <1>0. /\ Len(slots) \in Nat /\ DOMAIN slots = 1 .. Len(slots)
        /\ Hot!InUse \subseteq DOMAIN slots /\ IsFiniteSet(Hot!InUse)
        /\ \A s \in DOMAIN slots : slots[s] \in SlotTypes
        /\ \A s \in Hot!InUse : slots[s].payload \in Payloads /\ Size[slots[s].payload] \in Nat
        /\ \A s \in DOMAIN slots \ Hot!InUse : slots[s].payload = Hot!NoPayload
        /\ Len(free) \in Nat /\ DOMAIN free = 1 .. Len(free)
        /\ liveBytes \in Nat
    BY InUseTypes
  <1> DEFINE slot == h.slot
  <1>1. /\ slot \in DOMAIN slots /\ h = HandleAt(slot) /\ slot \in Hot!InUse
        /\ slots' = [slots EXCEPT ![slot].payload = Hot!NoPayload]
        /\ liveBytes' = liveBytes - Size[h.hash]
        /\ free' = Append(free, slot) /\ live' = live \ {h}
    BY <1>0 DEF Hot!Release, Hot!Handles, Hot!Names, HandleAt, Hot!InUse
  <1>2. h.slot = slot /\ slots[slot].payload = h.hash
    BY <1>0, <1>1 DEF ArenaHeld, HandleAt
  <1> HIDE DEF slot
  <1>3. /\ DOMAIN slots' = DOMAIN slots
        /\ \A s \in DOMAIN slots \ {slot} : slots'[s] = slots[s]
        /\ slots'[slot].payload = Hot!NoPayload
        /\ slots' \in Seq(SlotTypes)
    <2>1. [slots[slot] EXCEPT !.payload = Hot!NoPayload] \in SlotTypes
      BY <1>0, <1>1 DEF SlotTypes
    <2>2. slots' = [slots EXCEPT ![slot] = [slots[slot] EXCEPT !.payload = Hot!NoPayload]]
      BY <1>0, <1>1
    <2>3. [slots[slot] EXCEPT !.payload = Hot!NoPayload].payload = Hot!NoPayload
      BY <1>0, <1>1 DEF SlotTypes
    <2> QED BY <1>0, <1>1, <2>1, <2>2, <2>3 DEF ArenaHeld
  <1>4. Hot!InUse' = Hot!InUse \ {slot}
    BY <1>0, <1>1, <1>3 DEF Hot!InUse
  <1>5. live' = {HandleAt(s)' : s \in Hot!InUse'}
    <2>1. \A s \in Hot!InUse' : HandleAt(s)' = HandleAt(s)
      BY <1>0, <1>3, <1>4 DEF HandleAt
    <2>2. \A s \in Hot!InUse : HandleAt(s) = h => s = slot
      BY <1>0, <1>2 DEF HandleAt
    <2>3. live = {HandleAt(s) : s \in Hot!InUse}
      BY <1>0 DEF ArenaHeld
    <2> QED BY <1>0, <1>1, <1>4, <2>1, <2>2, <2>3
  <1>6. \A s \in Hot!InUse' : slots'[s].payload = slots'[s].hash
    BY <1>0, <1>3, <1>4 DEF ArenaHeld
  <1>7. /\ free' \in Seq(Nat)
        /\ \A i, j \in 1 .. Len(free') : free'[i] = free'[j] => i = j
        /\ \A i \in 1 .. Len(free') : free'[i] \in DOMAIN slots' \ Hot!InUse'
        /\ \A s \in DOMAIN slots' \ Hot!InUse' : \E i \in 1 .. Len(free') : free'[i] = s
    <2>1. /\ free' \in Seq(Nat) /\ Len(free') = Len(free) + 1
          /\ \A i \in 1 .. Len(free) : free'[i] = free[i]
          /\ free'[Len(free) + 1] = slot
      BY <1>0, <1>1 DEF ArenaHeld
    <2>2. 1 .. Len(free') = (1 .. Len(free)) \cup {Len(free) + 1}
      BY <1>0, <2>1
    <2>3. \A i \in 1 .. Len(free) : free[i] # slot /\ i # Len(free) + 1
      BY <1>0, <1>1 DEF ArenaHeld
    <2>4. DOMAIN slots' \ Hot!InUse' = (DOMAIN slots \ Hot!InUse) \cup {slot}
      BY <1>0, <1>1, <1>3, <1>4
    <2>5. /\ \A i, j \in 1 .. Len(free) : free[i] = free[j] => i = j
          /\ \A i \in 1 .. Len(free) : free[i] \in DOMAIN slots \ Hot!InUse
          /\ \A s \in DOMAIN slots \ Hot!InUse : \E i \in 1 .. Len(free) : free[i] = s
      BY DEF ArenaHeld
    <2>6. \A i, j \in 1 .. Len(free') : free'[i] = free'[j] => i = j
      BY <2>1, <2>2, <2>3, <2>5
    <2>7. \A i \in 1 .. Len(free') : free'[i] \in DOMAIN slots' \ Hot!InUse'
      BY <2>1, <2>2, <2>4, <2>5
    <2>8. \A s \in DOMAIN slots' \ Hot!InUse' : \E i \in 1 .. Len(free') : free'[i] = s
      BY <2>1, <2>2, <2>4, <2>5
    <2> QED BY <2>1, <2>6, <2>7, <2>8
  <1>8. liveBytes' = Hot!LiveSize' /\ liveBytes' <= MaxLiveBytes
    <2> DEFINE f == [s \in Hot!InUse |-> Size[slots[s].payload]]
               g == [s \in Hot!InUse' |-> Size[slots'[s].payload]]
    <2>1. /\ \A s \in Hot!InUse : f[s] \in Nat
          /\ \A s \in Hot!InUse \ {slot} : f[s] = g[s]
          /\ f[slot] = Size[h.hash] /\ f[slot] \in Nat
      BY <1>0, <1>1, <1>2, <1>3, <1>4
    <2>2. Hot!LiveSize = Total(Hot!InUse, f) /\ Hot!LiveSize' = Total(Hot!InUse', g)
      BY <1>0, HotOperators DEF Hot!LiveSize
    <2> HIDE DEF f, g
    <2>3. Total(Hot!InUse \ {slot}, f) = Total(Hot!InUse \ {slot}, g)
      BY <1>0, <2>1, TotalSame
    <2>4. Total(Hot!InUse \ {slot}, f) = Total(Hot!InUse, f) - f[slot]
      BY <1>0, <1>1, <2>1, TotalRemove
    <2>5. liveBytes = Total(Hot!InUse, f) /\ liveBytes <= MaxLiveBytes
      BY <1>0, <2>2 DEF ArenaHeld
    <2>6. liveBytes' = Hot!LiveSize'
      BY <1>0, <1>1, <1>4, <2>1, <2>2, <2>3, <2>4, <2>5
    <2> QED BY <1>0, <1>1, <2>1, <2>5, <2>6, HotConstants
  <1> QED BY <1>0, <1>3, <1>5, <1>6, <1>7, <1>8 DEF ArenaHeld

Unanswered == {channel[i].id : i \in Hot!Seals}

LEMMA ChannelTypes ==
    ASSUME SealsHeld
    PROVE  /\ Len(channel) \in Nat /\ DOMAIN channel = 1 .. Len(channel)
           /\ \A i \in DOMAIN channel : channel[i] \in Commands
           /\ \A i \in Hot!Seals : channel[i].id \in Nat
           /\ Len(answered) \in Nat /\ DOMAIN answered = 1 .. Len(answered)
           /\ Len(current) \in Nat /\ queued \in Nat
  <1>1. /\ Len(channel) \in Nat /\ DOMAIN channel = 1 .. Len(channel)
        /\ \A i \in DOMAIN channel : channel[i] \in Commands
        /\ Len(answered) \in Nat /\ DOMAIN answered = 1 .. Len(answered) /\ queued \in Nat
    BY DEF SealsHeld
  <1>2. \A i \in Hot!Seals : channel[i].id \in Nat
    BY <1>1 DEF Hot!Seals, Commands
  <1>3. Len(current) \in Nat
    BY DEF SealsHeld
  <1> QED BY <1>1, <1>2, <1>3

\* Taking the first command leaves the seals behind it, in order; a seal that
\* is taken has the next number.
LEMMA TakeFirst ==
    ASSUME SealsHeld, channel # << >>, channel' = Tail(channel)
    PROVE  /\ channel' \in Seq(Commands) /\ Head(channel) \in Commands
           /\ \A i \in Hot!Seals' : channel'[i].payload = channel'[i].handle.hash
           /\ \A i, j \in Hot!Seals' : i < j => channel'[i].id < channel'[j].id
           /\ \A i \in DOMAIN channel' : channel'[i].type = "shutdown" =>
                 i = Len(channel') /\ sealer = "dropped"
           /\ Head(channel).type # "seal" =>
                 Unanswered' = Len(answered) + Len(current) + 1 .. queued
           /\ Head(channel).type = "seal" =>
                 /\ Head(channel).payload = Head(channel).handle.hash
                 /\ Head(channel).id = Len(answered) + Len(current) + 1
                 /\ Len(answered) + Len(current) + 1 <= queued
                 /\ Unanswered' = Len(answered) + Len(current) + 2 .. queued
           /\ Head(channel).type = "shutdown" =>
                 Len(answered) + Len(current) = queued /\ sealer = "dropped"
  <1>1. /\ Len(channel) \in Nat /\ DOMAIN channel = 1 .. Len(channel)
        /\ \A i \in DOMAIN channel : channel[i] \in Commands
        /\ \A i \in Hot!Seals : channel[i].id \in Nat
        /\ Len(answered) \in Nat /\ Len(current) \in Nat /\ queued \in Nat
    BY ChannelTypes
  <1>2. /\ channel' \in Seq(Commands) /\ Len(channel') = Len(channel) - 1
        /\ Len(channel) >= 1 /\ Head(channel) = channel[1]
        /\ \A i \in 1 .. Len(channel) - 1 : channel'[i] = channel[i + 1]
        /\ DOMAIN channel' = 1 .. Len(channel) - 1
    BY DEF SealsHeld
  <1>3. Len(channel) >= 1 /\ 1 \in DOMAIN channel
    BY <1>1, <1>2
  <1>4. \A i : i \in Hot!Seals' <=>
               (i \in 1 .. Len(channel) - 1 /\ i + 1 \in Hot!Seals /\ channel'[i] = channel[i + 1])
    BY <1>1, <1>2 DEF Hot!Seals
  <1>5. \A i \in Hot!Seals : i # 1 => i - 1 \in Hot!Seals' /\ channel'[i - 1] = channel[i]
    <2> SUFFICES ASSUME NEW i \in Hot!Seals, i # 1
                 PROVE  i - 1 \in Hot!Seals' /\ channel'[i - 1] = channel[i]
      OBVIOUS
    <2>1. i \in 1 .. Len(channel) /\ i - 1 \in 1 .. Len(channel) - 1 /\ (i - 1) + 1 = i
      BY <1>1 DEF Hot!Seals
    <2> QED BY <1>2, <1>4, <2>1
  <1>6. (1 \in Hot!Seals) <=> (Head(channel).type = "seal")
    BY <1>2, <1>3 DEF Hot!Seals
  <1>7. \A i \in Hot!Seals' : i + 1 \in Hot!Seals /\ i + 1 # 1 /\ channel'[i] = channel[i + 1]
    BY <1>4
  <1>8. Unanswered' = {channel[i].id : i \in Hot!Seals \ {1}}
    <2>1. \A n : n \in Unanswered' <=> \E i \in Hot!Seals' : channel'[i].id = n
      BY DEF Unanswered
    <2>2. \A n : n \in Unanswered' <=> \E i \in Hot!Seals \ {1} : channel[i].id = n
      <3>1. ASSUME NEW i \in Hot!Seals' PROVE \E j \in Hot!Seals \ {1} : channel[j].id = channel'[i].id
        <4>1. i + 1 \in Hot!Seals \ {1} /\ channel[i + 1].id = channel'[i].id
          BY <1>7
        <4> QED BY <4>1
      <3>2. ASSUME NEW j \in Hot!Seals \ {1} PROVE \E i \in Hot!Seals' : channel'[i].id = channel[j].id
        <4>1. j - 1 \in Hot!Seals' /\ channel'[j - 1].id = channel[j].id
          BY <1>5
        <4> QED BY <4>1
      <3> SUFFICES ASSUME NEW n
                   PROVE  n \in Unanswered' <=> \E i \in Hot!Seals \ {1} : channel[i].id = n
        OBVIOUS
      <3>3. ASSUME n \in Unanswered' PROVE \E i \in Hot!Seals \ {1} : channel[i].id = n
        <4>1. PICK i \in Hot!Seals' : channel'[i].id = n
          BY <2>1, <3>3
        <4> QED BY <3>1, <4>1
      <3>4. ASSUME NEW j \in Hot!Seals \ {1}, channel[j].id = n PROVE n \in Unanswered'
        <4>1. \E i \in Hot!Seals' : channel'[i].id = n
          BY <3>2, <3>4
        <4> QED BY <2>1, <4>1
      <3> QED BY <3>3, <3>4
    <2> QED BY <2>2
  <1>9. \A i \in Hot!Seals' : channel'[i].payload = channel'[i].handle.hash
    BY <1>7 DEF SealsHeld
  <1>10. \A i, j \in Hot!Seals' : i < j => channel'[i].id < channel'[j].id
    <2> SUFFICES ASSUME NEW i \in Hot!Seals', NEW j \in Hot!Seals', i < j
                 PROVE  channel'[i].id < channel'[j].id
      OBVIOUS
    <2>1. i + 1 < j + 1
      BY <1>4
    <2> QED BY <1>7, <2>1 DEF SealsHeld
  <1>11. \A i \in DOMAIN channel' : channel'[i].type = "shutdown" =>
            i = Len(channel') /\ sealer = "dropped"
    <2> SUFFICES ASSUME NEW i \in DOMAIN channel', channel'[i].type = "shutdown"
                 PROVE  i = Len(channel') /\ sealer = "dropped"
      OBVIOUS
    <2>1. i \in 1 .. Len(channel) - 1 /\ i + 1 \in DOMAIN channel /\ channel[i + 1].type = "shutdown"
      BY <1>1, <1>2
    <2>2. i + 1 = Len(channel) /\ sealer = "dropped"
      BY <2>1 DEF SealsHeld
    <2> QED BY <1>1, <1>2, <2>1, <2>2
  <1> DEFINE a == Len(answered) + Len(current)
  <1>12. Unanswered = a + 1 .. queued /\ a <= queued /\ a \in Nat
    BY <1>1 DEF SealsHeld, Unanswered
  <1> HIDE DEF a
  <1>13. ASSUME Head(channel).type # "seal" PROVE Unanswered' = a + 1 .. queued
    BY <1>6, <1>8, <1>12, <1>13 DEF Unanswered
  <1>14. ASSUME Head(channel).type = "seal"
         PROVE  /\ Head(channel).payload = Head(channel).handle.hash
                /\ Head(channel).id = a + 1 /\ a + 1 <= queued /\ Unanswered' = a + 2 .. queued
    <2>1. 1 \in Hot!Seals
      BY <1>6, <1>14
    <2>2. channel[1].id \in a + 1 .. queued
      BY <1>12, <2>1 DEF Unanswered
    <2>3. \A i \in Hot!Seals \ {1} : channel[1].id < channel[i].id
      <3> SUFFICES ASSUME NEW i \in Hot!Seals \ {1} PROVE 1 < i
        BY <2>1 DEF SealsHeld
      <3> QED BY <1>1 DEF Hot!Seals
    <2>4. a + 1 \in Unanswered
      BY <1>1, <1>12, <2>2
    <2>5. PICK j \in Hot!Seals : channel[j].id = a + 1
      BY <2>4 DEF Unanswered
    <2>6. channel[1].id = a + 1
      BY <1>1, <1>12, <2>1, <2>2, <2>3, <2>5
    <2>7. Unanswered' = Unanswered \ {a + 1}
      <3>1. \A i \in Hot!Seals \ {1} : channel[i].id # a + 1
        BY <1>1, <1>12, <2>1, <2>3, <2>6
      <3> QED BY <1>8, <2>1, <2>6, <3>1 DEF Unanswered
    <2>8. Unanswered' = a + 2 .. queued
      BY <1>1, <1>12, <2>7
    <2> QED BY <1>1, <1>2, <1>12, <2>1, <2>2, <2>6, <2>8, SMTT(60) DEF SealsHeld
  <1>15. ASSUME Head(channel).type = "shutdown" PROVE a = queued /\ sealer = "dropped"
    <2>1. Len(channel) = 1 /\ sealer = "dropped"
      BY <1>2, <1>3, <1>15 DEF SealsHeld
    <2>2. Hot!Seals = {}
      BY <1>1, <1>2, <1>15, <2>1 DEF Hot!Seals
    <2>3. Unanswered = {}
      BY <2>2 DEF Unanswered
    <2>4. a = queued
      <3>1. ~(a < queued)
        <4> SUFFICES ASSUME a < queued PROVE FALSE
          OBVIOUS
        <4>1. queued \in a + 1 .. queued
          BY <1>1, <1>12
        <4> QED BY <1>12, <2>3, <4>1
      <3> QED BY <1>1, <1>12, <3>1
    <2> QED BY <2>1, <2>4
  <1>16. Head(channel) \in Commands
    BY <1>1, <1>2, <1>3
  <1> QED BY <1>2, <1>9, <1>10, <1>11, <1>13, <1>14, <1>15, <1>16 DEF a

\* A command is put behind the others.
LEMMA PutLast ==
    ASSUME SealsHeld, NEW c \in Commands, sealer = "open", channel' = Append(channel, c),
           c.type = "seal" => c.id = queued + 1 /\ c.payload = c.handle.hash,
           queued' = IF c.type = "seal" THEN queued + 1 ELSE queued,
           sealer' = IF c.type = "shutdown" THEN "dropped" ELSE "open",
           UNCHANGED <<current, answered>>
    PROVE  SealsHeld'
  <1>1. /\ Len(channel) \in Nat /\ DOMAIN channel = 1 .. Len(channel)
        /\ \A i \in Hot!Seals : channel[i].id \in Nat
        /\ Len(answered) \in Nat /\ Len(current) \in Nat /\ queued \in Nat
    BY ChannelTypes
  <1> DEFINE n == Len(channel) + 1
             a == Len(answered) + Len(current)
  <1>2. /\ channel' \in Seq(Commands) /\ Len(channel') = Len(channel) + 1
        /\ \A i \in 1 .. Len(channel) : channel'[i] = channel[i]
        /\ channel'[Len(channel) + 1] = c
        /\ DOMAIN channel' = 1 .. Len(channel) + 1
    BY DEF SealsHeld
  <1>3. DOMAIN channel' = DOMAIN channel \cup {n} /\ n \notin DOMAIN channel
    BY <1>1, <1>2
  <1>4. /\ channel'[n] = c /\ n = Len(channel')
        /\ \A i \in DOMAIN channel : channel'[i] = channel[i] /\ i < n /\ ~(n < i) /\ i \in Nat
    BY <1>1, <1>2
  <1>5. n \in Nat /\ a \in Nat /\ ~(n < n)
    BY <1>1
  <1> HIDE DEF n
  <1>6. Hot!Seals' = IF c.type = "seal" THEN Hot!Seals \cup {n} ELSE Hot!Seals
    BY <1>3, <1>4 DEF Hot!Seals
  <1>7. \A i \in Hot!Seals : i \in DOMAIN channel /\ channel'[i] = channel[i]
    BY <1>4 DEF Hot!Seals
  <1>8. /\ Unanswered = a + 1 .. queued /\ a <= queued /\ Len(answered)' + Len(current)' = a
        /\ \A i \in Hot!Seals : channel[i].id <= queued
    <2>1. Unanswered = a + 1 .. queued /\ a <= queued
      BY DEF SealsHeld, Unanswered
    <2>2. \A i \in Hot!Seals : channel[i].id \in a + 1 .. queued
      BY <2>1 DEF Unanswered
    <2> QED BY <1>1, <2>1, <2>2
  <1>9. {channel'[i].id : i \in Hot!Seals'} = a + 1 .. queued' /\ a <= queued' /\ queued' \in Nat
    <2>1. CASE c.type = "seal"
      <3>1. {channel'[i].id : i \in Hot!Seals'} = Unanswered \cup {queued + 1}
        BY <1>4, <1>6, <1>7, <2>1 DEF Unanswered
      <3>2. queued' = queued + 1
        BY <2>1
      <3>3. (a + 1 .. queued) \cup {queued + 1} = a + 1 .. queued + 1
        BY <1>1, <1>5, <1>8
      <3>4. {channel'[i].id : i \in Hot!Seals'} = a + 1 .. queued'
        BY <1>8, <3>1, <3>2, <3>3, Zenon
      <3>5. a <= queued' /\ queued' \in Nat
        BY <1>1, <1>5, <1>8, <3>2
      <3> QED BY <3>4, <3>5
    <2>2. CASE c.type # "seal"
      <3>1. {channel'[i].id : i \in Hot!Seals'} = Unanswered
        BY <1>6, <1>7, <2>2 DEF Unanswered
      <3> QED BY <1>1, <1>8, <2>2, <3>1
    <2> QED BY <2>1, <2>2
  <1>10. \A i, j \in Hot!Seals' : i < j => channel'[i].id < channel'[j].id
    <2>1. ASSUME NEW i \in Hot!Seals, NEW j \in Hot!Seals, i < j
          PROVE  channel'[i].id < channel'[j].id
      BY <1>7, <2>1 DEF SealsHeld
    <2>2. ASSUME NEW i \in Hot!Seals, c.type = "seal" PROVE channel'[i].id < channel'[n].id
      BY <1>1, <1>4, <1>7, <1>8, <2>2
    <2> QED BY <1>4, <1>5, <1>6, <1>7, <2>1, <2>2
  <1>11. \A i \in Hot!Seals' : channel'[i].payload = channel'[i].handle.hash
    BY <1>4, <1>6, <1>7 DEF SealsHeld
  <1>12. \A i \in DOMAIN channel' : channel'[i].type = "shutdown" =>
            i = Len(channel') /\ sealer' = "dropped"
    BY <1>3, <1>4 DEF SealsHeld
  <1>13. sealer' # "stopped"
    OBVIOUS
  <1>14. /\ answered' \in Seq(Answers) /\ \A i \in DOMAIN answered' : answered'[i].id = i
         /\ \/ current' = << >>
            \/ /\ current' = <<current'[1]>> /\ current'[1] \in Commands
               /\ current'[1].type = "seal" /\ current'[1].id = Len(answered') + 1
               /\ current'[1].payload = current'[1].handle.hash
    BY DEF SealsHeld
  <1> QED BY <1>2, <1>8, <1>9, <1>10, <1>11, <1>12, <1>13, <1>14, Zenon DEF SealsHeld

\* Receipts depend on what is answered, written and under way only.
LEMMA ReceiptsUnchanged ==
    ASSUME ReceiptsHeld, UNCHANGED <<answered, files, current>> PROVE ReceiptsHeld'
  BY DEF ReceiptsHeld, Hot!ReceiptIsTrue

LEMMA CreateFileKeepsSeals ==
    ASSUME SealsHeld, ReceiptsHeld, Hot!CreateFile PROVE SealsHeld' /\ ReceiptsHeld'
  <1> DEFINE c == Head(channel)
  <1>1. /\ current = << >> /\ channel # << >> /\ c.type = "seal" /\ channel' = Tail(channel)
        /\ current' = <<c>> /\ files' = Hot!Store(c.handle, Hot!NoPayload)
        /\ UNCHANGED <<queued, answered, sealer>>
    BY DEF Hot!CreateFile
  <1>2. /\ Len(answered) \in Nat /\ queued \in Nat /\ Len(current) = 0
    BY <1>1, ChannelTypes
  <1>3. /\ channel' \in Seq(Commands) /\ c \in Commands
        /\ \A i \in Hot!Seals' : channel'[i].payload = channel'[i].handle.hash
        /\ \A i, j \in Hot!Seals' : i < j => channel'[i].id < channel'[j].id
        /\ \A i \in DOMAIN channel' : channel'[i].type = "shutdown" =>
              i = Len(channel') /\ sealer = "dropped"
        /\ c.payload = c.handle.hash
        /\ c.id = Len(answered) + Len(current) + 1
        /\ Len(answered) + Len(current) + 1 <= queued
        /\ Unanswered' = Len(answered) + Len(current) + 2 .. queued
    BY <1>1, TakeFirst
  <1> HIDE DEF c
  <1>4. /\ Len(current') = 1 /\ current'[1] = c
    BY <1>1
  <1>5. /\ Len(answered') + Len(current') = Len(answered) + 1
        /\ Len(answered) + 1 <= queued /\ c.id = Len(answered) + 1
        /\ Unanswered' = (Len(answered') + Len(current')) + 1 .. queued
    BY <1>1, <1>2, <1>3, <1>4
  <1>6. sealer # "stopped"
    BY <1>1 DEF SealsHeld
  <1>7. answered' \in Seq(Answers) /\ \A i \in DOMAIN answered' : answered'[i].id = i
    BY <1>1 DEF SealsHeld
  <1>8. SealsHeld'
    BY <1>1, <1>2, <1>3, <1>4, <1>5, <1>6, <1>7 DEF SealsHeld, Unanswered
  <1>9. DOMAIN files' = DOMAIN files \cup {c.handle}
        /\ \A g \in DOMAIN files \ {c.handle} : files'[g] = files[g]
    BY <1>1 DEF Hot!Store
  <1>10. \A i \in DOMAIN answered' : answered'[i].ok => answered'[i].handle \in DOMAIN files'
    BY <1>1, <1>9 DEF ReceiptsHeld
  <1>11. Hot!ReceiptIsTrue'
    <2> SUFFICES ASSUME NEW i \in DOMAIN answered, answered[i].ok
                 PROVE  \/ files'[answered[i].handle] = answered[i].handle.hash
                        \/ current' # << >> /\ current'[1].handle = answered[i].handle
                        \/ \E j \in i + 1 .. Len(answered) :
                              answered[j].handle = answered[i].handle /\ ~answered[j].ok
      BY <1>1 DEF Hot!ReceiptIsTrue
    <2>1. CASE answered[i].handle = c.handle
      BY <1>1, <1>4, <2>1
    <2>2. CASE answered[i].handle # c.handle
      BY <1>1, <1>9, <2>2 DEF ReceiptsHeld, Hot!ReceiptIsTrue
    <2> QED BY <2>1, <2>2
  <1> QED BY <1>8, <1>10, <1>11 DEF ReceiptsHeld

\* The first receipt of a request that is over.
LEMMA AnswerKeepsSeals ==
    ASSUME SealsHeld, NEW c \in Commands, c.type = "seal", c.id = Len(answered) + 1,
           NEW ok \in BOOLEAN,
           answered' = Append(answered, [id |-> c.id, handle |-> c.handle, ok |-> ok]),
           queued' = queued, sealer' = sealer, sealer # "stopped",
           channel' \in Seq(Commands),
           \A i \in Hot!Seals' : channel'[i].payload = channel'[i].handle.hash,
           \A i, j \in Hot!Seals' : i < j => channel'[i].id < channel'[j].id,
           \A i \in DOMAIN channel' : channel'[i].type = "shutdown" =>
              i = Len(channel') /\ sealer = "dropped",
           Len(answered) + 1 <= queued, Unanswered' = Len(answered) + 2 .. queued,
           current' = << >>
    PROVE  SealsHeld'
  <1> DEFINE r == [id |-> c.id, handle |-> c.handle, ok |-> ok]
  <1>1. /\ Len(answered) \in Nat /\ DOMAIN answered = 1 .. Len(answered) /\ queued \in Nat
    BY ChannelTypes
  <1>2. r \in Answers /\ r.id = Len(answered) + 1
    BY DEF Answers, Commands
  <1> HIDE DEF r
  <1>3. /\ answered' \in Seq(Answers) /\ Len(answered') = Len(answered) + 1
        /\ DOMAIN answered' = 1 .. Len(answered) + 1
        /\ \A i \in 1 .. Len(answered) : answered'[i] = answered[i]
        /\ answered'[Len(answered) + 1] = r
    BY <1>2 DEF SealsHeld, r
  <1>4. \A i \in DOMAIN answered' : answered'[i].id = i
    <2>1. \A i \in DOMAIN answered : answered[i].id = i
      BY DEF SealsHeld
    <2> QED BY <1>1, <1>2, <1>3, <2>1
  <1>5. /\ Len(current') = 0 /\ Len(answered') + Len(current') = Len(answered) + 1
        /\ (Len(answered') + Len(current')) + 1 = Len(answered) + 2
        /\ Len(answered') + Len(current') <= queued
    BY <1>1, <1>3
  <1> QED BY <1>1, <1>3, <1>4, <1>5, Zenon DEF SealsHeld, Unanswered

LEMMA FailCreateKeepsSeals ==
    ASSUME SealsHeld, Hot!FailCreate PROVE SealsHeld'
  <1> DEFINE c == Head(channel)
  <1>1. /\ current = << >> /\ channel # << >> /\ c.type = "seal" /\ channel' = Tail(channel)
        /\ current' = << >>
        /\ answered' = Append(answered, [id |-> c.id, handle |-> c.handle, ok |-> FALSE])
        /\ UNCHANGED <<queued, sealer>>
    BY DEF Hot!FailCreate
  <1>2. /\ Len(answered) \in Nat /\ queued \in Nat /\ Len(current) = 0
    BY <1>1, ChannelTypes
  <1>3. /\ channel' \in Seq(Commands) /\ c \in Commands
        /\ \A i \in Hot!Seals' : channel'[i].payload = channel'[i].handle.hash
        /\ \A i, j \in Hot!Seals' : i < j => channel'[i].id < channel'[j].id
        /\ \A i \in DOMAIN channel' : channel'[i].type = "shutdown" =>
              i = Len(channel') /\ sealer = "dropped"
        /\ c.id = Len(answered) + Len(current) + 1
        /\ Len(answered) + Len(current) + 1 <= queued
        /\ Unanswered' = Len(answered) + Len(current) + 2 .. queued
    BY <1>1, TakeFirst
  <1> HIDE DEF c
  <1>4. /\ c.id = Len(answered) + 1 /\ Len(answered) + 1 <= queued
        /\ Unanswered' = Len(answered) + 2 .. queued
    BY <1>2, <1>3
  <1>5. sealer # "stopped"
    BY <1>1 DEF SealsHeld
  <1> QED BY <1>1, <1>3, <1>4, <1>5, AnswerKeepsSeals

\* The request under way is answered and the channel stays.
LEMMA CurrentAnswered ==
    ASSUME SealsHeld, current # << >>, NEW ok \in BOOLEAN,
           answered' = Append(answered, [id |-> current[1].id, handle |-> current[1].handle,
                                         ok |-> ok]),
           current' = << >>, UNCHANGED <<queued, sealer, channel>>
    PROVE  SealsHeld'
  <1>1. PICK c : c = current[1]
    OBVIOUS
  <1>2. /\ c \in Commands /\ c.type = "seal" /\ c.id = Len(answered) + 1 /\ current = <<c>>
    BY <1>1 DEF SealsHeld
  <1>3. /\ Len(answered) \in Nat /\ queued \in Nat /\ Len(current) = 1
    BY <1>2, ChannelTypes
  <1>4. /\ Hot!Seals' = Hot!Seals /\ Unanswered' = Unanswered
    BY DEF Hot!Seals, Unanswered
  <1>5. /\ Len(answered) + 1 <= queued /\ Unanswered' = Len(answered) + 2 .. queued
    <2>1. /\ Len(answered) + Len(current) <= queued
          /\ Unanswered = Len(answered) + Len(current) + 1 .. queued
      BY DEF SealsHeld, Unanswered
    <2>2. Len(answered) + Len(current) + 1 = Len(answered) + 2
      BY <1>3
    <2> QED BY <1>3, <1>4, <2>1, <2>2
  <1>6. sealer # "stopped"
    BY DEF SealsHeld
  <1>7. /\ channel' \in Seq(Commands)
        /\ \A i \in Hot!Seals' : channel'[i].payload = channel'[i].handle.hash
        /\ \A i, j \in Hot!Seals' : i < j => channel'[i].id < channel'[j].id
        /\ \A i \in DOMAIN channel' : channel'[i].type = "shutdown" =>
              i = Len(channel') /\ sealer = "dropped"
    BY <1>4 DEF SealsHeld
  <1>8. /\ answered' = Append(answered, [id |-> c.id, handle |-> c.handle, ok |-> ok])
        /\ current' = << >> /\ queued' = queued /\ sealer' = sealer
    BY <1>1
  <1> QED BY <1>2, <1>5, <1>6, <1>7, <1>8, AnswerKeepsSeals

\* A receipt more: it is true by itself, or the answer tells of a failure.
LEMMA AnswerKeepsReceipts ==
    ASSUME SealsHeld, ReceiptsHeld, NEW h, NEW n, NEW ok \in BOOLEAN,
           answered' = Append(answered, [id |-> n, handle |-> h, ok |-> ok]),
           DOMAIN files \subseteq DOMAIN files',
           \A g \in DOMAIN files \ {h} : files'[g] = files[g],
           ok => h \in DOMAIN files' /\ files'[h] = h.hash,
           ~ok => files' = files,
           current = << >> \/ current[1].handle = h
    PROVE  ReceiptsHeld'
  <1> DEFINE r == [id |-> n, handle |-> h, ok |-> ok]
             k == Len(answered)
  <1>1. k \in Nat /\ DOMAIN answered = 1 .. k
    BY ChannelTypes
  <1>2. /\ DOMAIN answered' = 1 .. k + 1 /\ Len(answered') = k + 1
        /\ \A i \in 1 .. k : answered'[i] = answered[i]
        /\ answered'[k + 1] = r
    BY DEF SealsHeld
  <1>3. r.handle = h /\ r.ok = ok
    OBVIOUS
  <1> HIDE DEF k, r
  <1>4. \A i \in DOMAIN answered' : (i \in DOMAIN answered /\ answered'[i] = answered[i]) \/ i = k + 1
    BY <1>1, <1>2
  <1>5. \A i \in DOMAIN answered' : answered'[i].ok => answered'[i].handle \in DOMAIN files'
    BY <1>2, <1>3, <1>4 DEF ReceiptsHeld
  <1>6. Hot!ReceiptIsTrue'
    <2> SUFFICES ASSUME NEW i \in DOMAIN answered', answered'[i].ok
                 PROVE  \/ files'[answered'[i].handle] = answered'[i].handle.hash
                        \/ current' # << >> /\ current'[1].handle = answered'[i].handle
                        \/ \E j \in i + 1 .. Len(answered') :
                              answered'[j].handle = answered'[i].handle /\ ~answered'[j].ok
      BY DEF Hot!ReceiptIsTrue
    <2>1. CASE i = k + 1
      BY <1>2, <1>3, <2>1
    <2>2. CASE i \in DOMAIN answered /\ answered'[i] = answered[i] /\ answered[i].handle = h
      <3>1. CASE ok
        BY <2>2, <3>1
      <3>2. CASE ~ok
        <4>1. k + 1 \in i + 1 .. Len(answered') /\ answered'[k + 1].handle = answered'[i].handle
              /\ ~answered'[k + 1].ok
          BY <1>1, <1>2, <1>3, <2>2, <3>2
        <4> QED BY <4>1
      <3> QED BY <3>1, <3>2
    <2>3. CASE i \in DOMAIN answered /\ answered'[i] = answered[i] /\ answered[i].handle # h
      <3>1. \/ files[answered[i].handle] = answered[i].handle.hash
            \/ \E j \in i + 1 .. k : answered[j].handle = answered[i].handle /\ ~answered[j].ok
        BY <2>3 DEF ReceiptsHeld, Hot!ReceiptIsTrue, k
      <3>2. files'[answered[i].handle] = files[answered[i].handle]
        BY <2>3 DEF ReceiptsHeld
      <3>3. \A j \in i + 1 .. k : j \in i + 1 .. Len(answered') /\ answered'[j] = answered[j]
        BY <1>1, <1>2, <2>3
      <3> QED BY <2>3, <3>1, <3>2, <3>3
    <2> QED BY <1>4, <2>1, <2>2, <2>3
  <1> QED BY <1>5, <1>6 DEF ReceiptsHeld

LEMMA WriteFileKeepsSeals ==
    ASSUME SealsHeld, ReceiptsHeld, Hot!WriteFile PROVE SealsHeld' /\ ReceiptsHeld'
  <1>1. PICK c : c = current[1]
    OBVIOUS
  <1>2. /\ current # << >> /\ files' = Hot!Store(c.handle, c.payload)
        /\ answered' = Append(answered, [id |-> c.id, handle |-> c.handle, ok |-> TRUE])
        /\ current' = << >> /\ UNCHANGED <<channel, queued, sealer>>
    BY <1>1 DEF Hot!WriteFile
  <1>3. SealsHeld'
    BY <1>1, <1>2, CurrentAnswered
  <1>4. c.payload = c.handle.hash
    BY <1>1, <1>2 DEF SealsHeld
  <1>5. /\ DOMAIN files' = DOMAIN files \cup {c.handle} /\ files'[c.handle] = c.payload
        /\ \A g \in DOMAIN files \ {c.handle} : files'[g] = files[g]
    BY <1>2 DEF Hot!Store
  <1> QED BY <1>1, <1>2, <1>3, <1>4, <1>5, AnswerKeepsReceipts

LEMMA FailWriteKeepsSeals ==
    ASSUME SealsHeld, ReceiptsHeld, Hot!FailWrite PROVE SealsHeld' /\ ReceiptsHeld'
  <1>1. /\ current # << >> /\ files' = files
        /\ answered' = Append(answered, [id |-> current[1].id, handle |-> current[1].handle,
                                         ok |-> FALSE])
        /\ current' = << >> /\ UNCHANGED <<channel, queued, sealer>>
    BY DEF Hot!FailWrite
  <1>2. SealsHeld'
    BY <1>1, CurrentAnswered
  <1> QED BY <1>1, <1>2, AnswerKeepsReceipts

LEMMA FailCreateKeepsReceipts ==
    ASSUME SealsHeld, ReceiptsHeld, Hot!FailCreate PROVE ReceiptsHeld'
  <1>1. /\ current = << >> /\ files' = files
        /\ answered' = Append(answered, [id |-> Head(channel).id, handle |-> Head(channel).handle,
                                         ok |-> FALSE])
    BY DEF Hot!FailCreate
  <1> QED BY <1>1, AnswerKeepsReceipts

LEMMA AnswerFlushKeepsSeals ==
    ASSUME SealsHeld, Hot!AnswerFlush PROVE SealsHeld'
  <1>1. /\ current = << >> /\ channel # << >> /\ Head(channel).type # "seal"
        /\ channel' = Tail(channel) /\ UNCHANGED <<current, queued, answered, sealer>>
    BY DEF Hot!AnswerFlush
  <1>2. /\ channel' \in Seq(Commands)
        /\ \A i \in Hot!Seals' : channel'[i].payload = channel'[i].handle.hash
        /\ \A i, j \in Hot!Seals' : i < j => channel'[i].id < channel'[j].id
        /\ \A i \in DOMAIN channel' : channel'[i].type = "shutdown" =>
              i = Len(channel') /\ sealer = "dropped"
        /\ Unanswered' = Len(answered) + Len(current) + 1 .. queued
    BY <1>1, TakeFirst
  <1>3. sealer # "stopped"
    BY <1>1 DEF SealsHeld
  <1> QED BY <1>1, <1>2, <1>3, Zenon DEF SealsHeld, Unanswered

LEMMA ShutdownKeepsSeals ==
    ASSUME SealsHeld, Hot!Shutdown PROVE SealsHeld'
  <1>1. /\ current = << >> /\ channel # << >> /\ Head(channel).type = "shutdown"
        /\ channel' = << >> /\ sealer' = "stopped" /\ UNCHANGED <<current, queued, answered>>
    BY DEF Hot!Shutdown
  <1>2. /\ Len(answered) \in Nat /\ Len(current) = 0 /\ queued \in Nat
        /\ DOMAIN channel = 1 .. Len(channel) /\ Len(channel) \in Nat
    BY <1>1, ChannelTypes
  <1>3. Len(channel) = 1 /\ Hot!Seals = {}
    <2>1. 1 \in DOMAIN channel /\ channel[1].type = "shutdown"
      BY <1>1 DEF SealsHeld
    <2>2. Len(channel) = 1
      BY <2>1 DEF SealsHeld
    <2> QED BY <1>2, <2>1, <2>2 DEF Hot!Seals
  <1>4. Len(answered) = queued
    <2>1. Len(answered) + Len(current) + 1 .. queued = {} /\ Len(answered) + Len(current) <= queued
      BY <1>3 DEF SealsHeld
    <2>2. ~(Len(answered) < queued)
      <3> SUFFICES ASSUME Len(answered) < queued PROVE FALSE
        OBVIOUS
      <3>1. queued \in Len(answered) + Len(current) + 1 .. queued
        BY <1>2
      <3> QED BY <2>1, <3>1
    <2> QED BY <1>2, <2>1, <2>2
  <1>5. Hot!Seals' = {} /\ DOMAIN channel' = {} /\ channel' \in Seq(Commands)
    BY <1>1 DEF Hot!Seals
  <1>6. Len(answered') + Len(current') + 1 .. queued' = {}
        /\ Len(answered') + Len(current') <= queued'
    BY <1>1, <1>2, <1>4
  <1> QED BY <1>1, <1>4, <1>5, <1>6 DEF SealsHeld

LEMMA ArenaUnchanged ==
    ASSUME ArenaHeld, UNCHANGED <<slots, free, liveBytes, live>> PROVE ArenaHeld'
  <1>1. Hot!InUse' = Hot!InUse
    BY DEF Hot!InUse
  <1>2. Hot!LiveSize' = Hot!LiveSize
    BY <1>1 DEF Hot!LiveSize
  <1>3. \A s \in Hot!InUse : HandleAt(s)' = HandleAt(s)
    BY DEF HandleAt
  <1>4. live' = {HandleAt(s)' : s \in Hot!InUse'}
    BY <1>1, <1>3 DEF ArenaHeld
  <1> QED BY <1>1, <1>2, <1>4 DEF ArenaHeld

LEMMA SealsUnchanged ==
    ASSUME SealsHeld, UNCHANGED <<channel, current, queued, answered, sealer>> PROVE SealsHeld'
  <1>1. Hot!Seals' = Hot!Seals
    BY DEF Hot!Seals
  <1> QED BY <1>1 DEF SealsHeld

LEMMA TrySubmitKeepsSeals ==
    ASSUME ArenaHeld, SealsHeld, NEW h \in Hot!Handles, Hot!TrySubmit(h) PROVE SealsHeld'
  <1> DEFINE c == [type |-> "seal", id |-> queued + 1, handle |-> h,
                   payload |-> slots[h.slot].payload]
  <1>1. /\ sealer = "open" /\ channel' = Append(channel, c) /\ queued' = queued + 1
        /\ UNCHANGED <<current, answered, sealer>>
        /\ h.slot \in DOMAIN slots /\ slots[h.slot].hash = h.hash
        /\ slots[h.slot].payload # Hot!NoPayload
    BY DEF Hot!TrySubmit, Hot!Names, Hot!Handles
  <1>2. h.slot \in Hot!InUse
    BY <1>1 DEF Hot!InUse
  <1>3. slots[h.slot].payload = h.hash
    BY <1>1, <1>2 DEF ArenaHeld
  <1>4. h \in HandleTypes /\ h.hash \in Payloads
    <2>1. DOMAIN slots \subseteq Nat /\ 1 .. MaxGeneration \subseteq Nat
      BY HotConstants, InUseTypes
    <2> QED BY <2>1 DEF Hot!Handles, HandleTypes
  <1>5. queued + 1 \in Nat
    BY DEF SealsHeld
  <1>6. c \in Commands /\ c.type = "seal" /\ c.id = queued + 1 /\ c.payload = c.handle.hash
    BY <1>3, <1>4, <1>5 DEF Commands
  <1> HIDE DEF c
  <1> QED BY <1>1, <1>6, PutLast

LEMMA FlushKeepsSeals ==
    ASSUME SealsHeld, Hot!Flush \/ Hot!DropSealer PROVE SealsHeld'
  <1>1. CASE Hot!Flush
    <2> DEFINE c == [type |-> "flush"]
    <2>1. c \in Commands /\ c.type = "flush"
      BY DEF Commands
    <2>2. /\ sealer = "open" /\ channel' = Append(channel, c)
          /\ UNCHANGED <<current, queued, answered, sealer>>
      BY <1>1 DEF Hot!Flush
    <2> HIDE DEF c
    <2> QED BY <2>1, <2>2, PutLast
  <1>2. CASE Hot!DropSealer
    <2> DEFINE c == [type |-> "shutdown"]
    <2>1. c \in Commands /\ c.type = "shutdown"
      BY DEF Commands
    <2>2. /\ sealer = "open" /\ channel' = Append(channel, c) /\ sealer' = "dropped"
          /\ UNCHANGED <<current, queued, answered>>
      BY <1>2 DEF Hot!DropSealer
    <2> HIDE DEF c
    <2> QED BY <2>1, <2>2, PutLast
  <1> QED BY <1>1, <1>2

LEMMA HotInvStep ==
    ASSUME HotInv, [Hot!HotNext]_(Hot!hotVars) PROVE HotInv'
  <1>0. ArenaHeld /\ SealsHeld /\ ReceiptsHeld
    BY DEF HotInv
  <1>1. ASSUME UNCHANGED Hot!sealerVars, ArenaHeld' PROVE HotInv'
    BY <1>0, <1>1, SealsUnchanged, ReceiptsUnchanged DEF HotInv, Hot!sealerVars
  <1>2. ASSUME UNCHANGED Hot!arenaVars, SealsHeld', ReceiptsHeld' PROVE HotInv'
    BY <1>0, <1>2, ArenaUnchanged DEF HotInv, Hot!arenaVars
  <1>3. CASE UNCHANGED Hot!hotVars
    <2>1. ArenaHeld'
      BY <1>0, <1>3, ArenaUnchanged DEF Hot!hotVars, Hot!arenaVars
    <2> QED BY <1>1, <1>3, <2>1 DEF Hot!hotVars
  <1>4. ASSUME NEW p \in Payloads, Hot!Commit(p) PROVE HotInv'
    BY <1>0, <1>1, <1>4, CommitKeepsArena DEF Hot!Commit
  <1>5. ASSUME NEW h \in Hot!Handles, Hot!Release(h) PROVE HotInv'
    BY <1>0, <1>1, <1>5, ReleaseKeepsArena DEF Hot!Release
  <1>6. ASSUME NEW h \in Hot!Handles, Hot!TrySubmit(h) PROVE HotInv'
    <2>1. UNCHANGED <<answered, files, current>> /\ UNCHANGED Hot!arenaVars
      BY <1>6 DEF Hot!TrySubmit
    <2> QED BY <1>0, <1>2, <1>6, <2>1, TrySubmitKeepsSeals, ReceiptsUnchanged
  <1>7. CASE Hot!Flush \/ Hot!DropSealer
    <2>1. UNCHANGED <<answered, files, current>> /\ UNCHANGED Hot!arenaVars
      BY <1>7 DEF Hot!Flush, Hot!DropSealer
    <2> QED BY <1>0, <1>2, <1>7, <2>1, FlushKeepsSeals, ReceiptsUnchanged
  <1>8. CASE Hot!CreateFile
    BY <1>0, <1>2, <1>8, CreateFileKeepsSeals DEF Hot!CreateFile
  <1>9. CASE Hot!WriteFile
    BY <1>0, <1>2, <1>9, WriteFileKeepsSeals DEF Hot!WriteFile
  <1>10. CASE Hot!FailCreate
    BY <1>0, <1>2, <1>10, FailCreateKeepsSeals, FailCreateKeepsReceipts DEF Hot!FailCreate
  <1>11. CASE Hot!FailWrite
    BY <1>0, <1>2, <1>11, FailWriteKeepsSeals DEF Hot!FailWrite
  <1>12. CASE Hot!AnswerFlush
    BY <1>0, <1>2, <1>12, AnswerFlushKeepsSeals, ReceiptsUnchanged DEF Hot!AnswerFlush
  <1>13. CASE Hot!Shutdown
    BY <1>0, <1>2, <1>13, ShutdownKeepsSeals, ReceiptsUnchanged DEF Hot!Shutdown
  <1> QED BY <1>3, <1>4, <1>5, <1>6, <1>7, <1>8, <1>9, <1>10, <1>11, <1>12, <1>13, Zenon
          DEF Hot!HotNext

LEMMA HotInvInit == Hot!HotInit => HotInv
  <1> SUFFICES ASSUME Hot!HotInit PROVE HotInv
    OBVIOUS
  <1> USE DEF Hot!HotInit
  <1>1. Hot!InUse = {} /\ Hot!Seals = {}
    BY DEF Hot!InUse, Hot!Seals
  <1>2. Hot!LiveSize = 0
    BY <1>1, HotOperators, TotalOfNone DEF Hot!LiveSize
  <1>3. ArenaHeld
    BY <1>1, <1>2, HotConstants DEF ArenaHeld
  <1>4. SealsHeld
    BY <1>1 DEF SealsHeld
  <1>5. ReceiptsHeld
    BY DEF ReceiptsHeld, Hot!ReceiptIsTrue
  <1> QED BY <1>3, <1>4, <1>5 DEF HotInv

LEMMA HotInvImplies == HotInv => EvidenceIsKept
  <1> SUFFICES ASSUME HotInv PROVE Hot!ArenaIsSound /\ Hot!SealsAreAnswered /\ Hot!ReceiptIsTrue
    BY DEF EvidenceIsKept, Hot!EvidenceIsKept
  <1>0. ArenaHeld /\ SealsHeld /\ ReceiptsHeld
    BY DEF HotInv
  <1>1. Hot!ArenaIsSound
    <2>1. \A h \in live : Hot!Names(h) /\ slots[h.slot].payload = h.hash
      BY <1>0 DEF ArenaHeld, HandleAt, Hot!Names
    <2>2. Cardinality(live) = Cardinality(Hot!InUse)
      <3> DEFINE f == [s \in Hot!InUse |-> HandleAt(s)]
      <3>1. f \in [Hot!InUse -> live] /\ \A h \in live : \E s \in Hot!InUse : f[s] = h
        BY <1>0 DEF ArenaHeld
      <3>2. \A s, t \in Hot!InUse : f[s] = f[t] => s = t
        BY DEF HandleAt
      <3> HIDE DEF f
      <3>3. f \in Bijection(Hot!InUse, live)
        BY <3>1, <3>2 DEF Bijection, Injection, Surjection, IsInjective
      <3>4. ExistsBijection(Hot!InUse, live)
        BY <3>3 DEF ExistsBijection
      <3>5. IsFiniteSet(Hot!InUse)
        BY <1>0, InUseTypes
      <3> QED BY <3>4, <3>5, FS_Bijection
    <2>3. IsInjective(free) /\ Range(free) = DOMAIN slots \ Hot!InUse
      <3>1. DOMAIN free = 1 .. Len(free)
        BY <1>0, InUseTypes
      <3>2. IsInjective(free)
        <4>1. \A i, j \in 1 .. Len(free) : free[i] = free[j] => i = j
          BY <1>0, Zenon DEF ArenaHeld
        <4> QED BY <3>1, <4>1 DEF IsInjective
      <3>3. Range(free) = DOMAIN slots \ Hot!InUse
        <4>1. /\ \A i \in 1 .. Len(free) : free[i] \in DOMAIN slots \ Hot!InUse
              /\ \A s \in DOMAIN slots \ Hot!InUse : \E i \in 1 .. Len(free) : free[i] = s
          BY <1>0, Zenon DEF ArenaHeld
        <4> QED BY <3>1, <4>1 DEF Range
      <3> QED BY <3>2, <3>3
    <2>4. liveBytes = Hot!LiveSize /\ liveBytes <= MaxLiveBytes
      BY <1>0 DEF ArenaHeld
    <2> QED BY <2>1, <2>2, <2>3, <2>4, HotOperators DEF Hot!ArenaIsSound
  <1>2. Hot!SealsAreAnswered
    <2> DEFINE a == Len(answered) + Len(current)
               f == [i \in Hot!Seals |-> channel[i].id]
    <2>1. /\ Len(answered) \in Nat /\ Len(current) \in Nat /\ queued \in Nat /\ a \in Nat
          /\ \A i \in Hot!Seals : channel[i].id \in Nat
          /\ Hot!Seals \subseteq 1 .. Len(channel) /\ Len(channel) \in Nat
      BY <1>0, ChannelTypes DEF Hot!Seals
    <2>2. a <= queued /\ {channel[i].id : i \in Hot!Seals} = a + 1 .. queued
      BY <1>0 DEF SealsHeld
    <2>3. f \in [Hot!Seals -> a + 1 .. queued] /\ \A n \in a + 1 .. queued : \E i \in Hot!Seals : f[i] = n
      BY <2>2
    <2>4. \A i, j \in Hot!Seals : f[i] = f[j] => i = j
      <3> SUFFICES ASSUME NEW i \in Hot!Seals, NEW j \in Hot!Seals, channel[i].id = channel[j].id
                   PROVE  i = j
        OBVIOUS
      <3>1. i \in Nat /\ j \in Nat /\ channel[i].id \in Nat /\ channel[j].id \in Nat
        BY <2>1
      <3>2. /\ i < j => channel[i].id < channel[j].id
            /\ j < i => channel[j].id < channel[i].id
        BY <1>0 DEF SealsHeld
      <3> QED BY <3>1, <3>2
    <2> HIDE DEF f, a
    <2>5. f \in Bijection(Hot!Seals, a + 1 .. queued)
      BY <2>3, <2>4 DEF Bijection, Injection, Surjection, IsInjective
    <2>6. ExistsBijection(Hot!Seals, a + 1 .. queued)
      BY <2>5 DEF ExistsBijection
    <2>7. IsFiniteSet(Hot!Seals)
      <3>1. IsFiniteSet(1 .. Len(channel))
        BY <2>1, FS_Interval
      <3> QED BY <2>1, <3>1, FS_Subset
    <2>8. Cardinality(a + 1 .. queued) = Cardinality(Hot!Seals)
      BY <2>6, <2>7, FS_Bijection
    <2>9. Cardinality(a + 1 .. queued) = queued - a
      <3>1. Cardinality(a + 1 .. queued) = IF a + 1 > queued THEN 0 ELSE queued - (a + 1) + 1
        BY <2>1, FS_Interval
      <3> QED BY <2>1, <2>2, <3>1
    <2>10. Len(answered) + Len(current) + Hot!Cardinality(Hot!Seals) = queued
      <3>1. a + Cardinality(Hot!Seals) = queued
        BY <2>1, <2>8, <2>9
      <3> QED BY <3>1, HotOperators DEF a
    <2> QED BY <1>0, <2>10 DEF SealsHeld, Hot!SealsAreAnswered
  <1> QED BY <1>0, <1>1, <1>2 DEF ReceiptsHeld

\* Evidence in the arena is readable until it is released, a receipt of the
\* sealer is true, and every queued seal is answered once and in order, for
\* any payloads, sizes and limits (hot_engine.rs).
THEOREM HotEvidenceIsKept == Hot!HotSpec => []EvidenceIsKept
  <1> QED BY HotInvInit, HotInvStep, HotInvImplies, PTL DEF Hot!HotSpec

-----------------------------------------------------------------------------
(* The client of a local MCP server.                                       *)

Steps ==
    {"idle", "starting", "reaping", "spawning", "slot", "sent", "closing", "stopping", "draining"}

\* The holder of the lifecycle lock is the one that starts the server.
StdioTyped ==
    /\ step \in [Callers -> Steps] /\ kind \in [Callers -> Stdio!Kinds]
    /\ id \in [Callers -> Nat] /\ answer \in [Callers -> {"none", "answer", "again", "error"}]
    /\ exclusive \in BOOLEAN /\ nextId \in Nat
    /\ closed \in BOOLEAN /\ abandoned \in SUBSET {"named", "lost"}
    /\ lifecycle \in Callers \cup {Stdio!NoCaller}
    /\ lifecycle \in Callers => step[lifecycle] \notin {"idle", "starting"}
    /\ \A c \in Callers : step[c] \in {"reaping", "spawning"} => lifecycle = c

Reading == {c \in Callers : step[c] = "sent" /\ Stdio!KindOf(c) = "read_only"}
Alone == {c \in Callers : step[c] = "sent" /\ Stdio!KindOf(c) # "read_only"}
Waiting == {c \in Callers : step[c] = "slot" /\ Stdio!KindOf(c) # "read_only"}

\* Who holds the slots and who waits for one, by name.
SlotsHeld ==
    /\ IsFiniteSet(Reading) /\ readOnly = Cardinality(Reading) /\ readOnly <= MaxReadOnly
    /\ IsFiniteSet(Waiting) /\ wanting = Cardinality(Waiting)
    /\ ~exclusive => Alone = {}
    /\ exclusive => Reading = {} /\ \E c \in Callers : Alone = {c}
    /\ \A c \in Alone : Stdio!KindOf(c) = "large" => limit = "large"

\* A request that nobody has answered is registered.
FuturesKept ==
    /\ \A i \in DOMAIN registered :
          registered[i] \in Callers /\ step[registered[i]] = "sent" /\ id[registered[i]] = i
    /\ \A c \in Callers : step[c] = "sent" => id[c] < nextId
    /\ \A c, d \in Callers : step[c] = "sent" /\ step[d] = "sent" /\ id[c] = id[d] => c = d
    /\ \A c \in Callers : step[c] = "sent" /\ answer[c] = "none" => id[c] \in DOMAIN registered

\* The server of a closed provider that nobody left behind is about to be taken
\* by a close, or it is one whose handshake nobody answers.
ServerKept ==
    /\ \A c \in Callers : step[c] = "spawning" => process = "none"
    /\ closed /\ "named" \notin abandoned /\ process # "none" =>
          \/ \E c \in Callers : step[c] = "closing"
          \/ /\ lifecycle \in Callers /\ step[lifecycle] \in {"slot", "sent"}
             /\ step[lifecycle] = "sent" => answer[lifecycle] # "answer"
             /\ reader # "running"

StdioInv == StdioTyped /\ SlotsHeld /\ FuturesKept /\ ServerKept

LEMMA StdioCounts ==
    /\ \A S : Stdio!Cardinality(S) = Cardinality(S)
    /\ \A S : Stdio!IsFiniteSet(S) = IsFiniteSet(S)
  BY Zenon DEF Stdio!Cardinality, Cardinality, Stdio!IsFiniteSet, IsFiniteSet

LEMMA StdioConstants == MaxReadOnly \in Nat \ {0} /\ MaxId \in Nat /\ Stdio!NoCaller \notin Callers
  BY NativeAssumption DEF Stdio!StdioAssumption

LEMMA StdioTypedStep ==
    ASSUME StdioTyped, [Stdio!StdioNext]_(Stdio!stdioVars) PROVE StdioTyped'
  <1> USE StdioConstants
  <1>1. CASE UNCHANGED Stdio!stdioVars
    BY <1>1 DEF StdioTyped, Stdio!stdioVars, Stdio!serverVars, Stdio!slotVars
  <1>2. ASSUME NEW c \in Callers, NEW k \in Stdio!Kinds, Stdio!Call(c, k) PROVE StdioTyped'
    BY <1>2 DEF StdioTyped, Steps, Stdio!Call, Stdio!Kinds, Stdio!serverVars, Stdio!slotVars
  <1>3. ASSUME NEW c \in Callers, Stdio!AlreadyStarted(c) PROVE StdioTyped'
    BY <1>3 DEF StdioTyped, Steps, Stdio!AlreadyStarted, Stdio!Queue, Stdio!Kinds, Stdio!serverVars
  <1>4. ASSUME NEW c \in Callers, Stdio!StartRefused(c) PROVE StdioTyped'
    BY <1>4 DEF StdioTyped, Steps, Stdio!StartRefused, Stdio!Done, Stdio!Kinds, Stdio!serverVars,
       Stdio!slotVars
  <1>5. ASSUME NEW c \in Callers, Stdio!Spawn(c) PROVE StdioTyped'
    BY <1>5 DEF StdioTyped, Steps, Stdio!Spawn, Stdio!slotVars
  <1>6. ASSUME NEW c \in Callers, Stdio!SpawnFails(c) PROVE StdioTyped'
    BY <1>6 DEF StdioTyped, Steps, Stdio!SpawnFails, Stdio!Done, Stdio!Kinds, Stdio!slotVars
  <1>7. ASSUME NEW c \in Callers, Stdio!Spawned(c) PROVE StdioTyped'
    BY <1>7 DEF StdioTyped, Steps, Stdio!Spawned, Stdio!Queue, Stdio!slotVars
  <1>8. ASSUME NEW c \in Callers, Stdio!Send(c) PROVE StdioTyped'
    <2>1. exclusive' \in BOOLEAN
      BY <1>8 DEF StdioTyped, Stdio!Send
    <2>2. /\ step' = [step EXCEPT ![c] = "sent"] /\ step[c] = "slot"
          /\ id' = [id EXCEPT ![c] = nextId] /\ nextId' = nextId + 1
          /\ answer' = [answer EXCEPT ![c] = IF process = "running" THEN "none" ELSE "error"]
          /\ UNCHANGED <<Stdio!serverVars, kind>>
      BY <1>8 DEF Stdio!Send
    <2> QED BY <2>1, <2>2 DEF StdioTyped, Steps, Stdio!serverVars
  <1>9. ASSUME NEW c \in Callers, Stdio!Resume(c) PROVE StdioTyped'
    <2>1. exclusive' \in BOOLEAN
      BY <1>9 DEF StdioTyped, Stdio!Resume, Stdio!GiveBack
    <2> QED BY <1>9, <2>1 DEF StdioTyped, Steps, Stdio!Resume, Stdio!Forget, Stdio!Handshake,
               Stdio!Done, Stdio!Kinds
  <1>10. ASSUME NEW c \in Callers, Stdio!Again(c) PROVE StdioTyped'
    BY <1>10 DEF StdioTyped, Steps, Stdio!Again, Stdio!Forget, Stdio!serverVars
  <1>11. ASSUME NEW c \in Callers, Stdio!RequestFails(c) PROVE StdioTyped'
    <2>1. exclusive' \in BOOLEAN
      BY <1>11 DEF StdioTyped, Stdio!RequestFails, Stdio!Leave, Stdio!GiveBack
    <2>2. id' \in [Callers -> Nat] /\ answer' \in [Callers -> {"none", "answer", "again", "error"}]
      BY <1>11 DEF StdioTyped, Stdio!RequestFails, Stdio!ForgetIfSent, Stdio!Forget
    <2>3. step' = [step EXCEPT ![c] = "idle"] /\ kind' = [kind EXCEPT ![c] = "exclusive"]
      BY <1>11 DEF Stdio!RequestFails, Stdio!Done
    <2>4. lifecycle # c /\ UNCHANGED <<Stdio!serverVars, nextId>>
      BY <1>11 DEF Stdio!RequestFails, Stdio!Handshake
    <2> QED BY <2>1, <2>2, <2>3, <2>4 DEF StdioTyped, Steps, Stdio!Kinds, Stdio!serverVars
  <1>12. ASSUME NEW c \in Callers, Stdio!HandshakeFails(c) PROVE StdioTyped'
    <2>1. exclusive' \in BOOLEAN
      BY <1>12 DEF StdioTyped, Stdio!HandshakeFails, Stdio!Leave, Stdio!GiveBack
    <2>2. answer' \in [Callers -> {"none", "answer", "again", "error"}]
      BY <1>12 DEF StdioTyped, Stdio!HandshakeFails, Stdio!Closes, Stdio!Told
    <2>3. /\ step' = [step EXCEPT ![c] = "closing"] /\ closed' = TRUE
          /\ id' = [id EXCEPT ![c] = 0]
          /\ UNCHANGED <<lifecycle, abandoned, kind, nextId>>
      BY <1>12 DEF Stdio!HandshakeFails, Stdio!Closes
    <2> QED BY <1>12, <2>1, <2>2, <2>3 DEF StdioTyped, Steps, Stdio!HandshakeFails
  <1>13. ASSUME NEW c \in Callers, Stdio!Cancelled(c) PROVE StdioTyped'
    <2>1. exclusive' \in BOOLEAN
      BY <1>13 DEF StdioTyped, Stdio!Cancelled, Stdio!Leave, Stdio!GiveBack, Stdio!slotVars
    <2>2. id' \in [Callers -> Nat] /\ answer' \in [Callers -> {"none", "answer", "again", "error"}]
      BY <1>13 DEF StdioTyped, Stdio!Cancelled, Stdio!ForgetIfSent, Stdio!Forget
    <2>3. abandoned' \in SUBSET {"named", "lost"}
      BY <1>13 DEF StdioTyped, Stdio!Cancelled
    <2>4. /\ step' = [step EXCEPT ![c] = "idle"] /\ kind' = [kind EXCEPT ![c] = "exclusive"]
          /\ lifecycle' = IF lifecycle = c THEN Stdio!NoCaller ELSE lifecycle
          /\ UNCHANGED <<closed, nextId>>
      BY <1>13 DEF Stdio!Cancelled, Stdio!Done, Stdio!Handshake
    <2> QED BY <2>1, <2>2, <2>3, <2>4 DEF StdioTyped, Steps, Stdio!Kinds
  <1>14. ASSUME NEW i \in 1 .. MaxId, NEW what \in {"answer", "again"}, Stdio!Deliver(i, what)
         PROVE  StdioTyped'
    BY <1>14 DEF StdioTyped, Stdio!Deliver, Stdio!slotVars
  <1>15. ASSUME NEW c \in Callers, Stdio!Close(c) PROVE StdioTyped'
    BY <1>15 DEF StdioTyped, Steps, Stdio!Close, Stdio!Closes, Stdio!Told, Stdio!slotVars
  <1>16. CASE Stdio!ProcessExits
    BY <1>16 DEF StdioTyped, Stdio!ProcessExits, Stdio!slotVars
  <1>17. CASE Stdio!ReaderFails
    BY <1>17 DEF StdioTyped, Stdio!ReaderFails, Stdio!Told, Stdio!slotVars
  <1>18. ASSUME NEW c \in Callers, Stdio!Reap(c) PROVE StdioTyped'
    BY <1>18 DEF StdioTyped, Steps, Stdio!Reap, Stdio!slotVars
  <1>19. ASSUME NEW c \in Callers, Stdio!Reaped(c) PROVE StdioTyped'
    BY <1>19 DEF StdioTyped, Steps, Stdio!Reaped, Stdio!slotVars
  <1>20. ASSUME NEW c \in Callers, Stdio!TakeProcess(c) PROVE StdioTyped'
    <2>1. abandoned' \in SUBSET {"named", "lost"}
      BY <1>20 DEF StdioTyped, Stdio!TakeProcess
    <2> QED BY <1>20, <2>1 DEF StdioTyped, Steps, Stdio!TakeProcess, Stdio!slotVars
  <1>21. ASSUME NEW c \in Callers, Stdio!Stopped(c) PROVE StdioTyped'
    BY <1>21 DEF StdioTyped, Steps, Stdio!Stopped, Stdio!slotVars, Stdio!serverVars
  <1>22. ASSUME NEW c \in Callers, Stdio!Drained(c) PROVE StdioTyped'
    BY <1>22 DEF StdioTyped, Steps, Stdio!Drained, Stdio!Done, Stdio!Handshake, Stdio!Kinds,
       Stdio!slotVars
  <1>23. ASSUME NEW c \in Callers, Stdio!CloseCancelled(c) PROVE StdioTyped'
    <2>1. abandoned' \in SUBSET {"named", "lost"}
      BY <1>23 DEF StdioTyped, Stdio!CloseCancelled
    <2> QED BY <1>23, <2>1 DEF StdioTyped, Steps, Stdio!CloseCancelled, Stdio!Done,
               Stdio!Handshake, Stdio!Kinds, Stdio!slotVars
  <1>24. ASSUME NEW c \in Callers, Stdio!StopCancelled(c) PROVE StdioTyped'
    <2>1. abandoned' \in SUBSET {"named", "lost"}
      BY <1>24 DEF StdioTyped, Stdio!StopCancelled
    <2> QED BY <1>24, <2>1 DEF StdioTyped, Steps, Stdio!StopCancelled, Stdio!slotVars
  <1> QED BY <1>1, <1>2, <1>3, <1>4, <1>5, <1>6, <1>7, <1>8, <1>9, <1>10, <1>11, <1>12, <1>13,
             <1>14, <1>15, <1>16, <1>17, <1>18, <1>19, <1>20, <1>21, <1>22, <1>23, <1>24, Zenon
          DEF Stdio!StdioNext

\* What a step of caller c does to who holds and who waits.
LEMMA SlotsMove ==
    ASSUME NEW c \in Callers,
           \A d \in Callers \ {c} : step'[d] = step[d] /\ Stdio!KindOf(d)' = Stdio!KindOf(d)
    PROVE  /\ Reading' = IF step'[c] = "sent" /\ Stdio!KindOf(c)' = "read_only"
                         THEN Reading \cup {c} ELSE Reading \ {c}
           /\ Alone' = IF step'[c] = "sent" /\ Stdio!KindOf(c)' # "read_only"
                       THEN Alone \cup {c} ELSE Alone \ {c}
           /\ Waiting' = IF step'[c] = "slot" /\ Stdio!KindOf(c)' # "read_only"
                         THEN Waiting \cup {c} ELSE Waiting \ {c}
  BY DEF Reading, Alone, Waiting

\* Only the step and the kind of the caller itself change, also where it takes
\* the lifecycle lock or gives it back.
LEMMA KindsStay ==
    ASSUME StdioTyped, NEW c \in Callers,
           step' = [step EXCEPT ![c] = step'[c]], kind' = [kind EXCEPT ![c] = kind'[c]],
           \/ lifecycle' = lifecycle
           \/ lifecycle = Stdio!NoCaller /\ lifecycle' = c
           \/ lifecycle = c /\ lifecycle' = Stdio!NoCaller
    PROVE  \A d \in Callers \ {c} : step'[d] = step[d] /\ Stdio!KindOf(d)' = Stdio!KindOf(d)
  BY StdioConstants DEF StdioTyped, Stdio!KindOf, Stdio!Handshake

\* Nobody's slot or place in the queue changes.
LEMMA SlotsUntouched ==
    ASSUME SlotsHeld, Reading' = Reading, Alone' = Alone, Waiting' = Waiting,
           \A c \in Alone : Stdio!KindOf(c)' = Stdio!KindOf(c), limit' = limit,
           readOnly' = readOnly, exclusive' = exclusive, wanting' = wanting
    PROVE  SlotsHeld'
  BY DEF SlotsHeld

\* A caller outside the slots and the queue moves and stays outside.
LEMMA OutsideKeepsSlots ==
    ASSUME StdioTyped, SlotsHeld, NEW c \in Callers,
           step' = [step EXCEPT ![c] = step'[c]], kind' = [kind EXCEPT ![c] = kind'[c]],
           \/ lifecycle' = lifecycle
           \/ lifecycle = Stdio!NoCaller /\ lifecycle' = c
           \/ lifecycle = c /\ lifecycle' = Stdio!NoCaller,
           step[c] \notin {"slot", "sent"}, step'[c] \notin {"slot", "sent"},
           limit' = limit, readOnly' = readOnly, exclusive' = exclusive, wanting' = wanting
    PROVE  SlotsHeld'
  <1>1. \A d \in Callers \ {c} : step'[d] = step[d] /\ Stdio!KindOf(d)' = Stdio!KindOf(d)
    BY KindsStay
  <1>2. c \notin Reading /\ c \notin Alone /\ c \notin Waiting
    BY DEF Reading, Alone, Waiting
  <1>3. Reading' = Reading /\ Alone' = Alone /\ Waiting' = Waiting
    BY <1>1, <1>2, SlotsMove
  <1>4. \A d \in Alone : Stdio!KindOf(d)' = Stdio!KindOf(d)
    BY <1>1, <1>2 DEF Alone
  <1> QED BY <1>3, <1>4, SlotsUntouched

\* The caller joins the queue.
LEMMA QueueKeepsSlots ==
    ASSUME StdioTyped, SlotsHeld, NEW c \in Callers,
           step[c] \in {"starting", "spawning"}, Stdio!Queue(c, Stdio!KindOf(c)),
           UNCHANGED <<kind, lifecycle, limit, readOnly, exclusive>>
    PROVE  SlotsHeld'
  <1>1. /\ step' = [step EXCEPT ![c] = step'[c]] /\ kind' = [kind EXCEPT ![c] = kind'[c]]
        /\ step'[c] = "slot" /\ Stdio!KindOf(c)' = Stdio!KindOf(c)
        /\ wanting' = IF Stdio!KindOf(c) = "read_only" THEN wanting ELSE wanting + 1
    BY DEF StdioTyped, Stdio!Queue, Stdio!KindOf, Stdio!Handshake
  <1>2. \A d \in Callers \ {c} : step'[d] = step[d] /\ Stdio!KindOf(d)' = Stdio!KindOf(d)
    BY <1>1, KindsStay
  <1>3. c \notin Reading /\ c \notin Alone /\ c \notin Waiting
    BY DEF Reading, Alone, Waiting
  <1>4. /\ Reading' = Reading /\ Alone' = Alone
        /\ Waiting' = IF Stdio!KindOf(c) = "read_only" THEN Waiting ELSE Waiting \cup {c}
    BY <1>1, <1>2, <1>3, SlotsMove
  <1>5. IsFiniteSet(Waiting') /\ wanting' = Cardinality(Waiting')
    <2>1. IsFiniteSet(Waiting) /\ wanting = Cardinality(Waiting)
      BY DEF SlotsHeld
    <2>2. IsFiniteSet(Waiting \cup {c}) /\ Cardinality(Waiting \cup {c}) = Cardinality(Waiting) + 1
      BY <1>3, <2>1, FS_AddElement
    <2> QED BY <1>1, <1>4, <2>1, <2>2
  <1>6. \A d \in Alone : Stdio!KindOf(d)' = Stdio!KindOf(d)
    BY <1>2, <1>3 DEF Alone
  <1> QED BY <1>4, <1>5, <1>6 DEF SlotsHeld

\* The caller leaves its slot, or the queue for one, or a slot for the queue.
LEMMA LeaveKeepsSlots ==
    ASSUME StdioTyped, SlotsHeld, NEW c \in Callers, step[c] \in {"slot", "sent"},
           step' = [step EXCEPT ![c] = step'[c]], kind' = [kind EXCEPT ![c] = kind'[c]],
           \/ lifecycle' = lifecycle
           \/ lifecycle = c /\ lifecycle' = Stdio!NoCaller,
           step'[c] \notin {"slot", "sent"},
           IF step[c] = "sent" THEN Stdio!GiveBack(c)
           ELSE /\ wanting' = IF Stdio!KindOf(c) = "read_only" THEN wanting ELSE wanting - 1
                /\ UNCHANGED <<readOnly, exclusive>>,
           limit' = IF step[c] = "sent" THEN "small" ELSE limit
    PROVE  SlotsHeld'
  <1>1. \A d \in Callers \ {c} : step'[d] = step[d] /\ Stdio!KindOf(d)' = Stdio!KindOf(d)
    BY KindsStay
  <1>2. Reading' = Reading \ {c} /\ Alone' = Alone \ {c} /\ Waiting' = Waiting \ {c}
    BY <1>1, SlotsMove
  <1>3. /\ IsFiniteSet(Reading) /\ readOnly = Cardinality(Reading) /\ readOnly <= MaxReadOnly
        /\ IsFiniteSet(Waiting) /\ wanting = Cardinality(Waiting)
        /\ readOnly \in Nat /\ wanting \in Nat
    BY FS_CardinalityType DEF SlotsHeld
  <1>4. \A d \in Alone' : Stdio!KindOf(d)' = Stdio!KindOf(d)
    BY <1>1, <1>2 DEF Alone
  <1>5. CASE step[c] = "sent" /\ Stdio!KindOf(c) = "read_only"
    <2>1. c \in Reading /\ c \notin Alone /\ c \notin Waiting
      BY <1>5 DEF Reading, Alone, Waiting
    <2>2. readOnly' = readOnly - 1 /\ exclusive' = exclusive /\ wanting' = wanting
      BY <1>5 DEF Stdio!GiveBack
    <2>3. /\ IsFiniteSet(Reading \ {c}) /\ Cardinality(Reading \ {c}) = Cardinality(Reading) - 1
      BY <1>3, <2>1, FS_RemoveElement
    <2>4. ~exclusive /\ Alone = {}
      BY <2>1 DEF SlotsHeld
    <2>5. readOnly' <= MaxReadOnly
      BY <1>3, <2>2, StdioConstants
    <2>6. Alone' = {} /\ Waiting' = Waiting /\ Reading' = Reading \ {c}
      BY <1>2, <2>1, <2>4
    <2> QED BY <1>3, <2>2, <2>3, <2>4, <2>5, <2>6 DEF SlotsHeld
  <1>6. CASE step[c] = "sent" /\ Stdio!KindOf(c) # "read_only"
    <2>1. c \notin Reading /\ c \in Alone /\ c \notin Waiting
      BY <1>6 DEF Reading, Alone, Waiting
    <2>2. readOnly' = readOnly /\ exclusive' = FALSE /\ wanting' = wanting
      BY <1>6 DEF Stdio!GiveBack
    <2>3. Alone' = {}
      BY <1>2, <2>1 DEF SlotsHeld, StdioTyped
    <2>4. Reading' = Reading /\ Waiting' = Waiting
      BY <1>2, <2>1
    <2> QED BY <1>3, <2>2, <2>3, <2>4 DEF SlotsHeld
  <1>7. CASE step[c] = "slot"
    <2>1. c \notin Reading /\ c \notin Alone /\ (c \in Waiting <=> Stdio!KindOf(c) # "read_only")
      BY <1>7 DEF Reading, Alone, Waiting
    <2>2. /\ wanting' = IF Stdio!KindOf(c) = "read_only" THEN wanting ELSE wanting - 1
          /\ UNCHANGED <<readOnly, exclusive, limit>>
      BY <1>7
    <2>3. c \in Waiting =>
             IsFiniteSet(Waiting \ {c}) /\ Cardinality(Waiting \ {c}) = Cardinality(Waiting) - 1
      BY <1>3, FS_RemoveElement
    <2>4. IsFiniteSet(Waiting') /\ wanting' = Cardinality(Waiting')
      <3>1. c \notin Waiting => Waiting' = Waiting
        BY <1>2
      <3> QED BY <1>2, <1>3, <2>1, <2>2, <2>3, <3>1
    <2>5. Reading' = Reading /\ Alone' = Alone
      BY <1>2, <2>1
    <2> QED BY <1>4, <2>2, <2>4, <2>5 DEF SlotsHeld
  <1> QED BY <1>5, <1>6, <1>7

\* The caller takes the slot it waited for.
LEMMA SendKeepsSlots ==
    ASSUME StdioTyped, SlotsHeld, NEW c \in Callers, Stdio!Send(c)
    PROVE  SlotsHeld'
  <1>1. /\ step' = [step EXCEPT ![c] = "sent"] /\ kind' = kind /\ lifecycle' = lifecycle
        /\ step[c] = "slot" /\ Stdio!SlotFree(c)
        /\ limit' = IF Stdio!KindOf(c) = "large" THEN "large" ELSE "small"
        /\ IF Stdio!KindOf(c) = "read_only"
           THEN readOnly' = readOnly + 1 /\ exclusive' = exclusive /\ wanting' = wanting
           ELSE exclusive' = TRUE /\ wanting' = wanting - 1 /\ readOnly' = readOnly
    BY DEF Stdio!Send, Stdio!serverVars
  <1>2. /\ step' = [step EXCEPT ![c] = step'[c]] /\ kind' = [kind EXCEPT ![c] = kind'[c]]
        /\ step'[c] = "sent" /\ Stdio!KindOf(c)' = Stdio!KindOf(c)
    BY <1>1 DEF StdioTyped, Stdio!KindOf, Stdio!Handshake
  <1>3. \A d \in Callers \ {c} : step'[d] = step[d] /\ Stdio!KindOf(d)' = Stdio!KindOf(d)
    BY <1>1, <1>2, KindsStay
  <1>4. /\ IsFiniteSet(Reading) /\ readOnly = Cardinality(Reading) /\ readOnly <= MaxReadOnly
        /\ IsFiniteSet(Waiting) /\ wanting = Cardinality(Waiting)
        /\ readOnly \in Nat /\ wanting \in Nat
    BY FS_CardinalityType DEF SlotsHeld
  <1>5. ~exclusive /\ Alone = {}
    BY <1>1 DEF Stdio!SlotFree, SlotsHeld
  <1>6. c \notin Reading /\ (c \in Waiting <=> Stdio!KindOf(c) # "read_only")
    BY <1>1 DEF Reading, Waiting
  <1>7. CASE Stdio!KindOf(c) = "read_only"
    <2>1. Reading' = Reading \cup {c} /\ Alone' = {} /\ Waiting' = Waiting
      BY <1>2, <1>3, <1>5, <1>6, <1>7, SlotsMove
    <2>2. IsFiniteSet(Reading \cup {c}) /\ Cardinality(Reading \cup {c}) = Cardinality(Reading) + 1
      BY <1>4, <1>6, FS_AddElement
    <2>3. readOnly' <= MaxReadOnly
      BY <1>1, <1>4, <1>7, StdioConstants DEF Stdio!SlotFree
    <2> QED BY <1>1, <1>4, <1>5, <1>7, <2>1, <2>2, <2>3 DEF SlotsHeld
  <1>8. CASE Stdio!KindOf(c) # "read_only"
    <2>1. Reading' = Reading /\ Alone' = {c} /\ Waiting' = Waiting \ {c}
      BY <1>2, <1>3, <1>5, <1>6, <1>8, SlotsMove
    <2>2. IsFiniteSet(Waiting \ {c}) /\ Cardinality(Waiting \ {c}) = Cardinality(Waiting) - 1
      BY <1>4, <1>6, <1>8, FS_RemoveElement
    <2>3. Reading = {}
      BY <1>1, <1>4, <1>8, FS_EmptySet DEF Stdio!SlotFree
    <2>4. \A d \in Alone' : Stdio!KindOf(d)' = "large" => limit' = "large"
      BY <1>1, <1>2, <2>1
    <2> QED BY <1>1, <1>4, <1>8, <2>1, <2>2, <2>3, <2>4 DEF SlotsHeld
  <1> QED BY <1>7, <1>8

\* The caller gives its slot back and queues again.
LEMMA AgainKeepsSlots ==
    ASSUME StdioTyped, SlotsHeld, NEW c \in Callers, Stdio!Again(c)
    PROVE  SlotsHeld'
  <1>1. /\ step' = [step EXCEPT ![c] = "slot"] /\ kind' = kind /\ lifecycle' = lifecycle
        /\ step[c] = "sent" /\ limit' = "small"
        /\ IF Stdio!KindOf(c) = "read_only"
           THEN readOnly' = readOnly - 1 /\ exclusive' = exclusive /\ wanting' = wanting
           ELSE exclusive' = FALSE /\ wanting' = wanting + 1 /\ readOnly' = readOnly
    BY DEF Stdio!Again, Stdio!Forget, Stdio!serverVars
  <1>2. /\ step' = [step EXCEPT ![c] = step'[c]] /\ kind' = [kind EXCEPT ![c] = kind'[c]]
        /\ step'[c] = "slot" /\ Stdio!KindOf(c)' = Stdio!KindOf(c)
    BY <1>1 DEF StdioTyped, Stdio!KindOf, Stdio!Handshake
  <1>3. \A d \in Callers \ {c} : step'[d] = step[d] /\ Stdio!KindOf(d)' = Stdio!KindOf(d)
    BY <1>1, <1>2, KindsStay
  <1>4. /\ IsFiniteSet(Reading) /\ readOnly = Cardinality(Reading) /\ readOnly <= MaxReadOnly
        /\ IsFiniteSet(Waiting) /\ wanting = Cardinality(Waiting)
        /\ readOnly \in Nat /\ wanting \in Nat
    BY FS_CardinalityType DEF SlotsHeld
  <1>5. c \notin Waiting
    BY <1>1 DEF Waiting
  <1>6. CASE Stdio!KindOf(c) = "read_only"
    <2>1. c \in Reading /\ c \notin Alone
      BY <1>1, <1>6 DEF Reading, Alone
    <2>2. ~exclusive /\ Alone = {}
      BY <2>1 DEF SlotsHeld
    <2>3. Reading' = Reading \ {c} /\ Alone' = {} /\ Waiting' = Waiting
      BY <1>2, <1>3, <1>5, <1>6, <2>1, <2>2, SlotsMove
    <2>4. IsFiniteSet(Reading \ {c}) /\ Cardinality(Reading \ {c}) = Cardinality(Reading) - 1
      BY <1>4, <2>1, FS_RemoveElement
    <2>5. readOnly' <= MaxReadOnly
      BY <1>1, <1>4, <1>6, StdioConstants
    <2> QED BY <1>1, <1>4, <1>6, <2>2, <2>3, <2>4, <2>5 DEF SlotsHeld
  <1>7. CASE Stdio!KindOf(c) # "read_only"
    <2>1. c \notin Reading /\ c \in Alone
      BY <1>1, <1>7 DEF Reading, Alone
    <2>2. Alone = {c}
      BY <2>1 DEF SlotsHeld, StdioTyped
    <2>3. Reading' = Reading /\ Alone' = {} /\ Waiting' = Waiting \cup {c}
      BY <1>2, <1>3, <1>7, <2>1, <2>2, SlotsMove
    <2>4. IsFiniteSet(Waiting \cup {c}) /\ Cardinality(Waiting \cup {c}) = Cardinality(Waiting) + 1
      BY <1>4, <1>5, FS_AddElement
    <2> QED BY <1>1, <1>4, <1>7, <2>3, <2>4 DEF SlotsHeld
  <1> QED BY <1>6, <1>7

LEMMA SlotsHeldStep ==
    ASSUME StdioTyped, SlotsHeld, [Stdio!StdioNext]_(Stdio!stdioVars) PROVE SlotsHeld'
  <1>1. ASSUME UNCHANGED <<step, kind, lifecycle, limit, readOnly, exclusive, wanting>>
        PROVE  SlotsHeld'
    BY <1>1, Zenon DEF SlotsHeld, Reading, Alone, Waiting, Stdio!KindOf, Stdio!Handshake
  <1>2. CASE UNCHANGED Stdio!stdioVars
    BY <1>1, <1>2 DEF Stdio!stdioVars, Stdio!serverVars, Stdio!slotVars
  <1>3. ASSUME NEW c \in Callers, NEW k \in Stdio!Kinds, Stdio!Call(c, k) PROVE SlotsHeld'
    BY <1>3, OutsideKeepsSlots DEF StdioTyped, Stdio!Call, Stdio!serverVars, Stdio!slotVars
  <1>4. ASSUME NEW c \in Callers, Stdio!AlreadyStarted(c) PROVE SlotsHeld'
    <2>1. Stdio!KindOf(c) = kind[c]
      BY <1>4, StdioConstants DEF Stdio!AlreadyStarted, Stdio!KindOf, Stdio!Handshake
    <2> QED BY <1>4, <2>1, QueueKeepsSlots DEF Stdio!AlreadyStarted, Stdio!serverVars
  <1>5. ASSUME NEW c \in Callers, Stdio!StartRefused(c) PROVE SlotsHeld'
    BY <1>5, OutsideKeepsSlots
       DEF StdioTyped, Stdio!StartRefused, Stdio!Done, Stdio!serverVars, Stdio!slotVars
  <1>6. ASSUME NEW c \in Callers, Stdio!Spawn(c) PROVE SlotsHeld'
    BY <1>6, OutsideKeepsSlots DEF StdioTyped, Stdio!Spawn, Stdio!slotVars
  <1>7. ASSUME NEW c \in Callers, Stdio!SpawnFails(c) PROVE SlotsHeld'
    BY <1>7, OutsideKeepsSlots DEF StdioTyped, Stdio!SpawnFails, Stdio!Done, Stdio!slotVars
  <1>8. ASSUME NEW c \in Callers, Stdio!Spawned(c) PROVE SlotsHeld'
    <2>1. Stdio!KindOf(c) = "exclusive"
      BY <1>8 DEF StdioTyped, Stdio!Spawned, Stdio!KindOf, Stdio!Handshake
    <2> QED BY <1>8, <2>1, QueueKeepsSlots DEF Stdio!Spawned
  <1>9. ASSUME NEW c \in Callers, Stdio!Resume(c) PROVE SlotsHeld'
    <2>1. /\ step[c] = "sent" /\ limit' = "small" /\ Stdio!GiveBack(c)
      BY <1>9 DEF Stdio!Resume, Stdio!Forget
    <2>2. /\ step' = [step EXCEPT ![c] = step'[c]] /\ kind' = [kind EXCEPT ![c] = kind'[c]]
          /\ step'[c] \notin {"slot", "sent"}
          /\ \/ lifecycle' = lifecycle
             \/ lifecycle = c /\ lifecycle' = Stdio!NoCaller
      BY <1>9 DEF StdioTyped, Stdio!Resume, Stdio!Handshake, Stdio!Done
    <2> QED BY <2>1, <2>2, LeaveKeepsSlots
  <1>10. ASSUME NEW c \in Callers, Stdio!RequestFails(c) PROVE SlotsHeld'
    <2>1. /\ step[c] \in {"slot", "sent"} /\ Stdio!Leave(c) /\ lifecycle' = lifecycle
          /\ limit' = IF step[c] = "sent" THEN "small" ELSE limit
      BY <1>10 DEF Stdio!RequestFails, Stdio!ForgetIfSent, Stdio!Forget, Stdio!serverVars
    <2>2. /\ step' = [step EXCEPT ![c] = step'[c]] /\ kind' = [kind EXCEPT ![c] = kind'[c]]
          /\ step'[c] \notin {"slot", "sent"}
      BY <1>10 DEF StdioTyped, Stdio!RequestFails, Stdio!Done
    <2> QED BY <2>1, <2>2, LeaveKeepsSlots DEF Stdio!Leave
  <1>11. ASSUME NEW c \in Callers, Stdio!HandshakeFails(c) PROVE SlotsHeld'
    <2>1. /\ step[c] \in {"slot", "sent"} /\ Stdio!Leave(c) /\ lifecycle' = lifecycle
          /\ limit' = IF step[c] = "sent" THEN "small" ELSE limit
      BY <1>11 DEF Stdio!HandshakeFails
    <2>2. /\ step' = [step EXCEPT ![c] = step'[c]] /\ kind' = [kind EXCEPT ![c] = kind'[c]]
          /\ step'[c] \notin {"slot", "sent"}
      BY <1>11 DEF StdioTyped, Stdio!HandshakeFails, Stdio!Closes
    <2> QED BY <2>1, <2>2, LeaveKeepsSlots DEF Stdio!Leave
  <1>12. ASSUME NEW c \in Callers, Stdio!Cancelled(c) PROVE SlotsHeld'
    <2>1. /\ limit' = IF step[c] = "sent" THEN "small" ELSE limit
          /\ \/ lifecycle' = lifecycle
             \/ lifecycle = c /\ lifecycle' = Stdio!NoCaller
      BY <1>12 DEF Stdio!Cancelled, Stdio!ForgetIfSent, Stdio!Forget, Stdio!Handshake
    <2>2. /\ step' = [step EXCEPT ![c] = step'[c]] /\ kind' = [kind EXCEPT ![c] = kind'[c]]
          /\ step'[c] \notin {"slot", "sent"}
      BY <1>12 DEF StdioTyped, Stdio!Cancelled, Stdio!Done
    <2>3. CASE step[c] \in {"slot", "sent"}
      <3>1. Stdio!Leave(c)
        BY <1>12, <2>3 DEF Stdio!Cancelled
      <3> QED BY <2>1, <2>2, <2>3, <3>1, LeaveKeepsSlots DEF Stdio!Leave
    <2>4. CASE step[c] \notin {"slot", "sent"}
      <3>1. UNCHANGED <<readOnly, exclusive, wanting, limit>>
        BY <1>12, <2>1, <2>4 DEF Stdio!Cancelled, Stdio!slotVars
      <3> QED BY <2>1, <2>2, <2>4, <3>1, OutsideKeepsSlots
    <2> QED BY <2>3, <2>4
  <1>13. ASSUME NEW i \in 1 .. MaxId, NEW what \in {"answer", "again"}, Stdio!Deliver(i, what)
         PROVE  SlotsHeld'
    BY <1>1, <1>13 DEF Stdio!Deliver, Stdio!slotVars
  <1>14. ASSUME NEW c \in Callers, Stdio!Close(c) PROVE SlotsHeld'
    BY <1>14, OutsideKeepsSlots DEF StdioTyped, Stdio!Close, Stdio!Closes, Stdio!slotVars
  <1>15. CASE Stdio!ProcessExits
    BY <1>1, <1>15 DEF Stdio!ProcessExits, Stdio!slotVars
  <1>16. CASE Stdio!ReaderFails
    BY <1>1, <1>16 DEF Stdio!ReaderFails, Stdio!slotVars
  <1>17. ASSUME NEW c \in Callers, Stdio!Reap(c) PROVE SlotsHeld'
    BY <1>17, OutsideKeepsSlots DEF StdioTyped, Stdio!Reap, Stdio!slotVars
  <1>18. ASSUME NEW c \in Callers, Stdio!Reaped(c) PROVE SlotsHeld'
    BY <1>18, OutsideKeepsSlots DEF StdioTyped, Stdio!Reaped, Stdio!slotVars
  <1>19. ASSUME NEW c \in Callers, Stdio!TakeProcess(c) PROVE SlotsHeld'
    BY <1>19, OutsideKeepsSlots DEF StdioTyped, Stdio!TakeProcess, Stdio!slotVars
  <1>20. ASSUME NEW c \in Callers, Stdio!Stopped(c) PROVE SlotsHeld'
    BY <1>20, OutsideKeepsSlots DEF StdioTyped, Stdio!Stopped, Stdio!slotVars, Stdio!serverVars
  <1>21. ASSUME NEW c \in Callers, Stdio!Drained(c) PROVE SlotsHeld'
    BY <1>21, OutsideKeepsSlots DEF StdioTyped, Stdio!Drained, Stdio!Done, Stdio!Handshake,
       Stdio!slotVars
  <1>22. ASSUME NEW c \in Callers, Stdio!CloseCancelled(c) PROVE SlotsHeld'
    BY <1>22, OutsideKeepsSlots DEF StdioTyped, Stdio!CloseCancelled, Stdio!Done,
       Stdio!Handshake, Stdio!slotVars
  <1>23. ASSUME NEW c \in Callers, Stdio!StopCancelled(c) PROVE SlotsHeld'
    BY <1>23, OutsideKeepsSlots DEF StdioTyped, Stdio!StopCancelled, Stdio!slotVars
  <1> QED BY <1>2, <1>3, <1>4, <1>5, <1>6, <1>7, <1>8, <1>9, <1>10, <1>11, <1>12, <1>13,
             <1>14, <1>15, <1>16, <1>17, <1>18, <1>19, <1>20, <1>21, <1>22, <1>23,
             SendKeepsSlots, AgainKeepsSlots, Zenon DEF Stdio!StdioNext

\* A caller without a request under way moves, and no request does.
LEMMA FuturesUntouched ==
    ASSUME FuturesKept, UNCHANGED <<registered, id, answer, nextId>>,
           \A d \in Callers : step'[d] = "sent" <=> step[d] = "sent"
    PROVE  FuturesKept'
  BY DEF FuturesKept

\* The finally clauses of a request.
LEMMA ForgetKeepsFutures ==
    ASSUME StdioTyped, FuturesKept, NEW c \in Callers, step[c] = "sent", Stdio!Forget(c),
           step' = [step EXCEPT ![c] = step'[c]], step'[c] # "sent", nextId' = nextId
    PROVE  FuturesKept'
  BY DEF StdioTyped, FuturesKept, Stdio!Forget

\* close, up to its first await.
LEMMA ClosesKeepsFutures ==
    ASSUME StdioTyped, FuturesKept, NEW c \in Callers, Stdio!Closes(c), nextId' = nextId,
           \A d \in Callers \ {c} : id'[d] = id[d]
    PROVE  FuturesKept'
  <1>1. \A i \in DOMAIN registered' : FALSE
    BY DEF Stdio!Closes
  <1>2. step' = [step EXCEPT ![c] = "closing"]
    BY DEF Stdio!Closes
  <1>3. \A d \in Callers : step'[d] = "sent" => answer'[d] # "none"
    BY <1>2 DEF Stdio!Closes, Stdio!Told, Stdio!Registered, FuturesKept, StdioTyped
  <1> QED BY <1>1, <1>2, <1>3 DEF FuturesKept, StdioTyped

LEMMA FuturesKeptStep ==
    ASSUME StdioTyped, FuturesKept, [Stdio!StdioNext]_(Stdio!stdioVars) PROVE FuturesKept'
  <1> USE StdioConstants
  <1>1. CASE UNCHANGED Stdio!stdioVars
    BY <1>1, FuturesUntouched DEF Stdio!stdioVars
  <1>2. ASSUME NEW c \in Callers, NEW k \in Stdio!Kinds, Stdio!Call(c, k) PROVE FuturesKept'
    BY <1>2, FuturesUntouched DEF StdioTyped, Stdio!Call
  <1>3. ASSUME NEW c \in Callers, Stdio!AlreadyStarted(c) PROVE FuturesKept'
    BY <1>3, FuturesUntouched DEF StdioTyped, Stdio!AlreadyStarted, Stdio!Queue
  <1>4. ASSUME NEW c \in Callers, Stdio!StartRefused(c) PROVE FuturesKept'
    BY <1>4, FuturesUntouched DEF StdioTyped, Stdio!StartRefused, Stdio!Done
  <1>5. ASSUME NEW c \in Callers, Stdio!Spawn(c) PROVE FuturesKept'
    BY <1>5, FuturesUntouched DEF StdioTyped, Stdio!Spawn
  <1>6. ASSUME NEW c \in Callers, Stdio!SpawnFails(c) PROVE FuturesKept'
    BY <1>6, FuturesUntouched DEF StdioTyped, Stdio!SpawnFails, Stdio!Done
  <1>7. ASSUME NEW c \in Callers, Stdio!Spawned(c) PROVE FuturesKept'
    BY <1>7, FuturesUntouched DEF StdioTyped, Stdio!Spawned, Stdio!Queue
  <1>8. ASSUME NEW c \in Callers, Stdio!Send(c) PROVE FuturesKept'
    <2>1. /\ step[c] = "slot" /\ step' = [step EXCEPT ![c] = "sent"]
          /\ id' = [id EXCEPT ![c] = nextId] /\ nextId' = nextId + 1
          /\ registered' = [i \in DOMAIN registered \cup {nextId} |->
                               IF i = nextId THEN c ELSE registered[i]]
          /\ answer' = [answer EXCEPT ![c] = IF process = "running" THEN "none" ELSE "error"]
      BY <1>8 DEF Stdio!Send
    <2>2. nextId \notin DOMAIN registered
      BY DEF StdioTyped, FuturesKept
    <2> QED BY <2>1, <2>2 DEF StdioTyped, FuturesKept
  <1>9. ASSUME NEW c \in Callers, Stdio!Resume(c) PROVE FuturesKept'
    <2>1. /\ step[c] = "sent" /\ Stdio!Forget(c) /\ nextId' = nextId
          /\ step' = [step EXCEPT ![c] = step'[c]] /\ step'[c] # "sent"
      BY <1>9 DEF StdioTyped, Stdio!Resume, Stdio!Done
    <2> QED BY <2>1, ForgetKeepsFutures
  <1>10. ASSUME NEW c \in Callers, Stdio!Again(c) PROVE FuturesKept'
    <2>1. /\ step[c] = "sent" /\ Stdio!Forget(c) /\ nextId' = nextId
          /\ step' = [step EXCEPT ![c] = step'[c]] /\ step'[c] # "sent"
      BY <1>10 DEF StdioTyped, Stdio!Again
    <2> QED BY <2>1, ForgetKeepsFutures
  <1>11. ASSUME NEW c \in Callers, Stdio!ForgetIfSent(c), step' = [step EXCEPT ![c] = "idle"],
                nextId' = nextId
         PROVE  FuturesKept'
    <2>1. CASE step[c] = "sent"
      BY <1>11, <2>1, ForgetKeepsFutures DEF StdioTyped, Stdio!ForgetIfSent
    <2>2. CASE step[c] # "sent"
      BY <1>11, <2>2, FuturesUntouched DEF StdioTyped, Stdio!ForgetIfSent
    <2> QED BY <2>1, <2>2
  <1>12. ASSUME NEW c \in Callers, Stdio!RequestFails(c) PROVE FuturesKept'
    BY <1>11, <1>12 DEF Stdio!RequestFails, Stdio!Done
  <1>13. ASSUME NEW c \in Callers, Stdio!HandshakeFails(c) PROVE FuturesKept'
    BY <1>13, ClosesKeepsFutures DEF StdioTyped, Stdio!HandshakeFails
  <1>14. ASSUME NEW c \in Callers, Stdio!Close(c) PROVE FuturesKept'
    BY <1>14, ClosesKeepsFutures DEF Stdio!Close
  <1>15. ASSUME NEW c \in Callers, Stdio!Cancelled(c) PROVE FuturesKept'
    BY <1>11, <1>15 DEF Stdio!Cancelled, Stdio!Done
  <1>16. ASSUME NEW i \in 1 .. MaxId, NEW what \in {"answer", "again"}, Stdio!Deliver(i, what)
         PROVE  FuturesKept'
    <2>1. /\ answer' = IF i \in DOMAIN registered /\ answer[registered[i]] = "none"
                       THEN [answer EXCEPT ![registered[i]] = what] ELSE answer
          /\ UNCHANGED <<step, id, registered, nextId>>
      BY <1>16 DEF Stdio!Deliver
    <2>2. \A c \in Callers : answer'[c] = "none" => answer[c] = "none"
      BY <2>1 DEF StdioTyped
    <2> QED BY <2>1, <2>2 DEF FuturesKept
  <1>17. CASE Stdio!ProcessExits
    BY <1>17, FuturesUntouched DEF Stdio!ProcessExits
  <1>18. CASE Stdio!ReaderFails
    <2>1. \A c \in Callers : step'[c] = "sent" => answer'[c] # "none"
      BY <1>18 DEF Stdio!ReaderFails, Stdio!Told, Stdio!Registered, FuturesKept, StdioTyped
    <2>2. \A i \in DOMAIN registered' : FALSE
      BY <1>18 DEF Stdio!ReaderFails
    <2> QED BY <1>18, <2>1, <2>2 DEF FuturesKept, Stdio!ReaderFails
  <1>19. ASSUME NEW c \in Callers, Stdio!Reap(c) PROVE FuturesKept'
    BY <1>19, FuturesUntouched DEF StdioTyped, Stdio!Reap
  <1>20. ASSUME NEW c \in Callers, Stdio!Reaped(c) PROVE FuturesKept'
    BY <1>20, FuturesUntouched DEF StdioTyped, Stdio!Reaped
  <1>21. ASSUME NEW c \in Callers, Stdio!TakeProcess(c) PROVE FuturesKept'
    BY <1>21, FuturesUntouched DEF StdioTyped, Stdio!TakeProcess
  <1>22. ASSUME NEW c \in Callers, Stdio!Stopped(c) PROVE FuturesKept'
    BY <1>22, FuturesUntouched DEF StdioTyped, Stdio!Stopped
  <1>23. ASSUME NEW c \in Callers, Stdio!Drained(c) PROVE FuturesKept'
    BY <1>23, FuturesUntouched DEF StdioTyped, Stdio!Drained, Stdio!Done
  <1>24. ASSUME NEW c \in Callers, Stdio!CloseCancelled(c) PROVE FuturesKept'
    BY <1>24, FuturesUntouched DEF StdioTyped, Stdio!CloseCancelled, Stdio!Done
  <1>25. ASSUME NEW c \in Callers, Stdio!StopCancelled(c) PROVE FuturesKept'
    BY <1>25, FuturesUntouched DEF StdioTyped, Stdio!StopCancelled
  <1> QED BY <1>1, <1>2, <1>3, <1>4, <1>5, <1>6, <1>7, <1>8, <1>9, <1>10, <1>12, <1>13, <1>14,
             <1>15, <1>16, <1>17, <1>18, <1>19, <1>20, <1>21, <1>22, <1>23, <1>24, <1>25, Zenon
          DEF Stdio!StdioNext

LEMMA ServerKeptStep ==
    ASSUME StdioTyped, ServerKept, [Stdio!StdioNext]_(Stdio!stdioVars) PROVE ServerKept'
  <1> USE StdioConstants
  <1>1. CASE UNCHANGED Stdio!stdioVars
    BY <1>1 DEF ServerKept, Stdio!stdioVars, Stdio!serverVars
  <1>2. ASSUME NEW c \in Callers, NEW k \in Stdio!Kinds, Stdio!Call(c, k) PROVE ServerKept'
    BY <1>2 DEF StdioTyped, ServerKept, Stdio!Call, Stdio!serverVars
  <1>3. ASSUME NEW c \in Callers, Stdio!AlreadyStarted(c) PROVE ServerKept'
    BY <1>3 DEF StdioTyped, ServerKept, Stdio!AlreadyStarted, Stdio!Queue, Stdio!serverVars
  <1>4. ASSUME NEW c \in Callers, Stdio!StartRefused(c) PROVE ServerKept'
    BY <1>4 DEF StdioTyped, ServerKept, Stdio!StartRefused, Stdio!Done, Stdio!serverVars
  <1>5. ASSUME NEW c \in Callers, Stdio!Spawn(c) PROVE ServerKept'
    BY <1>5 DEF StdioTyped, ServerKept, Stdio!Spawn
  <1>6. ASSUME NEW c \in Callers, Stdio!SpawnFails(c) PROVE ServerKept'
    BY <1>6 DEF StdioTyped, ServerKept, Stdio!SpawnFails, Stdio!Done
  <1>7. ASSUME NEW c \in Callers, Stdio!Spawned(c) PROVE ServerKept'
    BY <1>7 DEF StdioTyped, ServerKept, Stdio!Spawned, Stdio!Queue
  <1>8. ASSUME NEW c \in Callers, Stdio!Send(c) PROVE ServerKept'
    <2>1. /\ step[c] = "slot" /\ step' = [step EXCEPT ![c] = "sent"]
          /\ answer' = [answer EXCEPT ![c] = IF process = "running" THEN "none" ELSE "error"]
          /\ UNCHANGED <<process, reader, closed, lifecycle, abandoned>>
      BY <1>8 DEF Stdio!Send, Stdio!serverVars
    <2> QED BY <2>1 DEF StdioTyped, ServerKept
  <1>9. ASSUME NEW c \in Callers, Stdio!Resume(c) PROVE ServerKept'
    <2>1. /\ step[c] = "sent" /\ answer[c] = "answer"
          /\ step' = [step EXCEPT ![c] = step'[c]] /\ step'[c] \in {"idle", "starting"}
          /\ answer' = [answer EXCEPT ![c] = "none"]
          /\ UNCHANGED <<process, reader, closed, abandoned>>
          /\ lifecycle # c => lifecycle' = lifecycle
      BY <1>9 DEF StdioTyped, Stdio!Resume, Stdio!Handshake, Stdio!Done, Stdio!Forget
    <2> QED BY <2>1 DEF StdioTyped, ServerKept
  <1>10. ASSUME NEW c \in Callers, Stdio!Again(c) PROVE ServerKept'
    <2>1. /\ step[c] = "sent" /\ step' = [step EXCEPT ![c] = "slot"]
          /\ answer' = [answer EXCEPT ![c] = "none"]
          /\ UNCHANGED <<process, reader, closed, abandoned, lifecycle>>
      BY <1>10 DEF Stdio!Again, Stdio!Forget, Stdio!serverVars
    <2> QED BY <2>1 DEF StdioTyped, ServerKept
  <1>11. ASSUME NEW c \in Callers, Stdio!RequestFails(c) PROVE ServerKept'
    <2>1. /\ step[c] \in {"slot", "sent"} /\ step' = [step EXCEPT ![c] = "idle"]
          /\ lifecycle # c /\ UNCHANGED <<process, reader, closed, abandoned, lifecycle>>
      BY <1>11 DEF Stdio!RequestFails, Stdio!Done, Stdio!serverVars, Stdio!Handshake
    <2>2. \A d \in Callers \ {c} : answer'[d] = answer[d]
      BY <1>11 DEF StdioTyped, Stdio!RequestFails, Stdio!ForgetIfSent, Stdio!Forget
    <2> QED BY <2>1, <2>2 DEF StdioTyped, ServerKept
  <1>12. ASSUME NEW c \in Callers, Stdio!Closes(c), process' = process, step[c] # "spawning"
         PROVE  ServerKept'
    BY <1>12 DEF StdioTyped, ServerKept, Stdio!Closes
  <1>13. ASSUME NEW c \in Callers, Stdio!HandshakeFails(c) PROVE ServerKept'
    BY <1>12, <1>13 DEF Stdio!HandshakeFails
  <1>14. ASSUME NEW c \in Callers, Stdio!Close(c) PROVE ServerKept'
    BY <1>12, <1>14 DEF Stdio!Close
  <1>15. ASSUME NEW c \in Callers, Stdio!Cancelled(c) PROVE ServerKept'
    <2>1. /\ step[c] \in {"starting", "reaping", "spawning", "slot", "sent"}
          /\ step' = [step EXCEPT ![c] = "idle"]
          /\ UNCHANGED <<process, reader, closed>>
      BY <1>15 DEF Stdio!Cancelled, Stdio!Done
    <2>2. /\ lifecycle' = IF lifecycle = c THEN Stdio!NoCaller ELSE lifecycle
          /\ "named" \in abandoned => "named" \in abandoned'
          /\ lifecycle = c /\ step[c] \in {"slot", "sent"} /\ process # "none"
                => "named" \in abandoned'
      BY <1>15 DEF Stdio!Cancelled, Stdio!Handshake
    <2>3. \A d \in Callers \ {c} : answer'[d] = answer[d]
      BY <1>15 DEF StdioTyped, Stdio!Cancelled, Stdio!ForgetIfSent, Stdio!Forget
    <2> QED BY <2>1, <2>2, <2>3 DEF StdioTyped, ServerKept
  <1>16. ASSUME NEW i \in 1 .. MaxId, NEW what \in {"answer", "again"}, Stdio!Deliver(i, what)
         PROVE  ServerKept'
    <2>1. /\ reader = "running" /\ UNCHANGED <<process, closed, lifecycle, abandoned, step>>
      BY <1>16 DEF Stdio!Deliver
    <2> QED BY <2>1 DEF ServerKept
  <1>17. CASE Stdio!ProcessExits
    BY <1>17 DEF ServerKept, Stdio!ProcessExits
  <1>18. CASE Stdio!ReaderFails
    <2>1. /\ reader = "running" /\ UNCHANGED <<process, closed, lifecycle, abandoned, step>>
      BY <1>18 DEF Stdio!ReaderFails
    <2> QED BY <2>1 DEF ServerKept
  <1>19. ASSUME NEW c \in Callers, Stdio!Reap(c) PROVE ServerKept'
    BY <1>19 DEF StdioTyped, ServerKept, Stdio!Reap
  <1>20. ASSUME NEW c \in Callers, Stdio!Reaped(c) PROVE ServerKept'
    BY <1>20 DEF StdioTyped, ServerKept, Stdio!Reaped
  <1>21. ASSUME NEW c \in Callers, Stdio!TakeProcess(c) PROVE ServerKept'
    BY <1>21 DEF StdioTyped, ServerKept, Stdio!TakeProcess
  <1>22. ASSUME NEW c \in Callers, Stdio!Stopped(c) PROVE ServerKept'
    BY <1>22 DEF StdioTyped, ServerKept, Stdio!Stopped, Stdio!serverVars
  <1>23. ASSUME NEW c \in Callers, Stdio!Drained(c) PROVE ServerKept'
    BY <1>23 DEF StdioTyped, ServerKept, Stdio!Drained, Stdio!Done, Stdio!Handshake
  <1>24. ASSUME NEW c \in Callers, Stdio!CloseCancelled(c) PROVE ServerKept'
    BY <1>24 DEF StdioTyped, ServerKept, Stdio!CloseCancelled, Stdio!Done, Stdio!Handshake
  <1>25. ASSUME NEW c \in Callers, Stdio!StopCancelled(c) PROVE ServerKept'
    BY <1>25 DEF StdioTyped, ServerKept, Stdio!StopCancelled
  <1> QED BY <1>1, <1>2, <1>3, <1>4, <1>5, <1>6, <1>7, <1>8, <1>9, <1>10, <1>11, <1>13, <1>14,
             <1>15, <1>16, <1>17, <1>18, <1>19, <1>20, <1>21, <1>22, <1>23, <1>24, <1>25, Zenon
          DEF Stdio!StdioNext

LEMMA StdioInvInit == Stdio!StdioInit => StdioInv
  <1> SUFFICES ASSUME Stdio!StdioInit PROVE StdioInv
    OBVIOUS
  <1>1. StdioTyped
    BY StdioConstants DEF Stdio!StdioInit, StdioTyped, Steps, Stdio!Kinds
  <1>2. Reading = {} /\ Alone = {} /\ Waiting = {}
    BY DEF Stdio!StdioInit, Reading, Alone, Waiting
  <1>3. SlotsHeld
    BY <1>2, StdioConstants, FS_EmptySet DEF Stdio!StdioInit, SlotsHeld
  <1>4. FuturesKept
    BY StdioConstants DEF Stdio!StdioInit, FuturesKept
  <1>5. ServerKept
    BY DEF Stdio!StdioInit, ServerKept
  <1> QED BY <1>1, <1>3, <1>4, <1>5 DEF StdioInv

LEMMA StdioInvImplies == StdioInv => SlotsAreSound /\ NothingLeftPending
  <1> SUFFICES ASSUME StdioInv PROVE SlotsAreSound /\ NothingLeftPending
    OBVIOUS
  <1>1. StdioTyped /\ SlotsHeld /\ FuturesKept /\ ServerKept
    BY DEF StdioInv
  <1>2. \A c \in Callers : Stdio!KindOf(c) \in {"read_only", "exclusive", "large"}
    BY <1>1 DEF StdioTyped, Stdio!KindOf, Stdio!Kinds
  <1>3. /\ Stdio!InSlot({"read_only"}) = Reading /\ Stdio!InSlot({"exclusive", "large"}) = Alone
        /\ Stdio!Wanting = Waiting
        /\ Stdio!InSlot({"large"}) = {c \in Alone : Stdio!KindOf(c) = "large"}
    BY <1>2 DEF Stdio!InSlot, Stdio!Wanting, Reading, Alone, Waiting
  <1>4. Cardinality(Alone) = IF exclusive THEN 1 ELSE 0
    BY <1>1, FS_EmptySet, FS_Singleton DEF SlotsHeld
  <1>5. exclusive => readOnly = 0
    BY <1>1, FS_EmptySet DEF SlotsHeld
  <1>6. Stdio!SlotsAreSound
    BY <1>1, <1>3, <1>4, <1>5, StdioCounts DEF SlotsHeld, Stdio!SlotsAreSound
  <1>7. Stdio!NothingLeftPending
    BY <1>1, StdioConstants DEF FuturesKept, ServerKept, Stdio!NothingLeftPending
  <1> QED BY <1>6, <1>7 DEF SlotsAreSound, NothingLeftPending

LEMMA StdioInvStep ==
    ASSUME StdioInv, [Stdio!StdioNext]_(Stdio!stdioVars) PROVE StdioInv'
  BY StdioTypedStep, SlotsHeldStep, FuturesKeptStep, ServerKeptStep DEF StdioInv

\* Through timeouts, cancellations, restarts and repeated rounds the slots of
\* McpStdioProvider are what their holders make them, for any callers.
THEOREM StdioSlotsAreSound == Stdio!StdioSpec => []SlotsAreSound
  <1>1. StdioInv => SlotsAreSound
    BY StdioInvImplies
  <1> QED BY <1>1, StdioInvInit, StdioInvStep, PTL DEF Stdio!StdioSpec

\* McpStdioProvider keeps no future that nobody waits for and, closed and at
\* rest, no server that a cancelled start or close did not leave behind, for
\* any callers and wherever a request, a start or a close is cancelled.
THEOREM StdioNothingLeftPending == Stdio!StdioSpec => []NothingLeftPending
  <1>1. StdioInv => NothingLeftPending
    BY StdioInvImplies
  <1> QED BY <1>1, StdioInvInit, StdioInvStep, PTL DEF Stdio!StdioSpec

-----------------------------------------------------------------------------
(* The components side by side.                                            *)

\* A behaviour of the components side by side is one of each component.
LEMMA NativeComponents ==
    NativeSpec => /\ Spec /\ RepositorySpec /\ CooperativeSpec
                  /\ Work!WorkSpec /\ Hot!HotSpec /\ Stdio!StdioSpec
  <1>1. NativeInit => /\ Init /\ RepositoryInit /\ CooperativeInit
                      /\ Work!WorkInit /\ Hot!HotInit /\ Stdio!StdioInit
    BY Zenon DEF NativeInit
  <1>2. [NativeNext]_nativeVars
          => /\ [Next]_vars /\ [RepositoryNext]_repositoryVars /\ [CooperativeNext]_cooperativeVars
             /\ [Work!WorkNext]_(Work!workVars) /\ [Hot!HotNext]_(Hot!hotVars)
             /\ [Stdio!StdioNext]_(Stdio!stdioVars)
    <2>1. [NativeNext]_nativeVars => [Next]_vars
      BY DEF NativeNext, nativeVars
    <2>2. [NativeNext]_nativeVars => [RepositoryNext]_repositoryVars
      BY DEF NativeNext, nativeVars
    <2>3. [NativeNext]_nativeVars => [CooperativeNext]_cooperativeVars
      BY DEF NativeNext, nativeVars
    <2>4. [NativeNext]_nativeVars => [Work!WorkNext]_(Work!workVars)
      BY DEF NativeNext, nativeVars, workVars, Work!workVars
    <2>5. [NativeNext]_nativeVars => [Hot!HotNext]_(Hot!hotVars)
      BY DEF NativeNext, nativeVars, hotVars, Hot!hotVars, Hot!arenaVars, Hot!sealerVars
    <2>6. [NativeNext]_nativeVars => [Stdio!StdioNext]_(Stdio!stdioVars)
      BY DEF NativeNext, nativeVars, stdioVars, Stdio!stdioVars, Stdio!serverVars, Stdio!slotVars
    <2> QED BY <2>1, <2>2, <2>3, <2>4, <2>5, <2>6
  <1> QED BY <1>1, <1>2, PTL
          DEF NativeSpec, Spec, RepositorySpec, CooperativeSpec, Work!WorkSpec, Hot!HotSpec,
              Stdio!StdioSpec

\* All of it holds of the specification that is model-checked.
THEOREM NativeStoresAreSound ==
    NativeSpec => /\ [](MutualExclusion /\ HandoverIsSafe /\ NoLostUpdate /\ OneExecutionPerTurn
                        /\ CooperativeIsExact /\ WorkIsExclusive /\ EvidenceIsKept
                        /\ SlotsAreSound /\ NothingLeftPending)
                  /\ SettledIsFinal
  BY NativeComponents, Exclusion, HandoverSafe, UpdatesAreSeen, TurnsRunOnce, OutcomesAreFinal,
     CooperativeBooksBalance, WorkHasOneHolder, HotEvidenceIsKept, StdioSlotsAreSound,
     StdioNothingLeftPending, PTL
=============================================================================
