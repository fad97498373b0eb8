----------------------- MODULE ConversationRepository -----------------------
(***************************************************************************)
(* The durable store of one conversation (core/rust/src/conversations.rs,   *)
(* ConversationRepository): its turns, their executions, checkpoints and    *)
(* tool calls.  Every operation is one SQLite transaction that compares the *)
(* revision its caller expects; opening the store, which the next process   *)
(* does after a crash and another process may do at any time, recovers the  *)
(* runs that were under way.  Texts, ordinals and times are left out; of a  *)
(* time of completion the model keeps whether it is set, and the revision   *)
(* stamped on a row is what its writer expects next (expected).             *)
(***************************************************************************)
EXTENDS Naturals, Sequences

CONSTANTS Turns, Executions, Calls,  \* the identifiers callers use
          Clients,                   \* callers: threads and processes
          Roles,                     \* roles of the turns they append
          Models,                    \* selections of a connection and a model
          MaxRevision,               \* bound: the revisions of a behaviour
          MaxParts                   \* bound: the parts of one turn

ASSUME RepositoryAssumption ==
    /\ Roles \subseteq {"system", "user", "assistant", "tool"} /\ Models # {}
    /\ MaxRevision \in Nat \ {0} /\ MaxParts \in Nat \ {0}

VARIABLES
    status, revision, model,  \* the row of the conversation
    turns,                    \* turn identifier -> row
    parts,                    \* turn identifier -> the kinds of its parts
    executions,               \* execution identifier -> row
    checkpoints,              \* pairs of an execution and a sequence number
    calls,                    \* call identifier -> row
    expected,                 \* the revision each client last read or wrote
    fresh                     \* history: nobody else has changed the content since

content == <<status, model, turns, parts, executions, checkpoints, calls>>
repositoryVars == <<content, revision, expected, fresh>>

Pending == {"QUEUED", "RUNNING", "WAITING_APPROVAL"}
Settled == {"COMPLETED", "FAILED", "CANCELLED", "INTERRUPTED"}
ConversationStatus == {"ACTIVE", "INTERRUPTED", "COMPLETED", "FAILED"}
Kinds == {"TEXT", "OTHER"}

NoTurn == "no turn"
NoExecution == "no execution"

\* INSERT, and UPDATE of one row.
Put(table, key, row) ==
    [k \in DOMAIN table \cup {key} |-> IF k = key THEN row ELSE table[k]]

Finishes(s) == s \in {"COMPLETED", "INTERRUPTED", "FAILED"}

TurnTransitionAllowed(current, next) ==
    \/ current = "QUEUED"
       /\ next \in {"RUNNING", "WAITING_APPROVAL", "CANCELLED", "INTERRUPTED"}
    \/ current = "RUNNING" /\ next \in Settled \cup {"WAITING_APPROVAL"}
    \/ current = "WAITING_APPROVAL"
       /\ next \in {"RUNNING", "CANCELLED", "INTERRUPTED"}

-----------------------------------------------------------------------------
RepositoryInit ==
    /\ status = "NONE" /\ revision = 0 /\ model \in Models
    /\ turns = << >> /\ parts = << >> /\ executions = << >> /\ calls = << >>
    /\ checkpoints = {}
    /\ expected = [c \in Clients |-> 0]
    /\ fresh = [c \in Clients |-> TRUE]

\* The revision the transaction of client c compared is the current one, and
\* the row it returns has the next; the other clients' copies are now old if
\* anything changed.
Committed(c) ==
    /\ revision < MaxRevision
    /\ revision' = revision + 1
    /\ expected' = [expected EXCEPT ![c] = revision + 1]
    /\ fresh' = [d \in Clients |-> d = c \/ (fresh[d] /\ content' = content)]

\* The operations on a conversation that is not ACTIVE are refused.
Transaction(c) == status = "ACTIVE" /\ expected[c] = revision

CreateConversation(c) ==
    /\ status = "NONE"
    /\ status' = "ACTIVE" /\ model' \in Models
    /\ UNCHANGED <<turns, parts, executions, checkpoints, calls>>
    /\ Committed(c)

GetConversation(c) ==
    /\ status # "NONE"
    /\ expected' = [expected EXCEPT ![c] = revision]
    /\ fresh' = [fresh EXCEPT ![c] = TRUE]
    /\ UNCHANGED <<content, revision>>

AppendTurn(c, t, role, s) ==
    /\ Transaction(c)
    /\ t \notin DOMAIN turns
    /\ turns' = Put(turns, t,
                    [role |-> role, status |-> s, execution |-> NoExecution,
                     finished |-> Finishes(s)])
    /\ parts' = Put(parts, t, <<"TEXT">>)
    /\ UNCHANGED <<status, model, executions, checkpoints, calls>>
    /\ Committed(c)

AppendTurnPart(c, t, kind) ==
    /\ Transaction(c)
    /\ t \in DOMAIN turns /\ turns[t].status \in Pending
    /\ Len(parts[t]) < MaxParts
    /\ parts' = [parts EXCEPT ![t] = Append(@, kind)]
    /\ UNCHANGED <<status, model, turns, executions, checkpoints, calls>>
    /\ Committed(c)

TransitionTurn(c, t, s) ==
    /\ Transaction(c)
    /\ t \in DOMAIN turns /\ TurnTransitionAllowed(turns[t].status, s)
    /\ turns' = [turns EXCEPT ![t].status = s, ![t].finished = Finishes(s)]
    /\ UNCHANGED <<status, model, parts, executions, checkpoints, calls>>
    /\ Committed(c)

StartExecution(c, e, t) ==
    /\ Transaction(c)
    /\ t \in DOMAIN turns /\ turns[t].status \in {"QUEUED", "RUNNING"}
    /\ e \notin DOMAIN executions
    /\ \A x \in DOMAIN executions :
          executions[x].turn = t => executions[x].status # "RUNNING"
    /\ turns' = [turns EXCEPT ![t].status = "RUNNING", ![t].execution = e]
    /\ executions' = Put(executions, e, [turn |-> t, status |-> "RUNNING", checkpoint |-> 0])
    /\ UNCHANGED <<status, model, parts, checkpoints, calls>>
    /\ Committed(c)

CheckpointExecution(c, e, sequence) ==
    /\ Transaction(c)
    /\ e \in DOMAIN executions /\ executions[e].status = "RUNNING"
    /\ sequence = executions[e].checkpoint + 1
    /\ executions' = [executions EXCEPT ![e].checkpoint = sequence]
    /\ checkpoints' = checkpoints \cup {<<e, sequence>>}
    /\ UNCHANGED <<status, model, turns, parts, calls>>
    /\ Committed(c)

\* Mutant: the execution is closed although its turn cannot be.
MutFinishExecution(c, e, s) ==
    /\ Transaction(c)
    /\ e \in DOMAIN executions /\ executions[e].status = "RUNNING"
    /\ executions' = [executions EXCEPT ![e].status = s]
    /\ turns' = [turns EXCEPT ![executions[e].turn] =
                    IF TurnTransitionAllowed(@.status, s)
                    THEN [@ EXCEPT !.status = s, !.finished = TRUE] ELSE @]
    /\ UNCHANGED <<status, model, parts, checkpoints, calls>>
    /\ Committed(c)

FinishExecution(c, e, s) ==
    /\ Transaction(c)
    /\ e \in DOMAIN executions /\ executions[e].status = "RUNNING"
    /\ TurnTransitionAllowed(turns[executions[e].turn].status, s)
    /\ executions' = [executions EXCEPT ![e].status = s]
    /\ turns' = [turns EXCEPT ![executions[e].turn].status = s,
                              ![executions[e].turn].finished = TRUE]
    /\ UNCHANGED <<status, model, parts, checkpoints, calls>>
    /\ Committed(c)

RecordToolCall(c, k, t) ==
    /\ Transaction(c)
    /\ t \in DOMAIN turns /\ turns[t].role = "assistant"
    /\ turns[t].status \in {"RUNNING", "COMPLETED"}
    /\ k \notin DOMAIN calls
    /\ calls' = Put(calls, k, [turn |-> t, result |-> NoTurn, status |-> "REQUESTED"])
    /\ UNCHANGED <<status, model, turns, parts, executions, checkpoints>>
    /\ Committed(c)

RecordToolResult(c, k, t, s) ==
    /\ Transaction(c)
    /\ k \in DOMAIN calls /\ calls[k].status = "REQUESTED"
    /\ t \in DOMAIN turns /\ turns[t].role = "tool"
    /\ calls' = [calls EXCEPT ![k].status = s, ![k].result = t]
    /\ UNCHANGED <<status, model, turns, parts, executions, checkpoints>>
    /\ Committed(c)

ReconcileToolCall(c, k, s) ==
    /\ Transaction(c)
    /\ k \in DOMAIN calls /\ calls[k].status = "AMBIGUOUS"
    /\ calls' = [calls EXCEPT ![k].status = s]
    /\ UNCHANGED <<status, model, turns, parts, executions, checkpoints>>
    /\ Committed(c)

\* A conversation with tool calls or with parts other than text keeps its model.
SwitchModel(c, m) ==
    /\ Transaction(c)
    /\ \A t \in DOMAIN turns : turns[t].status \notin Pending
    /\ DOMAIN calls = {}
    /\ \A t \in DOMAIN parts : \A i \in 1 .. Len(parts[t]) : parts[t][i] = "TEXT"
    /\ model' = m
    /\ UNCHANGED <<status, turns, parts, executions, checkpoints, calls>>
    /\ Committed(c)

SetStatus(c, s) ==
    /\ status # "NONE" /\ expected[c] = revision
    /\ status' = s
    /\ UNCHANGED <<model, turns, parts, executions, checkpoints, calls>>
    /\ Committed(c)

-----------------------------------------------------------------------------
(* recover_incomplete_runs.                                                *)

UnderWay ==
    \/ \E t \in DOMAIN turns : turns[t].status \in {"QUEUED", "RUNNING"}
    \/ \E e \in DOMAIN executions : executions[e].status = "RUNNING"
    \/ \E k \in DOMAIN calls : calls[k].status = "REQUESTED"

\* A call that waited for approval was not run; of another nobody knows.
RecoveredCall(call) ==
    IF call.status # "REQUESTED" THEN call
    ELSE [call EXCEPT !.status =
             IF turns[call.turn].status = "WAITING_APPROVAL" THEN "CANCELLED"
             ELSE "AMBIGUOUS"]

\* Mutant: whatever turn has no time of completion is taken for one under way.
MutRecoveredTurn(turn) ==
    IF ~turn.finished
    THEN [turn EXCEPT !.status = "INTERRUPTED", !.finished = TRUE] ELSE turn

RecoveredTurn(turn) ==
    IF turn.status \in Pending
    THEN [turn EXCEPT !.status = "INTERRUPTED", !.finished = TRUE] ELSE turn

RecoveredExecution(execution) ==
    IF execution.status = "RUNNING"
    THEN [execution EXCEPT !.status = "INTERRUPTED"] ELSE execution

RecoveredContent ==
    /\ calls' = [k \in DOMAIN calls |-> RecoveredCall(calls[k])]
    /\ turns' = [t \in DOMAIN turns |-> RecoveredTurn(turns[t])]
    /\ executions' = [e \in DOMAIN executions |-> RecoveredExecution(executions[e])]
    /\ UNCHANGED <<status, model, parts, checkpoints>>

\* Mutant: the recovery leaves the revision of the conversation alone.
MutOpen ==
    /\ status = "ACTIVE" /\ UnderWay
    /\ RecoveredContent
    /\ fresh' = [d \in Clients |-> fresh[d] /\ content' = content]
    /\ UNCHANGED <<revision, expected>>

\* A conversation that is not ACTIVE, and one with nothing under way, is left
\* as it is.
Open ==
    /\ status = "ACTIVE" /\ UnderWay
    /\ revision < MaxRevision
    /\ RecoveredContent
    /\ revision' = revision + 1
    /\ fresh' = [d \in Clients |-> fresh[d] /\ content' = content]
    /\ UNCHANGED expected

-----------------------------------------------------------------------------
RepositoryNext ==
    \/ \E c \in Clients :
          \/ CreateConversation(c) \/ GetConversation(c)
          \/ \E t \in Turns, role \in Roles, s \in Pending \cup Settled :
                AppendTurn(c, t, role, s)
          \/ \E t \in Turns, kind \in Kinds : AppendTurnPart(c, t, kind)
          \/ \E t \in Turns, s \in Pending \cup Settled : TransitionTurn(c, t, s)
          \/ \E e \in Executions, t \in Turns : StartExecution(c, e, t)
          \/ \E e \in Executions, n \in 1 .. MaxRevision : CheckpointExecution(c, e, n)
          \/ \E e \in Executions, s \in Settled : FinishExecution(c, e, s)
          \/ \E k \in Calls, t \in Turns : RecordToolCall(c, k, t)
          \/ \E k \in Calls, t \in Turns, s \in {"COMPLETED", "FAILED"} :
                RecordToolResult(c, k, t, s)
          \/ \E k \in Calls, s \in {"CANCELLED", "FAILED"} : ReconcileToolCall(c, k, s)
          \/ \E m \in Models : SwitchModel(c, m)
          \/ \E s \in ConversationStatus : SetStatus(c, s)
    \/ Open

RepositorySpec == RepositoryInit /\ [][RepositoryNext]_repositoryVars

-----------------------------------------------------------------------------
(* Properties.                                                             *)

\* Every variable has the type of the table or column it models.
RepositoryTypeOK ==
    /\ status \in ConversationStatus \cup {"NONE"}
    /\ revision \in Nat /\ model \in Models
    /\ DOMAIN turns \subseteq Turns /\ DOMAIN parts = DOMAIN turns
    /\ \A t \in DOMAIN turns :
          /\ turns[t] \in [role : Roles, status : Pending \cup Settled,
                           execution : Executions \cup {NoExecution}, finished : BOOLEAN]
          /\ parts[t] \in Seq(Kinds)
    /\ DOMAIN executions \subseteq Executions
    /\ \A e \in DOMAIN executions :
          executions[e] \in [turn : DOMAIN turns, status : {"RUNNING"} \cup Settled,
                             checkpoint : Nat]
    /\ checkpoints \subseteq (DOMAIN executions) \X Nat
    /\ DOMAIN calls \subseteq Calls
    /\ \A k \in DOMAIN calls :
          calls[k] \in [turn : DOMAIN turns, result : DOMAIN turns \cup {NoTurn},
                        status : {"REQUESTED", "AMBIGUOUS", "COMPLETED", "FAILED", "CANCELLED"}]
    /\ expected \in [Clients -> Nat] /\ fresh \in [Clients -> BOOLEAN]

\* A client whose transaction would pass the comparison of revisions has seen
\* all there is: no write of another client, and no recovery by a process that
\* opens the store, is overwritten by one that does not know of it.
NoLostUpdate ==
    \A c \in Clients : status # "NONE" /\ expected[c] = revision => fresh[c]

\* A turn has one execution in its life, though start_execution only looks for
\* a running one: once an execution has ended, its turn is settled for good.
OneExecutionPerTurn ==
    \A e \in DOMAIN executions :
        /\ turns[executions[e].turn].execution = e
        /\ executions[e].status # "RUNNING" => turns[executions[e].turn].status \in Settled

\* What has been settled is settled for good: no operation and no recovery
\* reopens or rewrites the outcome of a turn, an execution or a tool call, and
\* only an ambiguous call is decided by hand.
SettledIsFinal ==
    [][/\ \A t \in DOMAIN turns :
             turns[t].status \in Settled => turns'[t].status = turns[t].status
       /\ \A e \in DOMAIN executions :
             executions[e].status # "RUNNING" => executions'[e] = executions[e]
       /\ \A k \in DOMAIN calls :
             calls[k].status \in Settled => calls'[k] = calls[k]]_repositoryVars

=============================================================================
