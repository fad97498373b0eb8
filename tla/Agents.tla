------------------------------- MODULE Agents -------------------------------
(***************************************************************************)
(* The components of subagents.py and desktop_service.py side by side.     *)
(* They share no state, so one component moves in each behaviour while the *)
(* others rest in their initial states: a model checker visits the sum of  *)
(* their state spaces and not the product.                                 *)
(***************************************************************************)
EXTENDS Naturals

CONSTANTS
  Keys, Hashes, Workers, Consumers, MaxMessages, MaxAttempts, LeaseTime, RetryAfter,
  Retention, MaxLag, MaxDeliveries,                            \* AgentMailbox
  Peers, MaxExchanges, MaxQuestions,                           \* PeerChannel
  Tasks, Resources, MaxConcurrency, MaxDynamic, MayInterrupt,  \* AgentSupervisor
  Messages, MaxRounds, MaxCalls,                               \* DesktopConversation
  Runs, Conversations, Turns, MaxRuns, MaxWorkspace,           \* DesktopSubagents
  Tools, ReadOnly, Attempts, MaxRecords, MaxChanges, MaxFailures,  \* DesktopMcp
  Readers, MaxVersion, MaxCache, MaxRevision                   \* RemoteSkills

VARIABLES
  which,
  rows, nextDelivery, mailWorker, succeeded,
  active, finished, exchangeCounts, inExchange, inboxes, asking, pendingByRecipient,
  outgoingBySender, response, nextId, handler, held, thrown,
  deps, needs, execution, result, locks, dynamic, cancelEvent, aborting, supervisor,
  turn, turnExec, calls, fresh, thread, job, outcome, round, base, asked, stale, approval,
  resolving, runStatus, cancelled,
  status, table, runWorker, owner, runExec, cancel, claimed, workspace, home,
  advertised, listens, server, revision, snapshots, request, provider, known, runtimeReg,
  hostReg, watcher, notified, lost, overdue, strayed, call, changes, failures,
  manifest, skill, skillRevision, serverOn, cache, cacheLock, reader, user

mailboxVars ==
  <<rows, nextDelivery, mailWorker, succeeded>>
channelVars ==
  <<active, finished, exchangeCounts, inExchange, inboxes, asking, pendingByRecipient,
    outgoingBySender, response, nextId, handler, held, thrown>>
supervisorVars ==
  <<deps, needs, execution, result, locks, dynamic, cancelEvent, aborting, supervisor>>
conversationVars ==
  <<turn, turnExec, calls, fresh, thread, job, outcome, round, base, asked, stale, approval,
    resolving, runStatus, cancelled>>
tableVars ==
  <<status, table, runWorker, owner, runExec, cancel, claimed, workspace, home>>
serverVars ==
  <<advertised, listens, server, revision, snapshots, request, provider, known, runtimeReg,
    hostReg, watcher, notified, lost, overdue, strayed, call, changes, failures>>
skillsVars ==
  <<manifest, skill, skillRevision, serverOn, cache, cacheLock, reader, user>>

Mailbox == INSTANCE AgentMailbox WITH nextId <- nextDelivery, worker <- mailWorker

Channel == INSTANCE PeerChannel WITH
  Tasks <- Peers, pending <- asking, pc <- handler, cancelled <- thrown

Supervisor == INSTANCE AgentSupervisor WITH pc <- execution, run <- supervisor

Conversation == INSTANCE DesktopConversation WITH
  exec <- turnExec, pc <- thread, pending <- approval

Table == INSTANCE DesktopSubagents WITH worker <- runWorker, exec <- runExec

Server == INSTANCE DesktopMcp WITH
  MaxRevision <- MaxRecords, record <- server, pending <- notified

Skills == INSTANCE RemoteSkills WITH record <- skill, revision <- skillRevision

ASSUME AgentsAssumption ==
  /\ Mailbox!MailboxAssumption /\ Channel!PeerAssumption /\ Supervisor!SupervisorAssumption
  /\ Conversation!DesktopAssumption /\ Table!SubagentsAssumption
  /\ Server!McpAssumption /\ Skills!SkillsAssumption

vars ==
  <<which, mailboxVars, channelVars, supervisorVars, conversationVars, tableVars, serverVars,
    skillsVars>>

Init ==
  /\ which \in {"mailbox", "channel", "supervisor", "conversation", "table", "server", "skills"}
  /\ Mailbox!Init /\ Channel!Init /\ Conversation!Init /\ Table!Init /\ Skills!Init
  /\ Supervisor!Init
  /\ which # "supervisor" =>
       execution = [t \in Tasks |-> "created"] /\ deps = [t \in Tasks |-> {}] /\ needs = deps
  /\ Server!Init
  /\ which # "server" => advertised = {} /\ listens

Next ==
  /\ UNCHANGED which
  /\ IF which = "mailbox" THEN Mailbox!Next ELSE UNCHANGED mailboxVars
  /\ IF which = "channel" THEN Channel!Next ELSE UNCHANGED channelVars
  /\ IF which = "supervisor" THEN Supervisor!Next ELSE UNCHANGED supervisorVars
  /\ IF which = "conversation" THEN Conversation!Next ELSE UNCHANGED conversationVars
  /\ IF which = "table" THEN Table!Next ELSE UNCHANGED tableVars
  /\ IF which = "server" THEN Server!Next ELSE UNCHANGED serverVars
  /\ IF which = "skills" THEN Skills!Next ELSE UNCHANGED skillsVars

Spec == Init /\ [][Next]_vars

-----------------------------------------------------------------------------
(* Properties.                                                             *)

\* AgentMailbox ends a message as acknowledged only for a worker whose handler
\* completed the attempt the table records last, and as dead only after all its
\* attempts, whichever of nack and the recovery of expired leases ended them; and
\* a question in an inbox of AgentPeerChannel can still be answered: withdrawing
\* or failing a question also removes it from the inbox of its recipient.
DeliveryIsSound ==
  /\ Mailbox!AckedAttemptSucceeded /\ Mailbox!DeadAfterAllAttempts
  /\ Channel!InboxIsPending

\* A handler of AgentSupervisor runs only when all that its task depends on has
\* succeeded and with its resources to itself, a task that has ended in whichever
\* way keeps no lock, and the root synthesises over a result of every task, spawned
\* ones included.
SchedulingIsSound ==
  Supervisor!RunsAfterDependencies /\ Supervisor!ResourcesExclusive /\ Supervisor!SynthesisIsComplete

\* The run thread and the service thread may both have found a conversation idle;
\* still it never has two turns under way, and once a turn is durable no other
\* write of DesktopService can make the writes that finish it fail.
TurnsAreSerial == Conversation!OneActiveTurn /\ Conversation!NoLateConflict

\* An action that changes data runs at most once, across approvals, restarts
\* and failures, and never if the conversation says that it was not run.
EffectsAreTrue == Conversation!EffectsAreTrue

\* An execution of subagents under way has a worker that will settle it, in
\* whichever workspace, unless its run was evicted from the table while it was
\* being cancelled; and a run that nobody has cancelled never loses its place in
\* the bounded table of runs.
RunsAreTracked == Table!NoOrphanExecution /\ Table!RunningRunIsKnown

\* Between requests an agent is offered exactly the tools and the automatic
\* access of an MCP server that the runtime will honour; a server runs only for the
\* record that approves and enables it, whichever step of an activation fails; and
\* a tool that left the catalogue has to be granted again.  The first two but for
\* a deactivation that timed out, the first also but for tools that a refresh
\* during the stop, or a failed undo, left in the host's registry.
ServerIsConsistent ==
  Server!HostMatchesRuntime /\ Server!ActiveIsEnabled /\ Server!NoRevivedGrant

\* Once a remote skill was disabled by its own request, by a listing or by a
\* reader, or its server was, no page of it stays cached, though a reader may be
\* about to keep one at that moment.  Disabling a skill by its identifier is the
\* exception: that path of the code leaves the pages where they are.
NoStalePage == Skills!NoStalePage

\* What the user decided last is what counts: a call of an MCP tool starts
\* without asking only if the grant is still the accepted one, and a reader that
\* found a changed skill never withdraws the approval given to it since.
LastDecisionCounts == Server!AutoCallIsGranted /\ Skills!NewerApprovalKept
=============================================================================
