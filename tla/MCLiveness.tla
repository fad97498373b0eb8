----------------------------- MODULE MCLiveness -----------------------------
(***************************************************************************)
(* Small instances of the components of which something must eventually    *)
(* happen.  As in Agents one component moves in each behaviour; the        *)
(* fairness is that of its own module, for the component that moves.       *)
(***************************************************************************)
EXTENDS Naturals

VARIABLES
  which,
  locked, waiters, state, future, cancelling, pc, callbacks, dispatching, open,
  rows, nextDelivery, worker, succeeded,
  active, finished, exchangeCounts, inExchange, inboxes, asking, pendingByRecipient,
  outgoingBySender, response, nextId, handler, held, thrown,
  deps, needs, execution, result, locks, dynamic, cancelEvent, aborting, supervisor,
  turn, exec, calls, fresh, thread, job, outcome, round, base, asked, stale, approval,
  resolving, runStatus, cancelled,
  advertised, listens, record, revision, snapshots, request, provider, known, runtimeReg,
  hostReg, watcher, notified, lost, overdue, strayed, call, changes, failures,
  missionRun, missionDisk, at, cancel, quota

lockVars == <<locked, waiters, state, future, cancelling, pc, callbacks, dispatching, open>>
mailboxVars == <<rows, nextDelivery, worker, succeeded>>
channelVars ==
  <<active, finished, exchangeCounts, inExchange, inboxes, asking, pendingByRecipient,
    outgoingBySender, response, nextId, handler, held, thrown>>
supervisorVars ==
  <<deps, needs, execution, result, locks, dynamic, cancelEvent, aborting, supervisor>>
conversationVars ==
  <<turn, exec, calls, fresh, thread, job, outcome, round, base, asked, stale, approval,
    resolving, runStatus, cancelled>>
serverVars ==
  <<advertised, listens, record, revision, snapshots, request, provider, known, runtimeReg,
    hostReg, watcher, notified, lost, overdue, strayed, call, changes, failures>>
missionVars == <<missionRun, missionDisk, at, cancel, quota>>
vars ==
  <<which, lockVars, mailboxVars, channelVars, supervisorVars, conversationVars, serverVars,
    missionVars>>

\* Two acquisitions on each loop; a loop is closed when it has no work left.
Lock == INSTANCE CrossLoopAsyncLock WITH
  Acquisitions <- 1..4, Loops <- {"la", "lb"}, LoopOf <- <<"la", "la", "lb", "lb">>,
  NoWaiter <- 0, CloseWhenReady <- FALSE

Mailbox == INSTANCE AgentMailbox WITH
  Keys <- {"k1", "k2"}, Hashes <- {"h1"}, Workers <- {"w1", "w2"}, Consumers <- {"c1"},
  MaxMessages <- 2, MaxAttempts <- 2, LeaseTime <- 1, RetryAfter <- 0, Retention <- 1,
  MaxLag <- 1, MaxDeliveries <- 2, nextId <- nextDelivery

Channel == INSTANCE PeerChannel WITH
  Tasks <- {"t1", "t2", "t3"}, MaxExchanges <- 3, MaxQuestions <- 3,
  pending <- asking, pc <- handler, cancelled <- thrown

Supervisor == INSTANCE AgentSupervisor WITH
  Tasks <- 1..2, Resources <- 1..2, MaxConcurrency <- 2, MaxDynamic <- 1, MayInterrupt <- FALSE,
  pc <- execution, run <- supervisor

Conversation == INSTANCE DesktopConversation WITH
  Messages <- 1..2, MaxRounds <- 1, MaxCalls <- 1, pc <- thread, pending <- approval

Server == INSTANCE DesktopMcp WITH
  Tools <- {"a"}, ReadOnly <- {"a"}, Attempts <- 2, MaxRevision <- 2, MaxChanges <- 2,
  MaxFailures <- 2, pending <- notified

Mission == INSTANCE LabApplication WITH
  Explicit <- FALSE, Budget <- 12,
  Configured <- {"research", "records", "checkpoint", "experiment", "memory", "archive"},
  External <- {}, Required <- TRUE, MaxAttempts <- 1, Iterations <- 1, Actions <- 1,
  Rejections <- 1, Pauses <- 1

ASSUME LivenessAssumption ==
  /\ Mailbox!MailboxAssumption /\ Channel!PeerAssumption /\ Supervisor!SupervisorAssumption
  /\ Conversation!DesktopAssumption /\ Server!McpAssumption /\ Mission!ApplicationAssumption

Init ==
  /\ which \in {"lock", "mailbox", "channel", "supervisor", "conversation", "server", "mission"}
  /\ Lock!Init /\ Mailbox!Init /\ Channel!Init /\ Conversation!Init /\ Mission!MissionInit
  /\ Supervisor!Init
  /\ which # "supervisor" =>
       execution = [t \in 1..2 |-> "created"] /\ deps = [t \in 1..2 |-> {}] /\ needs = deps
  /\ Server!Init
  /\ which # "server" => advertised = {} /\ listens

Next ==
  /\ UNCHANGED which
  /\ IF which = "lock" THEN Lock!Next ELSE UNCHANGED lockVars
  /\ IF which = "mailbox" THEN Mailbox!Next ELSE UNCHANGED mailboxVars
  /\ IF which = "channel" THEN Channel!Next ELSE UNCHANGED channelVars
  /\ IF which = "supervisor" THEN Supervisor!Next ELSE UNCHANGED supervisorVars
  /\ IF which = "conversation" THEN Conversation!Next ELSE UNCHANGED conversationVars
  /\ IF which = "server" THEN Server!Next ELSE UNCHANGED serverVars
  /\ IF which = "mission" THEN Mission!MissionNext ELSE UNCHANGED missionVars

\* The fairness of each module, for the component that moves.
Fairness ==
  /\ \A w \in 1..4 :
       /\ WF_lockVars(which = "lock" /\ Lock!Resume(w))
       /\ WF_lockVars(which = "lock" /\ Lock!Raise(w))
       /\ WF_lockVars(which = "lock" /\ Lock!Release(w))
       /\ WF_lockVars(which = "lock" /\ Lock!RunDeliver(w))
  /\ \A l \in {"la", "lb"} :
       /\ WF_lockVars(which = "lock" /\ Lock!DispatchAccepted(l))
       /\ WF_lockVars(which = "lock" /\ Lock!DispatchAbandoned(l))
  /\ WF_mailboxVars(which = "mailbox" /\ Mailbox!Tick)
  /\ \A w \in {"w1", "w2"} : WF_mailboxVars(which = "mailbox" /\ Mailbox!Works(w))
  /\ \A t \in {"t1", "t2", "t3"} : WF_channelVars(which = "channel" /\ Channel!RunsHandler(t))
  /\ WF_supervisorVars(which = "supervisor" /\ Supervisor!WatchCancels)
  /\ WF_supervisorVars(which = "supervisor" /\ Supervisor!GroupEnds)
  /\ WF_supervisorVars(which = "supervisor" /\ Supervisor!Synthesised)
  /\ \A t \in 1..2 : WF_supervisorVars(which = "supervisor" /\ Supervisor!Executes(t))
  /\ WF_conversationVars(which = "conversation" /\ Conversation!Resolves)
  /\ \A a \in {"run", "service"} :
       WF_conversationVars(which = "conversation" /\ Conversation!Works(a))
  /\ WF_serverVars(which = "server" /\ Server!Serve)
  /\ WF_serverVars(which = "server" /\ Server!Watch)
  /\ \/ []<>~(which = "mission" /\ Mission!Running)
     \/ []<><<which = "mission" /\ Mission!Application>>_missionVars

Spec == Init /\ [][Next]_vars /\ Fairness

-----------------------------------------------------------------------------
(* A coroutine that waits for a CrossLoopAsyncLock gets it, is cancelled   *)
(* or its loop is closed.                                                  *)
WaiterIsServed == Lock!WaiterIsServed

(* What subagents wait for comes: every message accepted by AgentMailbox   *)
(* is acknowledged or declared dead though workers crash and lag; a task   *)
(* that asks a peer gets an answer or an error without the help of its     *)
(* deadline, unless a later question to the same peer has replaced the     *)
(* record of its own (AgentPeerChannel.ask, _close_locked); and            *)
(* AgentSupervisor.run ends, its slots, locks and dependencies never       *)
(* blocking each other for ever.                                           *)
SubagentsFinish ==
  /\ Mailbox!EveryMessageSettles
  /\ Channel!AskerIsReleased
  /\ []<>(which = "supervisor" => supervisor # "children")

(* The desktop service settles: a turn of a conversation that is queued or *)
(* running ends or waits for the user (the turn: the run that an approval  *)
(* resumed may stay WAITING_PERMISSION when its provider fails); and once  *)
(* an MCP server keeps its catalogue the runtime has it, so no change is   *)
(* missed between activation and subscription or while the stream is down, *)
(* unless every refresh tried for the last change failed and the watcher   *)
(* gave up (_watch_mcp_notifications).                                     *)
DesktopSettles == Conversation!TurnSettles /\ Server!CatalogConverges

(* A cancelled LabSession ends with its run aborted and nothing open that  *)
(* no blocker tells of, also when it had been paused, unless the           *)
(* cancellation arrives in a controller step whose settlement is rejected: *)
(* that error replaces it and the controller loop catches the error.       *)
CancelEnds == Mission!CancelEnds
=============================================================================
