------------------------ MODULE DesktopConversation ------------------------
(***************************************************************************)
(* One conversation of the desktop service                                 *)
(* (aegis_cognition/desktop_service.py): the service thread, which handles *)
(* the renderer's commands one at a time, and the thread of a foreground   *)
(* run, over the durable conversation (core/rust/src/conversations.rs).    *)
(* A message appends a user and an assistant turn, starts an execution,    *)
(* and alternates provider rounds with tool calls; a call that changes     *)
(* data pauses the turn until the user approves or declines it.  The       *)
(* process may end at any point; opening the store recovers it.            *)
(*                                                                         *)
(* Every write carries the revision its writer saw last and is refused if  *)
(* the conversation has another: `fresh' is the set of threads whose       *)
(* revision is the current one.  The mock mode takes the same steps with   *)
(* no tool calls.  Storage errors other than conflicts are left out, and   *)
(* so is the history of finished runs, which only forgets them.            *)
(***************************************************************************)
EXTENDS Naturals, Sequences, FiniteSets

CONSTANTS Messages,   \* the messages sent in the conversation, numbers
          MaxRounds,  \* MAX_DESKTOP_PROVIDER_TOOL_ROUNDS
          MaxCalls    \* MAX_DESKTOP_PROVIDER_TOOL_CALLS

DesktopAssumption ==
    /\ Messages \subseteq Nat \ {0} /\ IsFiniteSet(Messages)
    /\ MaxRounds \in Nat /\ MaxCalls \in Nat

VARIABLES turn,       \* message -> status of its assistant turn, durable
          exec,       \* message -> status of its execution, durable
          calls,      \* message -> its recorded tool calls, durable
          fresh,      \* threads that hold the current revision
          pc, job,    \* thread -> where it is, and the message it works on
          outcome,    \* thread -> how the message ends for its caller
          round,      \* message -> its provider round
          base,       \* message -> calls of its earlier rounds (total_calls)
          asked,      \* message -> kinds of calls asked for, not yet recorded
          stale,      \* messages whose tool catalog has changed since
          pending,    \* message -> call in _pending_tool_approvals, or 0
          resolving,  \* message whose approval the service resolves, or 0
          runStatus,  \* message -> status of its _DesktopRunState
          cancelled   \* messages whose cancel_event is set

store == <<turn, exec, calls>>
threads == <<pc, job, outcome>>
loop == <<round, base, asked>>
memory == <<stale, pending, resolving, runStatus, cancelled>>
vars == <<store, fresh, threads, loop, memory>>

Threads == {"run", "service"}
Active == {"QUEUED", "RUNNING", "WAITING_APPROVAL"}
Terminal == {"COMPLETED", "FAILED", "CANCELLED", "INTERRUPTED"}
Unsettled == {"REQUESTED", "AMBIGUOUS"}
Kinds == {"read", "write", "changed"}  \* changed: not as it was offered

Call(k) == [kind |-> k, status |-> "REQUESTED", said |-> "nothing", ran |-> 0]

Init ==
    /\ turn = [m \in Messages |-> "absent"] /\ exec = turn
    /\ calls = [m \in Messages |-> <<>>]
    /\ fresh = {}
    /\ pc = [a \in Threads |-> "idle"] /\ job = [a \in Threads |-> 0]
    /\ outcome = [a \in Threads |-> "none"]
    /\ round = [m \in Messages |-> 0] /\ base = round
    /\ asked = [m \in Messages |-> <<>>]
    /\ stale = {} /\ pending = round /\ resolving = 0
    /\ runStatus = [m \in Messages |-> "none"] /\ cancelled = {}

\* The check that every sender makes on the snapshot it has read.
Idle ==
    \A m \in Messages :
        /\ turn[m] \notin Active
        /\ \A i \in DOMAIN calls[m] : calls[m][i].status \notin Unsettled

Goto(a, place) == pc' = [pc EXCEPT ![a] = place]
Ends(a, result) == Goto(a, "return") /\ outcome' = [outcome EXCEPT ![a] = result]
MutCommits(a) == fresh' = fresh \cup {a}

Commits(a) == a \in fresh /\ fresh' = {a}
Unused(m) == turn[m] = "absent" /\ runStatus[m] = "none" /\ \A a \in Threads : job[a] # m

-----------------------------------------------------------------------------
(* Commands that begin a message.                                          *)

\* runs.start: the snapshot is checked before the lock that guards the runs.
StartRun(m) ==
    /\ pc["service"] = "idle" /\ pc["run"] = "idle" /\ Unused(m) /\ Idle
    /\ \A n \in Messages :
          runStatus[n] \notin {"RUNNING", "CANCELLING", "WAITING_PERMISSION"}
    /\ runStatus' = [runStatus EXCEPT ![m] = "RUNNING"]
    /\ Goto("run", "read") /\ job' = [job EXCEPT !["run"] = m]
    /\ UNCHANGED <<store, fresh, outcome, loop, stale, pending, resolving, cancelled>>

\* conversations.send: the service thread itself works on the message.
Send(m) ==
    /\ pc["service"] = "idle" /\ Unused(m)
    /\ Goto("service", "read") /\ job' = [job EXCEPT !["service"] = m]
    /\ UNCHANGED <<store, fresh, outcome, loop, memory>>

-----------------------------------------------------------------------------
(* _send_live_message                                                      *)

Stopped(a) == a = "run" /\ job[a] \in cancelled

\* The snapshot is read and checked; preparing the prompt may fail too.
Read(a) ==
    /\ pc[a] = "read"
    /\ \/ Stopped(a) /\ Ends(a, "CANCELLED") /\ UNCHANGED fresh
       \/ ~ Stopped(a) /\ Ends(a, "FAILED") /\ UNCHANGED fresh
       \/ ~ Stopped(a) /\ Idle /\ fresh' = fresh \cup {a} /\ Goto(a, "user") /\ UNCHANGED outcome
    /\ UNCHANGED <<store, job, loop, memory>>

AppendUser(a) ==
    /\ pc[a] = "user" /\ Commits(a) /\ Goto(a, "assistant")
    /\ UNCHANGED <<store, job, outcome, loop, memory>>

AppendAssistant(a) ==
    /\ pc[a] = "assistant" /\ Commits(a) /\ Goto(a, "start")
    /\ turn' = [turn EXCEPT ![job[a]] = "QUEUED"]
    /\ UNCHANGED <<exec, calls, job, outcome, loop, memory>>

\* Another writer has moved the revision: the message fails.
Conflict(a) ==
    /\ pc[a] \in {"user", "assistant"} /\ a \notin fresh /\ Ends(a, "FAILED")
    /\ UNCHANGED <<store, fresh, job, loop, memory>>

\* start_execution and the checkpoint PROMPT_PREPARED.
StartExecution(a) ==
    /\ pc[a] = "start" /\ Commits(a) /\ Goto(a, "round")
    /\ turn' = [turn EXCEPT ![job[a]] = "RUNNING"]
    /\ exec' = [exec EXCEPT ![job[a]] = "RUNNING"]
    /\ UNCHANGED <<calls, job, outcome, loop, memory>>

\* finish_execution closes the execution and its turn.
Finishes(a, status) ==
    /\ Commits(a)
    /\ exec' = [exec EXCEPT ![job[a]] = status]
    /\ turn' = [turn EXCEPT ![job[a]] = status]

\* The answer is appended and the execution completed.
Answer(a) ==
    /\ pc[a] = "answer" /\ Finishes(a, "COMPLETED") /\ Ends(a, "COMPLETED")
    /\ UNCHANGED <<calls, job, loop, memory>>

\* The handlers of _DesktopRunCancelled and of every other exception.
Abandon(a) ==
    /\ pc[a] \in {"cancelled", "failed"}
    /\ LET s == IF pc[a] = "failed" THEN "FAILED" ELSE "CANCELLED"
       IN Finishes(a, s) /\ Ends(a, s)
    /\ UNCHANGED <<calls, job, loop, memory>>

-----------------------------------------------------------------------------
(* _run_provider_tool_loop                                                 *)

\* The head of a round; a changed catalog ends the message with a notice.
RoundBegins(a) ==
    /\ pc[a] = "round"
    /\ Goto(a, IF Stopped(a) THEN "cancelled"
               ELSE IF job[a] \in stale THEN "answer" ELSE "provider")
    /\ UNCHANGED <<store, fresh, job, outcome, loop, memory>>

\* The provider fails, answers in text, or asks for calls.
ProviderReplies(a) ==
    LET m == job[a] IN
    /\ pc[a] = "provider"
    /\ \/ Goto(a, "failed") /\ UNCHANGED asked
       \/ Goto(a, IF Stopped(a) THEN "cancelled" ELSE "answer") /\ UNCHANGED asked
       \/ /\ ~ Stopped(a) /\ m \notin stale /\ round[m] < MaxRounds
          /\ \E ks \in Kinds \X Kinds, n \in 1..2 :
                /\ base[m] + n <= MaxCalls
                /\ asked' = [asked EXCEPT ![m] = SubSeq(ks, 1, n)]
          /\ Goto(a, "record")
    /\ UNCHANGED <<store, fresh, job, outcome, round, base, memory>>

\* record_tool_call, call after call; arguments that are invalid or too large
\* raise, whatever has been recorded before them.
RecordCall(a) ==
    LET m == job[a] IN
    /\ pc[a] = "record"
    /\ \/ /\ Commits(a)
          /\ calls' = [calls EXCEPT ![m] = Append(@, Call(Head(asked[m])))]
          /\ asked' = [asked EXCEPT ![m] = Tail(@)]
          /\ Goto(a, IF Len(asked[m]) = 1 THEN "batch" ELSE "record")
       \/ Goto(a, "failed") /\ UNCHANGED <<calls, fresh, asked>>
    /\ UNCHANGED <<turn, exec, job, outcome, round, base, memory>>

ThisRound(m) == {i \in DOMAIN calls[m] : i > base[m]}

\* The first call of the round that may not run by itself, if any: the calls
\* after it are rejected, and it is the approval call if it changes data.
Blockers(m) ==
    {i \in ThisRound(m) : /\ calls[m][i].kind # "read"
                          /\ \A j \in ThisRound(m) : j < i => calls[m][j].kind = "read"}

ApprovalCalls(m) == {i \in Blockers(m) : calls[m][i].kind = "write"}

\* The calls that only read are executed, or the batch raises.
RunBatch(a) ==
    /\ pc[a] = "batch"
    /\ \/ Goto(a, "settle")
       \/ Goto(a, "failed") /\ \E i \in ThisRound(job[a]) : \A b \in Blockers(job[a]) : i < b
    /\ UNCHANGED <<store, fresh, job, outcome, loop, memory>>

Settled(c, status, said) == [c EXCEPT !.status = status, !.said = said]

\* A tool turn and a result for every call but the one to approve, and the
\* checkpoint of the round.
SettleRound(a) ==
    LET m == job[a] IN
    /\ pc[a] = "settle" /\ Commits(a)
    /\ \E status \in {"COMPLETED", "FAILED"} :
          calls' = [calls EXCEPT ![m] = [i \in DOMAIN @ |->
              IF i \notin ThisRound(m) \ ApprovalCalls(m) THEN @[i]
              ELSE IF \E b \in Blockers(m) : b <= i THEN Settled(@[i], "FAILED", "not run")
              ELSE Settled(@[i], status, "result")]]
    /\ IF ApprovalCalls(m) # {} THEN Goto(a, "pause") /\ UNCHANGED <<round, base>>
       ELSE /\ Goto(a, "round") /\ round' = [round EXCEPT ![m] = @ + 1]
            /\ base' = [base EXCEPT ![m] = Len(calls[m])]
    /\ UNCHANGED <<turn, exec, job, outcome, asked, memory>>

\* _retain_pending_tool_approval; when the queue is full, which depends on the
\* other conversations, the call is rejected and the message answered.
Pause(a) ==
    LET m == job[a] IN
    /\ pc[a] = "pause" /\ Commits(a)
    /\ \E i \in ApprovalCalls(m) :
          \/ /\ turn' = [turn EXCEPT ![m] = "WAITING_APPROVAL"]
             /\ pending' = [pending EXCEPT ![m] = i]
             /\ Ends(a, "WAITING_PERMISSION") /\ UNCHANGED calls
          \/ /\ calls' = [calls EXCEPT ![m][i] = Settled(@, "FAILED", "not run")]
             /\ Goto(a, "answer") /\ UNCHANGED <<turn, pending, outcome>>
    /\ UNCHANGED <<exec, job, loop, stale, resolving, runStatus, cancelled>>

-----------------------------------------------------------------------------
(* _resolve_tool_approval                                                  *)

\* The renderer decides on the revision it has seen, which must be current.
\* The turn runs again before anything else happens.
Decide(m) ==
    /\ pc["service"] = "idle" /\ pending[m] # 0
    /\ calls[m][pending[m]].status = "REQUESTED" /\ turn[m] = "WAITING_APPROVAL"
    /\ turn' = [turn EXCEPT ![m] = "RUNNING"] /\ fresh' = {"service"}
    /\ resolving' = m /\ job' = [job EXCEPT !["service"] = m]
    /\ \E next \in {"approved", "denied"} : Goto("service", next)
    /\ UNCHANGED <<exec, calls, outcome, loop, stale, pending, runStatus, cancelled>>

\* The approved action: it runs, or fails before or after its effect.  If the
\* catalog has changed it is rejected.
Execute(m) ==
    /\ pc["service"] = "approved" /\ resolving = m
    /\ \/ m \in stale /\ Goto("service", "denied") /\ UNCHANGED calls
       \/ /\ m \notin stale
          /\ \E said \in {"result", "unknown"}, effect \in {0, 1} :
                /\ said = "result" => effect = 1
                /\ calls' = [calls EXCEPT ![m][pending[m]].ran = @ + effect]
                /\ Goto("service", said)
    /\ UNCHANGED <<turn, exec, fresh, job, outcome, loop, memory>>

\* The result is recorded, the continuation dropped, and the loop goes on.
Persist(m) ==
    /\ pc["service"] \in {"result", "unknown", "denied"} /\ resolving = m
    /\ Commits("service")
    /\ calls' = [calls EXCEPT ![m][pending[m]] =
           Settled(@, IF pc["service"] = "result" THEN "COMPLETED" ELSE "FAILED",
                   IF pc["service"] = "denied" THEN "not run" ELSE pc["service"])]
    /\ pending' = [pending EXCEPT ![m] = 0]
    /\ round' = [round EXCEPT ![m] = @ + 1]
    /\ base' = [base EXCEPT ![m] = Len(calls[m])]
    /\ Goto("service", "round")
    /\ UNCHANGED <<turn, exec, job, outcome, asked, stale, resolving, runStatus, cancelled>>

-----------------------------------------------------------------------------
(* The ends of a message, and the other commands.                          *)

\* The locals of the loop die with it, unless a continuation has them.
Forgets(a, m) ==
    LET kept == pending[m] # 0 \/ \E b \in Threads \ {a} : job[b] = m IN
    /\ round' = [round EXCEPT ![m] = IF kept THEN @ ELSE 0]
    /\ base' = [base EXCEPT ![m] = IF kept THEN @ ELSE 0]
    /\ asked' = [asked EXCEPT ![m] = IF kept THEN @ ELSE <<>>]
    /\ stale' = IF kept THEN stale ELSE stale \ {m}
    /\ cancelled' = IF kept THEN cancelled ELSE cancelled \ {m}

\* _execute_desktop_run; _settle_desktop_run_after_approval, which an exception
\* skips; or just the reply of the command.
Return(a) ==
    LET m == job[a] IN
    /\ pc[a] = "return" /\ Goto(a, "idle") /\ job' = [job EXCEPT ![a] = 0]
    /\ outcome' = [outcome EXCEPT ![a] = "none"]
    /\ fresh' = fresh \ {a}
    /\ resolving' = IF a = "service" THEN 0 ELSE resolving
    /\ runStatus' = [runStatus EXCEPT ![m] =
           IF a = "run" THEN outcome[a]
           ELSE IF resolving = m /\ outcome[a] # "FAILED" /\ @ = "WAITING_PERMISSION"
                   /\ exec[m] \in Terminal
           THEN exec[m] ELSE @]
    /\ Forgets(a, m)
    /\ UNCHANGED <<store, pending>>

CancelRun(m) ==
    /\ pc["service"] = "idle" /\ runStatus[m] = "RUNNING"
    /\ runStatus' = [runStatus EXCEPT ![m] = "CANCELLING"]
    /\ cancelled' = cancelled \cup {m}
    /\ UNCHANGED <<store, fresh, threads, loop, stale, pending, resolving>>

\* tool_calls.reconcile: the user asserts that the effect was not applied.
Reconcile(m, i) ==
    /\ pc["service"] = "idle" /\ calls[m][i].status = "AMBIGUOUS"
    /\ \A n \in Messages :
          /\ turn[n] \notin Active
          /\ runStatus[n] \notin {"RUNNING", "CANCELLING", "WAITING_PERMISSION"}
    /\ calls' = [calls EXCEPT ![m][i] = Settled(@, "CANCELLED", "asserted")]
    /\ fresh' = {}
    /\ UNCHANGED <<turn, exec, threads, loop, memory>>

\* conversations.switch_model moves the revision of a conversation that has no
\* tool calls and nothing under way.
SwitchModel ==
    /\ pc["service"] = "idle" /\ Idle /\ fresh # {}
    /\ \A m \in Messages : calls[m] = <<>>
    /\ fresh' = {}
    /\ UNCHANGED <<store, threads, loop, memory>>

\* A tool is registered or removed.
CatalogChanges ==
    /\ stale' = {m \in Messages : exec[m] = "RUNNING"} /\ stale' # stale
    /\ UNCHANGED <<store, fresh, threads, loop, pending, resolving, runStatus, cancelled>>

\* workspace.open with the path that is open: close() and a new binding.
Rebind ==
    /\ pc["service"] = "idle"
    /\ \E m \in Messages : pending[m] # 0 \/ runStatus[m] = "RUNNING"
    /\ pending' = [m \in Messages |-> 0]
    /\ cancelled' = cancelled \cup {m \in Messages : runStatus[m] = "RUNNING"}
    /\ runStatus' = [m \in Messages |->
           IF runStatus[m] = "RUNNING" THEN "CANCELLING" ELSE runStatus[m]]
    /\ UNCHANGED <<store, fresh, threads, loop, stale, resolving>>

MutRecovered(c, m) ==
    IF c.status # "REQUESTED" THEN c
    ELSE IF turn[m] \in Active THEN Settled(c, "CANCELLED", "not run")
    ELSE Settled(c, "AMBIGUOUS", "unknown")

\* recover_incomplete_runs, per call: one that waited for approval has not run.
Recovered(c, m) ==
    IF c.status # "REQUESTED" THEN c
    ELSE IF turn[m] = "WAITING_APPROVAL" THEN Settled(c, "CANCELLED", "not run")
    ELSE Settled(c, "AMBIGUOUS", "unknown")

\* The process ends and is started again; the store is opened and recovered.
Restart ==
    /\ \E m \in Messages : runStatus[m] # "none" \/ turn[m] \in Active
    /\ calls' = [m \in Messages |-> [i \in DOMAIN calls[m] |-> Recovered(calls[m][i], m)]]
    /\ turn' = [m \in Messages |-> IF turn[m] \in Active THEN "INTERRUPTED" ELSE turn[m]]
    /\ exec' = [m \in Messages |-> IF exec[m] = "RUNNING" THEN "INTERRUPTED" ELSE exec[m]]
    /\ fresh' = {} /\ stale' = {} /\ cancelled' = {} /\ resolving' = 0
    /\ pc' = [a \in Threads |-> "idle"] /\ job' = [a \in Threads |-> 0]
    /\ outcome' = [a \in Threads |-> "none"]
    /\ round' = [m \in Messages |-> 0] /\ base' = round' /\ pending' = round'
    /\ asked' = [m \in Messages |-> <<>>]
    /\ runStatus' = [m \in Messages |-> "none"]

-----------------------------------------------------------------------------

Works(a) ==
    \/ Read(a) \/ AppendUser(a) \/ AppendAssistant(a) \/ Conflict(a)
    \/ StartExecution(a) \/ RoundBegins(a) \/ ProviderReplies(a) \/ RecordCall(a)
    \/ RunBatch(a) \/ SettleRound(a) \/ Pause(a) \/ Answer(a) \/ Abandon(a)
    \/ Return(a)

Resolves == \E m \in Messages : Execute(m) \/ Persist(m)

Next ==
    \/ \E a \in Threads : Works(a)
    \/ Resolves
    \/ \E m \in Messages :
          \/ StartRun(m) \/ Send(m) \/ Decide(m) \/ CancelRun(m)
          \/ \E i \in DOMAIN calls[m] : Reconcile(m, i)
    \/ SwitchModel \/ CatalogChanges \/ Rebind \/ Restart

Spec == Init /\ [][Next]_vars

\* The two threads go on; provider and tools answer or fail within their
\* timeouts.  Commands and restarts are not forced.
FairSpec == Spec /\ WF_vars(Resolves) /\ \A a \in Threads : WF_vars(Works(a))

-----------------------------------------------------------------------------
(* Properties.                                                             *)

\* Both threads may have found the conversation idle; still it never has two
\* turns under way.
OneActiveTurn == Cardinality({m \in Messages : turn[m] \in Active}) <= 1

\* Once a thread's turn is durable no other write can make its own writes fail,
\* so the turn can always be finished.
NoLateConflict ==
    \A a \in Threads :
        pc[a] \notin {"idle", "read", "user", "assistant", "return"} => a \in fresh

\* An action that changes data runs at most once, across approvals, restarts
\* and failures, and never if the conversation says that it was not run.
EffectsAreTrue ==
    \A m \in Messages : \A i \in DOMAIN calls[m] :
        LET c == calls[m][i] IN
        /\ c.ran <= 1 /\ (c.ran = 1 => c.kind = "write")
        /\ (c.said = "not run" => c.ran = 0)

\* A turn that is queued or running ends or waits for the user.  It speaks of the
\* turn: the run that an approval resumed may stay WAITING_PERMISSION when its
\* provider fails (_resolve_tool_approval).
TurnSettles == \A m \in Messages : []<>(turn[m] \notin {"QUEUED", "RUNNING"})
=============================================================================
