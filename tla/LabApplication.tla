--------------------------- MODULE LabApplication ---------------------------
(***************************************************************************)
(* LabApplication.run of lab.py: one laboratory mission from context       *)
(* retrieval to the final dossier, with the LabSession that may pause,     *)
(* resume or cancel it while it awaits an adapter.  Code between two       *)
(* awaits is not interrupted.  Every external effect goes through an       *)
(* admission and a settlement of the reducer; the stages differ in what    *)
(* they do when a settlement itself fails.                                 *)
(***************************************************************************)
EXTENDS LabReducer

CONSTANTS
  Configured,   \* the stages the options configure
  External,     \* the tool calls with an effect outside the safe classes
  Required,     \* lab_require_post_completion_effect
  MaxAttempts,  \* tool_max_attempts and gateway_max_attempts
  Iterations,   \* lab_iterations
  Actions,      \* bound: actions the controller asks for in one step
  Rejections,   \* bound: native rejections in the whole run
  Pauses        \* bound: pauses in the whole run

ApplicationAssumption ==
  /\ Configured \subseteq { "context", "skill", "tool", "research", "records", "browse", "observe",
                            "plan", "trial", "checkpoint", "experiment", "validator", "memory", "archive" }
  /\ External \subseteq ToolCalls /\ Required \in BOOLEAN
  /\ MaxAttempts \in 1..2 /\ Iterations \in 1..2 /\ Actions \in 1..2
  /\ Rejections \in Nat /\ Pauses \in Nat

VARIABLES
  missionRun,    \* the active LabRun
  missionDisk,   \* the archived snapshot, as a sequence of at most one run
  at,            \* where the application is
  cancel,        \* has the session's cancellation been requested, delivered
  quota          \* native rejections and pauses left

missionVars == <<missionRun, missionDisk, at, cancel, quota>>

Uncertain(r) == "unknown_outcome" \in r.blockers

\* The stage after each.  The controller loop is step, then its actions (a plan
\* is a tool call, a trial an experiment), progress and checkpoint.
Follow ==
  [ context |-> "skill", skill |-> "tool", tool |-> "research", research |-> "records",
    browse |-> "observe", observe |-> "step", plan |-> "progress", trial |-> "progress",
    experiment |-> "validator", synthesis |-> "memory", memory |-> "archive" ]
Loop == {"step", "act", "plan", "trial", "progress", "checkpoint"}

Id(s) ==
  CASE s = "tool" -> <<"tool", "retry">>[at.attempt]
    [] s = "step" -> << <<"step1", "restep1">>, <<"step2", "restep2">> >>[at.step][at.attempt]
    [] s = "plan" -> << << <<"plan11", "replan11">>, <<"plan12", "replan12">> >>,
                        << <<"plan21", "replan21">>, <<"plan22", "replan22">> >>
                     >>[at.step][at.action][at.attempt]
    [] s = "trial" -> "experiment"
    [] s = "checkpoint" -> <<"checkpoint1", "checkpoint2">>[at.step]
    [] s = "synthesis" -> <<"synthesis", "resynthesis">>[at.attempt]
    [] OTHER -> s

To(s) == [at EXCEPT !.stage = s, !.wait = FALSE, !.attempt = 1, !.action = 1]
Await == [at EXCEPT !.wait = TRUE]
Again == [at EXCEPT !.wait = FALSE, !.attempt = @ + 1]
R(r, a) == [r |-> r, at |-> a]

\* Where a stage ends: after an action of the controller comes its next one.
NextAct == [To("act") EXCEPT !.action = at.action + 1]
After(s) == IF s \in {"plan", "trial"} THEN NextAct ELSE To(Follow[s])

\* An except clause that records a blocker.
Catch(r, b) == RecordBlocker([r EXCEPT !.ok = TRUE], b)
OrCatch(r, b) == IF r.ok THEN r ELSE Catch(r, b)

\* Did going from r to t meet a native rejection (RuntimeError), which the
\* clauses for invalid records do not catch.
Native(r, t) == ~t.ok /\ r.fail > 0 /\ t.fail = 0

-----------------------------------------------------------------------------
\* The receipt of a skill names its admission as the head of the ledger.
SettleAs(r, s, status) ==
  IF s = "skill" /\ Last(r.events) # Event("admit", "skill", "") THEN Raise(r)
  ELSE Settle(r, Id(s), status)

MutGuardedSettle(r, s, status) ==
  [SettleAs(r, s, status) EXCEPT !.ok = TRUE]

GuardedSettle(r, s, status) ==
  OrCatch(SettleAs(r, s, status), "settlement_failed")

Awaiting(a, otherwise) == IF a.ok THEN R(a, Await) ELSE R(Catch(a, "admission_failed"), otherwise)
GuardedAdmit(r, s, otherwise) == Awaiting(Admit(r, Id(s)), otherwise)

Valid(a, r) == IF a.ok \/ Native(r, a) THEN a ELSE Catch(a, "invalid_record")
Ingest(r, k) == Valid(AddRecord(r, k), r)

\* Context retrieval, skills, static research and the browser lanes.  After a
\* failed settlement all but the failed single-shot lanes settle once more; the
\* observation count of a second attempt no longer matches the admission.
Rescue(t, s, out) ==
  IF s # "observe" /\ (out = "SUCCESS" \/ s = "research")
  THEN GuardedSettle([t EXCEPT !.ok = TRUE], s, "REJECTED")
  ELSE Catch(t, "settlement_failed")

StageSettled(t, s, out) ==
  CASE ~t.ok -> RecordBlocker(Rescue(t, s, out), "stage_failed")
    [] t.ok /\ out = "SUCCESS" ->
         IF s = "research" THEN OrCatch(AddRecord(t, "source"), "stage_failed") ELSE t
    [] OTHER -> RecordBlocker(t, "stage_failed")

StageReturn(r, s, out) == R(StageSettled(SettleAs(r, s, out), s, out), To(Follow[s]))

\* A marker in an observed page is recorded before the observation is rejected.
InjectedSettled(t) ==
  IF t.ok THEN t ELSE RecordBlocker(Rescue(t, "observe", "REJECTED"), "stage_failed")

InjectedBlocked(b) ==
  IF b.ok THEN InjectedSettled(SettleAs(b, "observe", "REJECTED")) ELSE Catch(b, "stage_failed")

ObserveInjected(r) ==
  R(InjectedBlocked(RecordBlocker(r, "prompt_injection")), To(Follow["observe"]))

\* _run_tool_calls, for the configured call and for a controller's tool_call.  A
\* call that may have had its effect ends the actions of the step.
UnknownOutcome(t) == RecordBlocker(OrCatch(t, "settlement_failed"), "unknown_outcome")

ToolSettled(t, s, out) ==
  CASE t.ok /\ out = "SUCCESS" -> R(t, After(s))
    [] Id(s) \in External /\ ~(t.ok /\ out = "SUCCESS") -> R(UnknownOutcome(t), To(Follow[s]))
    [] Id(s) \notin External /\ ~t.ok -> R(Catch(t, "settlement_failed"), After(s))
    [] OTHER -> IF at.attempt < MaxAttempts THEN R(t, Again)
                ELSE R(RecordBlocker(t, "tool_failed"), After(s))

ToolReturn(r, s, out) == ToolSettled(SettleAs(r, s, out), s, out)

\* _run_admitted_experiment and _run_admitted_simulation, one attempt.
Observed(o, simulated) == IF simulated THEN OrCatch(o, "simulation_failed") ELSE o

ExperimentSettled(t, out, simulated) ==
  CASE ~t.ok -> Catch(t, "settlement_failed")
    [] t.ok /\ out = "SUCCESS" -> Observed(Ingest(t, "observation"), simulated)
    [] OTHER -> RecordBlocker(t, "experiment_failed")

ExperimentReturn(r, s, out, simulated) ==
  R(ExperimentSettled(SettleAs(r, s, out), out, simulated), After(s))

\* _run_admitted_gateway settles outside any handler.
GatewaySettled(t, s, out, next) ==
  CASE ~t.ok -> R(t, at)
    [] t.ok /\ out = "SUCCESS" -> R(Commit(t, t, t, Event("committed", s, "")), next)
    [] OTHER -> IF at.attempt < MaxAttempts THEN R(t, Again) ELSE R(Raise(t), at)

GatewayReturn(r, s, out, next) == GatewaySettled(SettleAs(r, s, out), s, out, next)

\* _ingest_structured_step: a hypothesis and an experiment in one response.
WithHypothesis(h) == IF h.ok THEN Ingest(h, "experiment") ELSE h
InResearch(m) ==
  IF m.ok THEN WithHypothesis(Ingest(m, "hypothesis")) ELSE Catch(m, "phase_transition_failed")
Structured(r) ==
  IF ~r.ok THEN r
  ELSE InResearch(IF r.state = "planned" THEN Transition(r, "researching") ELSE r)

CheckpointSettled(t, out) ==
  CASE out = "SUCCESS" /\ t.ok -> R(t, [To("step") EXCEPT !.step = @ + 1])
    [] out = "SUCCESS" /\ ~t.ok -> R(Catch(t, "settlement_failed"), To("experiment"))
    [] OTHER -> R(Catch(t, "checkpoint_failed"), To("experiment"))

CheckpointReturn(r, out) == CheckpointSettled(SettleAs(r, "checkpoint", out), out)

\* _run_post_completion_effect.
EffectBlocked(r, out) == IF out # "SUCCESS" /\ Required THEN RecordBlocker(r, "effect_failed") ELSE r
MemoryReturn(r, out) == R(EffectBlocked(GuardedSettle(r, "memory", out), out), To("archive"))

MutCancelSettledAs(t, s) ==
  CASE s \in {"step", "synthesis"} -> R(t, To("cancelled"))
    [] s = "checkpoint" -> R(Raise(t), at)
    [] OTHER -> R(OrCatch(t, "settlement_failed"), To("cancelled"))

CancelSettledAs(t, s) ==
  CASE s \in {"step", "synthesis"} -> R(t, To("cancelled"))
    [] s = "checkpoint" -> R([t EXCEPT !.ok = TRUE], To("cancelled"))
    [] OTHER -> R(OrCatch(t, "settlement_failed"), To("cancelled"))

\* The session's cancellation arrives in the await of stage s.
Cancelled(r, s) == CancelSettledAs(SettleAs(r, s, "CANCELLED"), s)

-----------------------------------------------------------------------------
\* What happens at a stage up to its await, or to the next stage.
StageBegin(r, s) ==
  IF s \in Configured THEN GuardedAdmit(r, s, To(Follow[s]))
  ELSE R(IF s = "research" THEN RecordBlocker(r, "search_missing") ELSE r, To(Follow[s]))

\* Claims and hypotheses of the options.
RecordsBegin(r) ==
  R(IF "records" \in Configured THEN Ingest(r, "hypothesis") ELSE r, To("browse"))

\* One iteration of the controller loop.
Explored(e) ==
  IF e.ok THEN R(Admit(e, Id("step")), Await) ELSE R(Catch(e, "exploration_failed"), To("experiment"))

StepBegin(r) ==
  CASE at.attempt = 2 -> R(Admit(r, Id("step")), Await)
    [] at.attempt = 1 /\ at.step > Iterations -> R(r, To("experiment"))
    [] at.attempt = 1 /\ at.step <= Iterations /\ Uncertain(r) ->
         R(RecordBlocker(r, "controller_suppressed"), To("experiment"))
    [] at.attempt = 1 /\ at.step <= Iterations /\ ~Uncertain(r) /\ "prompt_injection" \in r.blockers ->
         R(r, To("experiment"))
    [] OTHER -> Explored(Commit(r, r, r, Event("exploration", at.step, "")))

MutProgressBegin(r, progressed) ==
  IF progressed THEN R(r, To("checkpoint")) ELSE R(RecordBlocker(r, "no_progress"), To("experiment"))

ProgressBegin(r, progressed) ==
  CASE Uncertain(r) -> R(RecordBlocker(r, "controller_suppressed"), To("experiment"))
    [] ~Uncertain(r) /\ ~progressed -> R(RecordBlocker(r, "no_progress"), To("experiment"))
    [] OTHER -> R(r, To("checkpoint"))

CheckpointBegin(r) ==
  IF "checkpoint" \in Configured THEN GuardedAdmit(r, "checkpoint", To("experiment"))
  ELSE R(r, [To("step") EXCEPT !.step = @ + 1])

\* The configured experiment after the loop, unless the controller ran it.
Specified(x, r) ==
  IF x.ok THEN GuardedAdmit(x, "experiment", To("validator"))
  ELSE R(IF Native(r, x) THEN x ELSE Catch(x, "spec_invalid"), To("validator"))

ExperimentBegin(r) ==
  CASE Uncertain(r) -> R(RecordBlocker(r, "experiment_suppressed"), To("validator"))
    [] ~Uncertain(r) /\ "experiment" \notin Configured ->
         R(RecordBlocker(r, "runner_missing"), To("validator"))
    [] ~Uncertain(r) /\ "experiment" \in Configured /\ at.ran -> R(r, To("validator"))
    [] OTHER -> Specified(IF "experiment" \in r.have THEN r ELSE AddRecord(r, "experiment"), r)

\* The benchmark is evaluated without an await; only type and value errors are caught.
Ranked(e, out) == IF out = "SUCCESS" THEN e ELSE RecordBlocker(e, "benchmark_rejected")
Evaluated(t, out) == Ranked(Commit(t, t, t, Event("committed", "validator", "")), out)

ValidatorAdmitted(a, out) ==
  CASE ~a.ok -> a
    [] a.ok /\ out = "RAISED" -> Catch(Settle(a, "validator", "REJECTED"), "benchmark_invalid")
    [] OTHER -> Evaluated(Settle(a, "validator", out), out)

ValidatorBegin(r, out) ==
  R(IF "validator" \in Configured THEN ValidatorAdmitted(Admit(r, "validator"), out) ELSE r,
    To("synthesis"))

\* The dossier of the open run, then the final model call.
Summarized(d) == IF d.ok THEN R(Admit(d, Id("synthesis")), Await) ELSE R(d, at)
SynthesisBegin(r) == Summarized(IF at.attempt = 1 THEN Dossier(r, FALSE) ELSE r)

MemoryBegin(r) ==
  IF "memory" \in Configured THEN GuardedAdmit(r, "memory", To("archive"))
  ELSE R(IF Required THEN RecordBlocker(r, "effect_missing") ELSE r, To("archive"))

-----------------------------------------------------------------------------
\* The controller loop catches what escapes from its stages; anything else
\* ends the application.
LoopBlocked(b) == R(b, To(IF b.ok THEN "experiment" ELSE "failing"))
Escape(o) ==
  IF o.r.ok THEN o
  ELSE IF at.stage \in Loop THEN LoopBlocked(Catch(o.r, "controller_step_failed"))
  ELSE R(o.r, To("failing"))

\* The native controller may reject one of the appends of a step (bound: of its
\* first four), which counts when the step gets that far.
Rejecting == IF quota.rejections = 0 THEN {0} ELSE 0..4
Spend(met) == quota' = IF met THEN [quota EXCEPT !.rejections = @ - 1] ELSE quota
Becomes(o) == missionRun' = Done(o.r) /\ at' = o.at
Meets(o, f) == Becomes(o) /\ Spend(f > 0 /\ o.r.fail = 0)
Take(Op(_)) ==
  /\ \E f \in Rejecting : Meets(Escape(Op([missionRun EXCEPT !.fail = f])), f)
  /\ UNCHANGED missionDisk

Begin(s) == at.stage = s /\ ~at.wait /\ UNCHANGED cancel
Plain == {"context", "skill", "tool", "research", "browse", "observe"}

BeginPlain == \E s \in Plain : Begin(s) /\ Take(LAMBDA r : StageBegin(r, s))
BeginRecords == Begin("records") /\ Take(RecordsBegin)
BeginStep == Begin("step") /\ Take(StepBegin)

\* _execute_controller_action_plan: the next action, or none is left.  An
\* experiment that is not registered is no action.
BeginAct ==
  /\ Begin("act")
  /\ \E k \in {"progress"} \cup ({"plan", "trial"} \cap Configured) :
       /\ k # "progress" => at.action <= Actions
       /\ k = "trial" => "experiment" \in missionRun.have
       /\ at' = [To(k) EXCEPT !.action = at.action]
  /\ UNCHANGED <<missionRun, missionDisk, quota>>
BeginPlan == Begin("plan") /\ Take(LAMBDA r : GuardedAdmit(r, "plan", NextAct))
BeginTrial ==
  /\ Begin("trial")
  /\ Take(LAMBDA r : [GuardedAdmit(r, "trial", NextAct) EXCEPT !.at.ran = TRUE])

BeginProgress == \E b \in BOOLEAN : Begin("progress") /\ Take(LAMBDA r : ProgressBegin(r, b))
BeginCheckpoint == Begin("checkpoint") /\ Take(CheckpointBegin)
BeginExperiment == Begin("experiment") /\ Take(ExperimentBegin)
BeginValidator ==
  \E out \in {"SUCCESS", "REJECTED", "RAISED"} :
    Begin("validator") /\ Take(LAMBDA r : ValidatorBegin(r, out))
BeginSynthesis == Begin("synthesis") /\ Take(SynthesisBegin)
BeginMemory == Begin("memory") /\ Take(MemoryBegin)

\* An adapter answers, fails or times out.
Returns(s) == at.stage = s /\ at.wait /\ cancel # "requested" /\ UNCHANGED cancel
Outcomes == {"SUCCESS", "REJECTED"}

ReturnPlain ==
  \E s \in Plain \ {"tool"}, out \in Outcomes : Returns(s) /\ Take(LAMBDA r : StageReturn(r, s, out))
ReturnInjected == Returns("observe") /\ Take(ObserveInjected)
ReturnTool ==
  \E s \in {"tool", "plan"}, out \in Outcomes : Returns(s) /\ Take(LAMBDA r : ToolReturn(r, s, out))
StepTaken(g, out, structured) ==
  IF structured /\ out = "SUCCESS" THEN [g EXCEPT !.r = Structured(@)] ELSE g
ReturnStep ==
  /\ Returns("step")
  /\ \E out \in Outcomes, structured \in BOOLEAN :
       Take(LAMBDA r : StepTaken(GatewayReturn(r, "step", out, To("act")), out, structured))
ReturnExperiment ==
  \E s \in {"experiment", "trial"}, out \in Outcomes, simulated \in BOOLEAN :
    Returns(s) /\ Take(LAMBDA r : ExperimentReturn(r, s, out, simulated))
ReturnCheckpoint ==
  \E out \in Outcomes : Returns("checkpoint") /\ Take(LAMBDA r : CheckpointReturn(r, out))
ReturnSynthesis ==
  \E out \in Outcomes :
    Returns("synthesis") /\ Take(LAMBDA r : GatewayReturn(r, "synthesis", out, To("memory")))
ReturnMemory == \E out \in Outcomes : Returns("memory") /\ Take(LAMBDA r : MemoryReturn(r, out))

\* The replay archive is written before the final dossier, or a blocker says why not.
Archived ==
  /\ "archive" \in Configured => Serializes(missionRun)
  /\ missionDisk' = IF "archive" \in Configured THEN <<missionRun>> ELSE missionDisk
  /\ at' = To("finish") /\ UNCHANGED <<missionRun, quota>>
BeginArchive ==
  /\ Begin("archive")
  /\ \/ Archived
     \/ /\ "archive" \in Configured
        /\ Take(LAMBDA r : R(RecordBlocker(r, "archive_failed"), To("finish")))

Finish == Begin("finish") /\ Take(LAMBDA r : R(Dossier(r, TRUE), To("done")))

\* _abort_after_failure: reconcile, then abort; nothing it meets is raised.
Swallow(r, b) == [OrCatch(r, b) EXCEPT !.ok = TRUE]
AbortAfterFailure(r) ==
  IF r.state \in Terminal THEN r
  ELSE Swallow(Abort(Swallow(Reconcile(r), "reconciliation_failed")), "abort_failed")

\* _archive_failure_prefix: what fails here leaves a blocker at most.
ArchivePrefix(a, fails) ==
  IF "archive" \notin Configured \/ (Serializes(a) /\ ~fails) THEN a
  ELSE Done(RecordBlocker(a, "failure_archive_failed"))

\* The failure prefix is archived; a cancelled session then closes the run itself.
SessionCloses(b) == IF at.stage = "cancelled" /\ b.state \notin Terminal THEN Abort(b) ELSE b
FailsWith(a, fails) ==
  /\ missionDisk' = IF "archive" \in Configured /\ Serializes(a) /\ ~fails THEN <<Done(a)>> ELSE missionDisk
  /\ missionRun' = Done(SessionCloses(ArchivePrefix(a, fails)))
Fail ==
  /\ at.stage \in {"failing", "cancelled"}
  /\ \E f \in Rejecting, fails \in BOOLEAN :
       FailsWith(AbortAfterFailure([missionRun EXCEPT !.fail = f]), fails) /\ Spend(f > 0)
  /\ at' = To("failed") /\ UNCHANGED cancel

\* The session acts while the application awaits.  It may cancel again when an
\* error replaced its cancellation.
SessionPause ==
  /\ at.wait /\ quota.pauses > 0 /\ Pause(missionRun).ok
  /\ missionRun' = Done(Pause(missionRun)) /\ quota' = [quota EXCEPT !.pauses = @ - 1]
  /\ UNCHANGED <<missionDisk, at, cancel>>

SessionResume ==
  /\ at.wait /\ Resume(missionRun).ok
  /\ missionRun' = Done(Resume(missionRun)) /\ UNCHANGED <<missionDisk, at, cancel, quota>>

SessionCancel ==
  /\ at.wait /\ cancel \in {"no", "replaced"}
  /\ cancel' = "requested" /\ UNCHANGED <<missionRun, missionDisk, at, quota>>

\* A rejected settlement of a controller step raises in place of the cancellation,
\* and the controller loop catches that.
Deliver ==
  /\ at.wait /\ cancel = "requested"
  /\ Take(LAMBDA r : Cancelled(r, at.stage))
  /\ cancel' = IF at.stage = "step" /\ quota' # quota THEN "replaced" ELSE "delivered"

Stopped == at.stage \in {"done", "failed"} /\ UNCHANGED missionVars

MissionInit ==
  /\ missionRun = Created /\ missionDisk = <<>> /\ cancel = "no"
  /\ at = [stage |-> "context", wait |-> FALSE, attempt |-> 1, step |-> 1, action |-> 1, ran |-> FALSE]
  /\ quota = [rejections |-> Rejections, pauses |-> Pauses]

Application ==
  \/ BeginPlain \/ BeginRecords \/ BeginStep \/ BeginAct \/ BeginPlan \/ BeginTrial
  \/ BeginProgress \/ BeginCheckpoint \/ BeginExperiment \/ BeginValidator \/ BeginSynthesis \/ BeginMemory
  \/ BeginArchive \/ Finish \/ Fail \/ Deliver

Return ==
  \/ ReturnPlain \/ ReturnInjected \/ ReturnTool \/ ReturnStep \/ ReturnExperiment
  \/ ReturnCheckpoint \/ ReturnSynthesis \/ ReturnMemory

Session == SessionPause \/ SessionResume \/ SessionCancel

MissionNext == Application \/ Return \/ Session \/ Stopped

MissionSpec == MissionInit /\ [][MissionNext]_missionVars

\* Code between awaits runs on, and a cancellation is delivered at the await:
\* weak fairness of Application, which is enabled exactly while Running.
Running == at.stage \notin {"done", "failed"} /\ (at.wait => cancel = "requested")
FairSpec == MissionSpec /\ ([]<>~Running \/ []<><<Application>>_missionVars)

-----------------------------------------------------------------------------
(* A run is completed only when every admission of every lane was settled  *)
(* and nothing is left as a blocker, whichever settlements were rejected   *)
(* and whenever the session paused and resumed (_run_unleased, dossier).   *)
CompletedIsSettled ==
  missionRun.state = "completed" => Unsettled(missionRun) = {} /\ missionRun.blockers = {}

(* An application that failed or was cancelled leaves no admission open,   *)
(* unless a blocker says that its reconciliation failed                    *)
(* (_abort_after_failure).                                                 *)
FailedIsClosed ==
  at.stage = "failed" /\ Unsettled(missionRun) # {} =>
    {"execution_reconciliation_failed", "reconciliation_failed"} \cap missionRun.blockers # {}

(* The two together: however a mission ends, no admission is left open     *)
(* that nobody is told of, whichever settlements were rejected and         *)
(* whenever the session paused it.                                         *)
NothingLeftOpen == CompletedIsSettled /\ FailedIsClosed

\* Calls whose outcome is unknown: no settlement says that they succeeded.
Doubtful(r) == (Admitted(r) \cap External) \ Succeeded(r)

\* The controller loop was left by an exception that it caught.
LeftByError(r) == "controller_step_failed" \in r.blockers

\* What could repeat the effect of a tool.
Repeating ==
  ToolCalls \cup
  {"step1", "restep1", "step2", "restep2", "checkpoint1", "checkpoint2", "experiment"}

(* Once an external tool was called whose success is not settled, neither  *)
(* the tool again nor a controller step, an action of it, a checkpoint or  *)
(* the experiment is admitted (_UNCERTAIN_EXTERNAL_TOOL_OUTCOME_BLOCKERS). *)
(* The one exception is the experiment after the loop, when the append of  *)
(* that very blocker was rejected and the loop caught the error: nothing   *)
(* then tells the code after it that an outcome is unknown.                *)
NoActAfterUncertain ==
  [][ LET new == (Admitted(missionRun') \ Admitted(missionRun)) \cap Repeating
      IN  /\ Uncertain(missionRun) => new = {}
          /\ Doubtful(missionRun) # {} =>
               new \subseteq IF at.stage = "experiment" /\ LeftByError(missionRun)
                            THEN {"experiment"} ELSE {} ]_missionVars

(* A requested cancellation ends with the run aborted and nothing open     *)
(* that no blocker tells of, also when the session had paused it           *)
(* (LabSession.cancel, _execute), unless it arrives in a controller step   *)
(* whose settlement is rejected: that error replaces it, the loop catches  *)
(* the error and the mission goes on (_run_admitted_gateway).              *)
CancelEnds ==
  []<>(cancel \in {"requested", "delivered"} =>
         at.stage = "failed" /\ missionRun.state = "aborted" /\ FailedIsClosed)
=============================================================================
