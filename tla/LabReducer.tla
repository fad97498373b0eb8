----------------------------- MODULE LabReducer -----------------------------
(***************************************************************************)
(* The event-sourced reducer of one laboratory run (LabRun in lab.py).     *)
(* Every method is an operator that takes the run and returns the run it   *)
(* leaves behind: its event ledger, the projection the ledger is reduced   *)
(* to, and "ok", FALSE when the method raised.  The native controller may  *)
(* reject one append of a call: "fail" counts down to that append.         *)
(* Hash chains, payload contracts and budgets other than the external      *)
(* attempt budget are abstracted; an execution stands for its identity.    *)
(***************************************************************************)
EXTENDS Naturals, Sequences, FiniteSets, SequencesExt

CONSTANTS
  Explicit,   \* does the goal contract carry explicit acceptance
  Budget      \* external_attempt_budget

ReducerAssumption == Explicit \in BOOLEAN /\ Budget \in Nat

\* Identities of the tool lane: the configured call and, by step and action, the
\* calls of the controller, each with its second attempt; "memory" is the managed
\* internal effect.
ToolCalls ==
  { "tool", "retry", "plan11", "replan11", "plan12", "replan12",
    "plan21", "replan21", "plan22", "replan22" }
ToolLane ==
  ToolCalls \cup
  { "context", "step1", "restep1", "step2", "restep2",
    "checkpoint1", "checkpoint2", "validator", "synthesis", "resynthesis", "memory" }

Terminal == {"completed", "aborted"}
Gaps == {"source", "hypothesis", "experiment", "observation"}

Created ==
  [ events |-> <<>>, state |-> "planned", blockers |-> {}, have |-> {}, tools |-> {},
    settled |-> {}, count |-> 0, finalizing |-> FALSE, verified |-> FALSE,
    ok |-> TRUE, fail |-> 0 ]

Event(k, x, s) == [k |-> k, x |-> x, s |-> s]

Raise(r) == [r EXCEPT !.ok = FALSE]

MutRestore(r, snap) ==
  [snap EXCEPT !.ok = FALSE, !.fail = 0, !.state = r.state, !.verified = r.verified]

\* _restore_projection: the verification flag stays.
Restore(r, snap) == [snap EXCEPT !.ok = FALSE, !.fail = 0, !.verified = r.verified]

\* The event is in the ledger, and "new" is the projection with what it says.
Appended(new, e) ==
  [new EXCEPT !.events = Append(@, e),
              !.count = IF e.k = "admit" THEN @ + 1 ELSE @,
              !.verified = @ \/ e.k = "verified",
              !.fail = IF @ > 0 THEN @ - 1 ELSE 0]

\* _append: "new" is r with the projection applied, "snap" the snapshot a
\* rejection goes back to.
Commit(r, snap, new, e) ==
  CASE ~r.ok -> r
    [] r.ok /\ e.k = "admit" /\ r.count >= Budget -> Raise(r)
    [] r.ok /\ ~(e.k = "admit" /\ r.count >= Budget) /\ r.fail = 1 -> Restore(r, snap)
    [] OTHER -> Appended(new, e)

Admitted(r) == {r.events[i].x : i \in {j \in 1..Len(r.events) : r.events[j].k = "admit"}}
Settled(r) == {r.events[i].x : i \in {j \in 1..Len(r.events) : r.events[j].k = "settle"}}
Succeeded(r) ==
  {r.events[i].x : i \in {j \in 1..Len(r.events) : r.events[j].k = "settle" /\ r.events[j].s = "SUCCESS"}}

\* unsettled_execution_admissions and unsettled_tool_execution_ids.
Unsettled(r) == Admitted(r) \ Settled(r)
UnsettledTools(r) == r.tools \ r.settled

\* _goal_verification_from_events.
Verification(r) == \E i \in 1..Len(r.events) : r.events[i].k = "verified"

\* goal_progress_snapshot raises for a verified run back in research.
ProgressProjects(r) ==
  Verification(r) => r.state \in {"reviewing", "completed", "blocked", "aborted"}

-----------------------------------------------------------------------------
RecordBlocker(r, b) ==
  IF b \in r.blockers THEN r
  ELSE Commit(r, r, [r EXCEPT !.blockers = @ \cup {b}], Event("blocker", b, ""))

ResolveBlocker(r, b) ==
  IF b \notin r.blockers THEN r
  ELSE Commit(r, r, [r EXCEPT !.blockers = @ \ {b}], Event("resolved", b, ""))

Allowed ==
  [ planned |-> {"researching", "blocked", "aborted"},
    researching |-> {"experimenting", "reviewing", "blocked", "aborted"},
    experimenting |-> {"researching", "reviewing", "blocked", "aborted"},
    reviewing |-> {"completed", "researching", "blocked", "aborted"},
    blocked |-> {"researching", "aborted"},
    completed |-> {"blocked", "aborted"},
    aborted |-> {} ]

Transition(r, s) ==
  CASE ~r.ok \/ s = r.state -> r
    [] OTHER ->
       IF s \notin Allowed[r.state] \/ (s = "completed" /\ Explicit /\ ~Verification(r))
       THEN Raise(r)
       ELSE Commit(r, r, [r EXCEPT !.state = s], Event("state", s, ""))

Pause(r) ==
  IF r.state \in {"blocked"} \cup Terminal THEN Raise(r)
  ELSE RecordBlocker(Transition(r, "blocked"), "paused_by_operator")

Resume(r) ==
  IF r.state # "blocked" THEN Raise(r)
  ELSE Transition(ResolveBlocker(r, "paused_by_operator"), "researching")

\* abort: the cancellation is admitted, tried and settled either way.
Cancels(r) == Cardinality({i \in 1..Len(r.events) : r.events[i].k = "cancel"})
CancelSettled(r, s) == Commit(r, r, r, Event("cancelled", Cancels(r), s))
CancelTried(t) ==
  IF t.ok THEN CancelSettled(t, "SUCCESS")
  ELSE Raise(CancelSettled([t EXCEPT !.ok = TRUE], "REJECTED"))
CancelAdmitted(a) == IF a.ok THEN CancelTried(Transition(a, "aborted")) ELSE a
Abort(r) ==
  IF r.state \in Terminal THEN r
  ELSE CancelAdmitted(Commit(r, r, r, Event("cancel", Cancels(r) + 1, "")))

\* add_source, add_claim, add_hypothesis, add_experiment, add_observation.
\* The first source and the experiment move the run on; their snapshot is the
\* one from before that transition.
EvidenceStates(k) ==
  CASE k = "source" -> {"planned", "researching"}
    [] k = "observation" -> {"experimenting", "reviewing"}
    [] OTHER -> {"researching", "experimenting", "reviewing"}

Cites(k) ==
  CASE k = "claim" -> {"source"}
    [] k = "experiment" -> {"hypothesis"}
    [] k = "observation" -> {"experiment"}
    [] OTHER -> {}

Moved(r, k) ==
  CASE k = "source" /\ r.state = "planned" -> Transition(r, "researching")
    [] k = "experiment" /\ r.state = "researching" -> Transition(r, "experimenting")
    [] OTHER -> r

Recorded(moved, r, k) ==
  Commit(moved, r, [moved EXCEPT !.have = @ \cup {k}], Event("record", k, ""))

MutAddRecord(r, k) ==
  IF r.state \notin EvidenceStates(k) \/ k \in r.have \/ ~(Cites(k) \subseteq r.have) THEN Raise(r)
  ELSE Recorded(Moved(r, k), r, k)

AddRecord(r, k) ==
  IF \/ r.state \notin EvidenceStates(k) \/ (Explicit /\ r.verified)
     \/ k \in r.have \/ ~(Cites(k) \subseteq r.have)
  THEN Raise(r)
  ELSE Recorded(Moved(r, k), r, k)

\* The admissions of the lanes.  An identity is admitted once, and an
\* experiment execution names a recorded experiment.
OpenAdmission(r, x, new) ==
  IF r.state \in Terminal \/ x \in Admitted(r) THEN Raise(r)
  ELSE Commit(r, r, new, Event("admit", x, ""))

AdmitTool(r, x) == OpenAdmission(r, x, [r EXCEPT !.tools = @ \cup {x}])
AdmitSkill(r) == OpenAdmission(r, "skill", r)
AdmitExperiment(r) ==
  IF "experiment" \notin r.have THEN Raise(r) ELSE OpenAdmission(r, "experiment", r)
AdmitResearch(r) == OpenAdmission(r, "research", r)
AdmitBrowse(r) == OpenAdmission(r, "browse", r)
AdmitObserve(r) == OpenAdmission(r, "observe", r)

Admit(r, x) ==
  CASE x \in ToolLane -> AdmitTool(r, x)
    [] x = "skill" -> AdmitSkill(r)
    [] x = "experiment" -> AdmitExperiment(r)
    [] x = "research" -> AdmitResearch(r)
    [] x = "browse" -> AdmitBrowse(r)
    [] x = "observe" -> AdmitObserve(r)

\* record_tool_execution, with the caller's managed_internal flag.
SettleTool(r, x, s, managed) ==
  IF \/ r.state = "completed"
     \/ r.state = "aborted" /\ s # "CANCELLED"
     \/ x \notin r.tools \/ x \in r.settled
     \/ managed # (x = "memory")
  THEN Raise(r)
  ELSE Commit(r, r, [r EXCEPT !.settled = @ \cup {x}], Event("settle", x, s))

MutCloseAdmission(r, x, s) ==
  IF x \notin Admitted(r) THEN Raise(r)
  ELSE Commit(r, r, r, Event("settle", x, s))

\* _require_open_admission, then the settlement.
CloseAdmission(r, x, s) ==
  IF x \notin Admitted(r) \/ x \in Settled(r) THEN Raise(r)
  ELSE Commit(r, r, r, Event("settle", x, s))

\* record_skill_execution has no state guard; the settlements of research and
\* observation admit the execution themselves when the caller did not.
RecordSkill(r, s) == CloseAdmission(r, "skill", s)
RecordExperiment(r, s) ==
  IF r.state \in Terminal THEN Raise(r) ELSE CloseAdmission(r, "experiment", s)
RecordResearch(r, s) ==
  IF r.state \in Terminal THEN Raise(r)
  ELSE CloseAdmission(IF "research" \in Admitted(r) THEN r ELSE AdmitResearch(r), "research", s)
RecordBrowse(r, s) ==
  IF r.state \in Terminal THEN Raise(r) ELSE CloseAdmission(r, "browse", s)
RecordObserve(r, s) ==
  IF r.state \in Terminal THEN Raise(r)
  ELSE CloseAdmission(IF "observe" \in Admitted(r) THEN r ELSE AdmitObserve(r), "observe", s)

MutSettle(r, x, s) ==
  IF x \in ToolLane THEN SettleTool(r, x, s, FALSE) ELSE CloseAdmission(r, x, s)

Settle(r, x, s) ==
  CASE x \in ToolLane -> SettleTool(r, x, s, x = "memory")
    [] x = "skill" -> RecordSkill(r, s)
    [] x = "experiment" -> RecordExperiment(r, s)
    [] x = "research" -> RecordResearch(r, s)
    [] x = "browse" -> RecordBrowse(r, s)
    [] x = "observe" -> RecordObserve(r, s)

BeginFinalization(r) ==
  CASE ~r.ok \/ r.finalizing -> r
    [] OTHER -> IF r.state \in Terminal THEN Raise(r)
                ELSE Commit(r, r, [r EXCEPT !.finalizing = TRUE], Event("finalization", "", ""))

\* record_goal_verification: one successful receipt, bound to retained evidence.
RecordVerification(r) ==
  IF ~Explicit \/ r.state # "reviewing" \/ "source" \notin r.have \/ Verification(r)
  THEN Raise(r)
  ELSE Commit(r, r, r, Event("verified", "", ""))

\* reconcile_unsettled_executions: one lane that cannot be settled leaves a
\* blocker and the others go on.
OrBlock(r, t) ==
  IF ~r.ok \/ t.ok THEN t
  ELSE RecordBlocker([t EXCEPT !.ok = TRUE], "execution_reconciliation_failed")

SettleOrBlock(r, x) == OrBlock(r, Settle(r, x, "REJECTED"))

\* reconcile_unsettled_tool_executions passes no managed_internal flag.
CloseTool(r, x) ==
  IF ~r.ok THEN r
  ELSE SettleTool(r, x, IF r.state = "aborted" THEN "CANCELLED" ELSE "REJECTED", FALSE)

\* The loops of dossier and of the reconciliations, by what each does with an
\* identity.  The code takes them in the order of the ledger, here it is any order.
Body(loop, r, x) ==
  CASE loop = "gaps" -> RecordBlocker(r, x)
    [] loop = "lanes" -> SettleOrBlock(r, x)
    [] loop = "tools" -> CloseTool(r, x)

AfterAll(loop, r, ids) ==
  LET after[i \in 0..Len(ids)] == IF i = 0 THEN r ELSE Body(loop, after[i - 1], ids[i])
  IN after[Len(ids)]

ForEach(loop, r, S) == AfterAll(loop, r, SetToSeq(S))

\* dossier(finalize): the gaps become blockers, then the run is concluded.
Concluded(gap, finalize) ==
  CASE ~gap.ok \/ ~finalize -> gap
    [] gap.ok /\ finalize /\ gap.blockers # {} ->
         IF gap.state \in {"blocked", "aborted"} THEN gap ELSE Transition(gap, "blocked")
    [] OTHER -> IF gap.state = "completed" THEN gap
                ELSE IF Explicit /\ ~Verification(gap) THEN Raise(gap)
                ELSE Transition(Transition(BeginFinalization(gap), "reviewing"), "completed")

Reported(r) == IF r.ok /\ ~ProgressProjects(r) THEN Raise(r) ELSE r

Dossier(r, finalize) ==
  Reported(Concluded(ForEach("gaps", r, Gaps \ r.have), finalize))

Reopened(r) == IF r.state = "completed" THEN Transition(r, "blocked") ELSE r
Halted(r) == IF r.state = "aborted" THEN r ELSE Transition(r, "blocked")

Reconcile(r) ==
  CASE r.state = "aborted" -> Raise(r)
    [] r.state # "aborted" /\ Unsettled(r) = {} -> r
    [] OTHER -> RecordBlocker(Halted(ForEach("lanes", Reopened(r), Unsettled(r))),
                              "unsettled_execution_requires_reconciliation")

ToolsClosed(r) ==
  IF ~r.ok \/ r.state = "aborted" THEN r
  ELSE RecordBlocker(Halted(r), "unsettled_tool_execution_requires_reconciliation")

ReconcileTools(r) ==
  IF UnsettledTools(r) = {} THEN r
  ELSE ToolsClosed(ForEach("tools", Reopened(r), UnsettledTools(r)))

-----------------------------------------------------------------------------
\* What the ledger says the projection is: _assert_native_projection_consistency.
Apply(p, e) ==
  CASE e.k = "state" -> [p EXCEPT !.state = e.x]
    [] e.k = "blocker" -> [p EXCEPT !.blockers = @ \cup {e.x}]
    [] e.k = "resolved" -> [p EXCEPT !.blockers = @ \ {e.x}]
    [] e.k = "record" -> [p EXCEPT !.have = @ \cup {e.x}]
    [] e.k = "admit" -> [p EXCEPT !.count = @ + 1,
                                  !.tools = IF e.x \in ToolLane THEN @ \cup {e.x} ELSE @]
    [] e.k = "settle" -> [p EXCEPT !.settled = IF e.x \in ToolLane THEN @ \cup {e.x} ELSE @]
    [] e.k = "finalization" -> [p EXCEPT !.finalizing = TRUE]
    [] e.k = "verified" -> [p EXCEPT !.verified = TRUE]
    [] OTHER -> p

Replay(events) ==
  LET replayed[i \in 0..Len(events)] ==
        IF i = 0 THEN Created ELSE Apply(replayed[i - 1], events[i])
  IN replayed[Len(events)]

Projection(r) ==
  [f \in {"state", "blockers", "have", "tools", "settled", "count", "finalizing", "verified"} |-> r[f]]

\* to_payload succeeds.
Serializes(r) == Projection(r) = Projection(Replay(r.events)) /\ ProgressProjects(r)

\* _validate_execution_event_semantics: every settlement follows the one
\* admission it names, and is the only one.
Before(r, i, k) == {j \in 1..(i - 1) : r.events[j].k = k /\ r.events[j].x = r.events[i].x}
LedgerSound(r) ==
  \A i \in 1..Len(r.events) :
    /\ r.events[i].k \in {"admit", "cancel"} => Before(r, i, r.events[i].k) = {}
    /\ r.events[i].k = "settle" => Cardinality(Before(r, i, "admit")) = 1 /\ Before(r, i, "settle") = {}
    /\ r.events[i].k = "cancelled" => Cardinality(Before(r, i, "cancel")) = 1
                                      /\ Before(r, i, "cancelled") = {}

\* from_payload and _validate_snapshot_records accept.
Restorable(r) ==
  LET V == {i \in 1..Len(r.events) : r.events[i].k = "verified"}
      C == {i \in 1..Len(r.events) : r.events[i].k = "state" /\ r.events[i].x = "completed"}
  IN /\ Projection(r) = Projection(Replay(r.events))
     /\ LedgerSound(r)
     /\ Cardinality(V) <= 1
     /\ V # {} => Explicit /\ r.state \in {"reviewing", "completed", "blocked", "aborted"}
     /\ r.state = "completed" =>
          /\ C # {} /\ Gaps \ {"source"} \subseteq r.have
          /\ Explicit => V # {} /\ \E c \in C : \A v \in V : v < c

\* The result of a call as the caller finds it.
Done(r) == [r EXCEPT !.ok = TRUE, !.fail = 0]
=============================================================================
