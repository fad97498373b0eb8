------------------------------- MODULE LabRun -------------------------------
(***************************************************************************)
(* A laboratory run used through its methods by adapters, an operator and  *)
(* the recovery code, in any order, with native rejections in the middle   *)
(* of calls, archives, crashes and recoveries.                             *)
(***************************************************************************)
EXTENDS LabReducer

CONSTANTS
  Execs,      \* execution identities the adapters use
  Prepared,   \* how many of the source, hypothesis and experiment are there at the start
  MaxEvents,  \* bound: no call starts on a longer ledger
  MaxFail,    \* bound: the native controller rejects one of the first appends
  Calls       \* the methods the callers use

LabAssumption ==
  /\ Execs \subseteq ToolLane \cup {"skill", "experiment", "research", "browse", "observe"}
  /\ Prepared \in 0..3 /\ MaxEvents \in Nat /\ MaxFail \in Nat

VARIABLES
  run,   \* the live LabRun
  disk   \* the snapshot of the last archive, as a sequence of at most one run

vars == <<run, disk>>

Statuses == {"SUCCESS", "REJECTED", "CANCELLED"}

Call(name, Op(_)) ==
  /\ name \in Calls /\ Len(run.events) <= MaxEvents
  /\ \E f \in 0..MaxFail : run' = Done(Op([run EXCEPT !.fail = f]))
  /\ UNCHANGED disk

DoRecord == \E k \in Gaps \cup {"claim"} : Call("record", LAMBDA r : AddRecord(r, k))
DoTransition == \E s \in {"researching", "reviewing"} : Call("transition", LAMBDA r : Transition(r, s))
DoPause == Call("pause", Pause)
DoResume == Call("pause", Resume)
DoAbort == Call("abort", Abort)
DoAdmit == \E x \in Execs : Call("admit", LAMBDA r : Admit(r, x))
DoSettle == \E x \in Execs, s \in Statuses : Call("settle", LAMBDA r : Settle(r, x, s))
DoVerify == Call("verify", RecordVerification)
DoDossier == \E b \in BOOLEAN : Call("dossier", LAMBDA r : Dossier(r, b))
DoReconcile == Call("reconcile", Reconcile)
DoReconcileTools == Call("reconcile_tools", ReconcileTools)

\* archive_to_native.
Archive ==
  /\ "archive" \in Calls /\ Serializes(run)
  /\ disk' = <<run>> /\ UNCHANGED run

\* The process dies; recover_from_archive builds a run with no listeners.
CrashRecover ==
  /\ disk # <<>> /\ Restorable(disk[1])
  /\ run' = [disk[1] EXCEPT !.verified = Verification(disk[1])]
  /\ UNCHANGED disk

\* A run with a source, a hypothesis for it and an experiment, up to the n-th of them.
Evidence ==
  [n \in 0..3 |->
     CASE n = 0 -> Created
       [] n = 1 -> AddRecord(Created, "source")
       [] n = 2 -> AddRecord(AddRecord(Created, "source"), "hypothesis")
       [] n = 3 -> AddRecord(AddRecord(AddRecord(Created, "source"), "hypothesis"), "experiment")]

Init ==
  /\ run = Evidence[Prepared]
  /\ disk = <<>>

Next ==
  \/ DoRecord \/ DoTransition \/ DoPause \/ DoResume \/ DoAbort \/ DoAdmit \/ DoSettle
  \/ DoVerify \/ DoDossier \/ DoReconcile \/ DoReconcileTools \/ Archive \/ CrashRecover

Spec == Init /\ [][Next]_vars

-----------------------------------------------------------------------------
(* Whatever the native controller rejected and however the run was         *)
(* restored, the projection (state, blockers, records, tool admissions,    *)
(* attempt count, flags) is what replaying the ledger gives, so to_payload *)
(* never finds it diverged (_append, _restore_projection).                 *)
ProjectionIsReplay == Projection(run) = Projection(Replay(run.events))

(* No interleaving of adapters, reconciliation, abort and recovery settles *)
(* an admission twice, settles one that was never admitted, or admits one  *)
(* identity twice (_require_open_admission).                               *)
SettledOnce == LedgerSound(run)

(* A snapshot archive_to_native wrote is one recover_from_archive accepts. *)
ArchiveIsRestorable == disk # <<>> => Restorable(disk[1])

(* The ledger never holds more external admissions than the budget, also   *)
(* after a crash that forgot some of them (_append).                       *)
BudgetHolds == Cardinality({i \in 1..Len(run.events) : run.events[i].k = "admit"}) <= Budget

\* The two together: what an adapter may rely on of the ledger.
LedgerIsSound == SettledOnce /\ BudgetHolds

\* What an operator may rely on of the snapshots.
SnapshotIsFaithful == ProjectionIsReplay /\ ArchiveIsRestorable

(* A completed explicit goal was verified before its completion, and no    *)
(* evidence was added after the receipt (transition,                       *)
(* _ensure_goal_evidence_mutable).                                         *)
VerifiedEvidenceIsFrozen ==
  LET V == {i \in 1..Len(run.events) : run.events[i].k = "verified"}
  IN /\ Explicit /\ run.state = "completed" => V # {}
     /\ \A v \in V, i \in 1..Len(run.events) : run.events[i].k = "record" => i < v

(* Reconciliation of a run that is not aborted, when the native controller *)
(* accepts its appends, leaves no admission of any lane open and, if it    *)
(* found one, leaves the run blocked (reconcile_unsettled_executions).     *)
ReconcileCloses ==
  LET r == Reconcile(run)
  IN run.state # "aborted" =>
       r.ok /\ Unsettled(r) = {} /\ (Unsettled(run) # {} => r.state = "blocked" /\ r.blockers # {})
=============================================================================
