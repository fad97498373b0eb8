------------------------------- MODULE MCLab -------------------------------
(***************************************************************************)
(* Small instances of the Lab: a run whose reducer callers use in any      *)
(* order (LabRun), and the run of the application that drives a mission    *)
(* (LabApplication), in three configurations.  `which` says which of the   *)
(* four moves; the others stay as they were initially.                     *)
(***************************************************************************)
EXTENDS LabRun, LabApplication

VARIABLE which

labVars == <<which, vars, missionVars>>

\* A mission with a configured tool, two actions of the controller, of which the
\* second calls a tool of a safe class, and a memory effect.
Mission == INSTANCE LabApplication WITH
  Explicit <- FALSE, Budget <- 12,
  Configured <- {"tool", "research", "records", "plan", "checkpoint", "experiment", "memory"},
  Required <- FALSE, MaxAttempts <- 2, Iterations <- 1, Actions <- 2,
  Rejections <- 2, Pauses <- 0

\* A mission with skills, browser lanes, a trial and the benchmark validator.
Lanes == INSTANCE LabApplication WITH
  Explicit <- FALSE, Budget <- 12,
  Configured <- {"skill", "research", "records", "browse", "observe", "trial", "experiment",
                 "validator"},
  Required <- FALSE, MaxAttempts <- 1, Iterations <- 1, Actions <- 1,
  Rejections <- 1, Pauses <- 1

ASSUME LabInstances ==
  /\ ReducerAssumption /\ LabAssumption
  /\ ApplicationAssumption /\ Mission!ApplicationAssumption /\ Lanes!ApplicationAssumption

LabInit ==
  /\ which \in {"ledger", "budget", "mission", "lanes"} /\ Init
  /\ CASE which = "budget" -> MissionInit
       [] which = "lanes" -> Lanes!MissionInit
       [] OTHER -> Mission!MissionInit

\* The mission "budget" has a goal with explicit acceptance and runs out of attempts.
LabNext ==
  /\ UNCHANGED which
  /\ \/ which = "ledger" /\ Next /\ UNCHANGED missionVars
     \/ which = "budget" /\ MissionNext /\ UNCHANGED vars
     \/ which = "mission" /\ Mission!MissionNext /\ UNCHANGED vars
     \/ which = "lanes" /\ Lanes!MissionNext /\ UNCHANGED vars

LabSpec == LabInit /\ [][LabNext]_labVars
=============================================================================
