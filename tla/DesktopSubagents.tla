-------------------------- MODULE DesktopSubagents --------------------------
(***************************************************************************)
(* The subagent runs of the desktop service                                *)
(* (aegis_cognition/desktop_service.py): the bounded table of runs, the    *)
(* worker thread of each, the execution a run may own in a conversation,   *)
(* cancellation, and the switch to another workspace.  The run itself is   *)
(* AgentSupervisor.  A run delegated by a provider's tool call has no      *)
(* conversation of its own, and a provider turn delegates once.            *)
(*                                                                         *)
(* The store of conversations is the one of the workspace that is open     *)
(* when a call is made, so a worker that outlives its workspace finds no   *)
(* execution to finish.                                                    *)
(***************************************************************************)
EXTENDS Naturals, Sequences, FiniteSets, SequencesExt

CONSTANTS Runs,           \* run identifiers
          Conversations,  \* conversations of each workspace
          Turns,          \* provider turns that may delegate
          MaxRuns,        \* MAX_SUBAGENT_EVENT_RUNS
          MaxWorkspace    \* bound: workspaces are 0 .. MaxWorkspace

SubagentsAssumption == MaxRuns \in Nat \ {0} /\ MaxWorkspace \in Nat

VARIABLES status,     \* run -> status of its _SubagentRunState
          table,      \* _subagent_runs, oldest first
          worker,     \* run -> where its worker is
          owner,      \* run -> the conversation or turn it works for
          exec,       \* run -> status of its execution, durable
          cancel,     \* runs whose cancel_event is set
          claimed,    \* turns that have delegated
          workspace, home  \* the workspace that is open, and each run's

vars == <<status, table, worker, owner, exec, cancel, claimed, workspace, home>>

None == "none"
Ended == {"COMPLETED", "PARTIAL", "FAILED", "CANCELLED"}

Init ==
    /\ status = [r \in Runs |-> None] /\ worker = status /\ owner = status
    /\ exec = status /\ table = <<>> /\ cancel = {} /\ claimed = {}
    /\ workspace = 0 /\ home = [r \in Runs |-> 0]

Busy(c) == \E r \in Runs : owner[r] = c /\ home[r] = workspace /\ exec[r] = "RUNNING"

\* The runs that make room for another: all that are not RUNNING.
Evictable(t) == {i \in DOMAIN t : status[t[i]] \notin {None, "RUNNING"}}

\* The oldest of them goes when the table is full.
Remembered(r) ==
    IF Len(table) < MaxRuns THEN Append(table, r)
    ELSE Append(RemoveAt(table, CHOOSE i \in Evictable(table) :
                                    \A j \in Evictable(table) : i <= j), r)

HasRoom == Len(table) < MaxRuns \/ Evictable(table) # {}

\* _run_subagents: a turn and an execution are started in the conversation,
\* then the run is remembered and its worker started.
Start(r, c) ==
    /\ status[r] = None /\ worker[r] = None /\ HasRoom
    /\ c \in Conversations => ~ Busy(c)
    /\ c \in Turns => c \notin claimed
    /\ status' = [status EXCEPT ![r] = "RUNNING"]
    /\ worker' = [worker EXCEPT ![r] = "running"]
    /\ table' = Remembered(r)
    /\ owner' = [owner EXCEPT ![r] = c]
    /\ exec' = [exec EXCEPT ![r] = IF c \in Conversations THEN "RUNNING" ELSE @]
    /\ claimed' = claimed \cup ({c} \cap Turns)
    /\ home' = [home EXCEPT ![r] = workspace]
    /\ UNCHANGED <<cancel, workspace>>

MutRefused(r, c) ==
    /\ status[r] = None /\ worker[r] = None /\ ~ HasRoom
    /\ c \in Conversations => ~ Busy(c)
    /\ worker' = [worker EXCEPT ![r] = "done"]
    /\ owner' = [owner EXCEPT ![r] = c]
    /\ exec' = [exec EXCEPT ![r] = IF c \in Conversations THEN "RUNNING" ELSE @]
    /\ home' = [home EXCEPT ![r] = workspace]
    /\ UNCHANGED <<status, table, cancel, claimed, workspace>>

\* SUBAGENT_CAPACITY: the execution that has been started is finished.  The
\* delegation stays claimed.
Refused(r, c) ==
    /\ status[r] = None /\ worker[r] = None /\ ~ HasRoom
    /\ c \in Conversations => ~ Busy(c)
    /\ c \in Turns => c \notin claimed
    /\ worker' = [worker EXCEPT ![r] = "done"]
    /\ owner' = [owner EXCEPT ![r] = c]
    /\ exec' = [exec EXCEPT ![r] = IF c \in Conversations THEN "FAILED" ELSE @]
    /\ claimed' = claimed \cup ({c} \cap Turns)
    /\ home' = [home EXCEPT ![r] = workspace]
    /\ UNCHANGED <<status, table, cancel, workspace>>

\* How the execution and the state end when the runner ends with s: a partial
\* result completes the execution; without its store the run fails.
Ends(r, s) ==
    CASE exec[r] = "RUNNING" /\ home[r] = workspace ->
            <<IF s = "PARTIAL" THEN "COMPLETED" ELSE s, s>>
      [] exec[r] = "RUNNING" /\ home[r] # workspace -> <<"RUNNING", "FAILED">>
      [] OTHER -> <<exec[r], s>>

\* execute_and_finalize: the runner ends and the execution is settled; then the
\* state is (FinishState).
WorkerEnds(r, s) ==
    /\ worker[r] = "running" /\ (s = "CANCELLED" => r \in cancel)
    /\ exec' = [exec EXCEPT ![r] = Ends(r, s)[1]]
    /\ worker' = [worker EXCEPT ![r] = Ends(r, s)[2]]
    /\ UNCHANGED <<status, table, owner, cancel, claimed, workspace, home>>

FinishState(r) ==
    /\ worker[r] \in Ended
    /\ status' = [status EXCEPT ![r] = worker[r]]
    /\ worker' = [worker EXCEPT ![r] = "done"]
    /\ UNCHANGED <<table, owner, exec, cancel, claimed, workspace, home>>

\* _cancel_subagents
Cancel(r) ==
    /\ r \in ToSet(table) /\ status[r] = "RUNNING"
    /\ status' = [status EXCEPT ![r] = "CANCELLING"] /\ cancel' = cancel \cup {r}
    /\ UNCHANGED <<table, worker, owner, exec, claimed, workspace, home>>

\* _switch_workspace, refused while a run of the table is active.  The workspace may
\* be one that was open before: its store is the one of then, and nothing in it is
\* recovered.
SwitchWorkspace(w) ==
    /\ w # workspace
    /\ \A r \in ToSet(table) : status[r] \notin {"RUNNING", "CANCELLING"}
    /\ workspace' = w
    /\ UNCHANGED <<status, table, worker, owner, exec, cancel, claimed, home>>

Next ==
    \/ \E r \in Runs :
          \/ \E c \in Conversations \cup Turns : Start(r, c) \/ Refused(r, c)
          \/ \E s \in Ended : WorkerEnds(r, s)
          \/ FinishState(r) \/ Cancel(r)
    \/ \E w \in 0 .. MaxWorkspace : SwitchWorkspace(w)

Spec == Init /\ [][Next]_vars

-----------------------------------------------------------------------------
(* Properties.                                                             *)

\* An execution under way, in whichever workspace, has a worker that will settle
\* it, whether the run was refused or failed; otherwise its conversation stays
\* busy when its workspace is opened again.  The code leaves one exception, and
\* there is no other: a run that was being cancelled when a new one took its
\* place in the table (CANCELLING runs are evicted), so that _switch_workspace
\* no longer sees it and its worker may end in another workspace.
NoOrphanExecution ==
    \A r \in Runs :
        exec[r] = "RUNNING" => worker[r] = "running" \/ (r \in cancel /\ r \notin ToSet(table))

\* A run that nobody has cancelled never loses its place in the table.
RunningRunIsKnown == \A r \in Runs : status[r] = "RUNNING" => r \in ToSet(table)
=============================================================================
