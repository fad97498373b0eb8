--------------------------- MODULE AgentSupervisor ---------------------------
(***************************************************************************)
(* AgentSupervisor.run of aegis_cognition/subagents.py: a validated graph  *)
(* of child tasks, run in a task group under a semaphore, the exclusive    *)
(* locks of the tasks' resources and the native runtime's admission, with  *)
(* children spawned while the run is under way, deadlines, a cancel event  *)
(* and the interruption of run() itself.  The graph and the needs are      *)
(* chosen initially among all valid ones.  The runtime guard is abstract:  *)
(* it admits or refuses (RuntimeClient).  Handlers that use a resource are *)
(* coroutines (_validate_handler_execution), so they end when cancelled.   *)
(***************************************************************************)
EXTENDS Naturals, FiniteSets

CONSTANTS Tasks,           \* task identifiers, numbers from 1
          Resources,       \* exclusive resource keys, numbers: they are sorted
          MaxConcurrency,  \* max_concurrency
          MaxDynamic,      \* max_dynamic_tasks
          MayInterrupt     \* whether run() itself may be cancelled by its caller

SupervisorAssumption ==
    /\ Tasks \subseteq Nat \ {0} /\ Resources \subseteq Nat
    /\ MaxConcurrency \in Nat \ {0} /\ MaxDynamic \in Nat
    /\ MayInterrupt \in BOOLEAN

VARIABLES deps, needs,  \* the graph and the exclusive resources, constant
          pc,           \* where the execution of each task is
          result,       \* status of the packet its future holds, or "raised"
          locks,        \* resource -> the task that holds it, or 0
          dynamic,      \* number of tasks spawned by others
          cancelEvent,  \* the host's cancel event
          aborting,     \* the task group has cancelled its tasks
          run           \* where run() is

vars == <<deps, needs, pc, result, locks, dynamic, cancelEvent, aborting, run>>

Statuses == {"SUCCEEDED", "FAILED", "BLOCKED", "CANCELLED", "TIMED_OUT"}
Present == {t \in Tasks : pc[t] # "absent"}
Admitted == {"locking", "handling"}   \* the places inside the semaphore

\* Acyclic, closed and free of self-reference: dependencies are smaller.
Init ==
    /\ deps \in {d \in [Tasks -> SUBSET Tasks] : \A t \in Tasks : \A u \in d[t] : u < t}
    /\ needs \in [Tasks -> SUBSET Resources]
    /\ \E first \in SUBSET Tasks :
          /\ first # {} /\ \A t \in first : deps[t] \subseteq first
          /\ pc = [t \in Tasks |-> IF t \in first THEN "created" ELSE "absent"]
    /\ result = [t \in Tasks |-> "none"]
    /\ locks = [r \in Resources |-> 0]
    /\ dynamic = 0 /\ cancelEvent = FALSE /\ aborting = FALSE
    /\ run = "children"

Goto(t, place) == pc' = [pc EXCEPT ![t] = place]

Held(t) == {r \in Resources : locks[r] = t}

\* Leaving the context managers: locks, semaphore slot and runtime lease.
Released(t) == [r \in Resources |-> IF locks[r] = t THEN 0 ELSE locks[r]]

\* The task ends with status s and emits its packet; if the sink or a full
\* mailbox refuses it, execute raises and the group cancels the other tasks.
Ends(t, s) ==
    /\ Goto(t, "done") /\ locks' = Released(t)
    /\ \/ result' = [result EXCEPT ![t] = s] /\ UNCHANGED aborting
       \/ result' = [result EXCEPT ![t] = "raised"] /\ aborting' = TRUE
    /\ UNCHANGED <<deps, needs, dynamic, cancelEvent, run>>

-----------------------------------------------------------------------------
(* execute(spec)                                                           *)

\* The first step of the coroutine.
Start(t) ==
    /\ ~ aborting /\ pc[t] = "created"
    /\ \/ cancelEvent /\ Ends(t, "CANCELLED")
       \/ /\ ~ cancelEvent /\ Goto(t, "gather")
          /\ UNCHANGED <<deps, needs, result, locks, dynamic, cancelEvent,
                         aborting, run>>

DependenciesDone(t) == \A u \in deps[t] : result[u] \in Statuses

Succeeded(t) == \A u \in deps[t] : result[u] = "SUCCEEDED"

\* Once the dependencies have results: cancelled, blocked, or on to the slot.
\* The request is emitted first, which may fail like a result.
Gathered(t) ==
    /\ ~ aborting /\ pc[t] = "gather" /\ DependenciesDone(t)
    /\ \/ cancelEvent /\ Ends(t, "CANCELLED")
       \/ ~ cancelEvent /\ ~ Succeeded(t) /\ Ends(t, "BLOCKED")
       \/ /\ ~ cancelEvent /\ Succeeded(t) /\ Goto(t, "queued")
          /\ UNCHANGED <<deps, needs, result, locks, dynamic, cancelEvent,
                         aborting, run>>
       \/ /\ ~ cancelEvent /\ Goto(t, "done")
          /\ result' = [result EXCEPT ![t] = "raised"] /\ aborting' = TRUE
          /\ UNCHANGED <<deps, needs, locks, dynamic, cancelEvent, run>>

InSemaphore == {t \in Tasks : pc[t] \in Admitted}

TakeSlot(t) ==
    /\ ~ aborting /\ pc[t] = "queued"
    /\ Cardinality(InSemaphore) < MaxConcurrency
    /\ Goto(t, "locking")
    /\ UNCHANGED <<deps, needs, result, locks, dynamic, cancelEvent, aborting, run>>

MutNextLock(t) ==
    {r \in needs[t] \ Held(t) :
        \A s \in needs[t] \ Held(t) : IF t % 2 = 0 THEN r <= s ELSE r >= s}

\* _hold_locks takes the locks in the order of their keys.
NextLock(t) == {r \in needs[t] \ Held(t) : \A s \in needs[t] \ Held(t) : r <= s}

TakeLock(t) ==
    /\ ~ aborting /\ pc[t] = "locking"
    /\ \E r \in NextLock(t) :
          /\ locks[r] = 0 /\ locks' = [locks EXCEPT ![r] = t]
    /\ UNCHANGED <<deps, needs, pc, result, dynamic, cancelEvent, aborting, run>>

\* The native runtime grants the lease, or its refusal fails the task.
Enter(t) ==
    /\ ~ aborting /\ pc[t] = "locking" /\ needs[t] \subseteq Held(t)
    /\ \/ /\ Goto(t, "handling")
          /\ UNCHANGED <<deps, needs, result, locks, dynamic, cancelEvent,
                         aborting, run>>
       \/ Ends(t, "FAILED")

\* The handler returns, or returns what violates the contract, or raises.
HandlerEnds(t) ==
    /\ ~ aborting /\ pc[t] = "handling"
    /\ \E s \in {"SUCCEEDED", "FAILED"} : Ends(t, s)

\* expand_plan: the handler of t adds tasks that depend on it.  The combined
\* graph is validated again.
Spawn(t, new) ==
    /\ ~ aborting /\ pc[t] = "handling"
    /\ new # {} /\ new \cap Present = {}
    /\ dynamic + Cardinality(new) <= MaxDynamic
    /\ \A u \in new : t \in deps[u] /\ deps[u] \subseteq Present \cup new
    /\ pc' = [u \in Tasks |-> IF u \in new THEN "created" ELSE pc[u]]
    /\ dynamic' = dynamic + Cardinality(new)
    /\ UNCHANGED <<deps, needs, result, locks, cancelEvent, aborting, run>>

\* The deadline covers the wait for slot, locks and admission, and the handler.
TimesOut(t) ==
    /\ ~ aborting /\ pc[t] \in {"queued"} \cup Admitted
    /\ Ends(t, "TIMED_OUT")

\* The group's cancellation reaches the task.  A coroutine that had not begun
\* just ends; one that had ends as cancelled if the host asked for it.
Interrupted(t) ==
    /\ aborting /\ pc[t] \notin {"absent", "done"}
    /\ Goto(t, "done") /\ locks' = Released(t)
    /\ \/ /\ cancelEvent /\ pc[t] # "created"
          /\ result' = [result EXCEPT ![t] = "CANCELLED"]
       \/ result' = [result EXCEPT ![t] = "raised"]
    /\ UNCHANGED <<deps, needs, dynamic, cancelEvent, aborting, run>>

Executes(t) ==
    \/ Start(t) \/ Gathered(t) \/ TakeSlot(t) \/ TakeLock(t) \/ Enter(t)
    \/ HandlerEnds(t) \/ Interrupted(t)

-----------------------------------------------------------------------------
(* run()                                                                   *)

AllDone == \A t \in Present : pc[t] = "done"

Cancel ==
    /\ ~ cancelEvent /\ run = "children" /\ cancelEvent' = TRUE
    /\ UNCHANGED <<deps, needs, pc, result, locks, dynamic, aborting, run>>

\* The watcher notices the event while the group still works.
WatchCancels ==
    /\ run = "children" /\ cancelEvent /\ ~ aborting /\ ~ AllDone
    /\ aborting' = TRUE
    /\ UNCHANGED <<deps, needs, pc, result, locks, dynamic, cancelEvent, run>>

MutGroupEnds ==
    /\ run = "children" /\ AllDone
    /\ run' = IF \E t \in Present : result[t] = "raised" THEN "raised" ELSE "synthesis"
    /\ UNCHANGED <<deps, needs, pc, result, locks, dynamic, cancelEvent, aborting>>

\* The group has ended: an error, the host's cancellation, or the synthesis.
GroupEnds ==
    /\ run = "children" /\ AllDone
    /\ run' = IF cancelEvent \/ \E t \in Present : result[t] = "raised"
              THEN "raised" ELSE "synthesis"
    /\ UNCHANGED <<deps, needs, pc, result, locks, dynamic, cancelEvent, aborting>>

Synthesised ==
    /\ run = "synthesis"
    /\ run' = IF \A t \in Present : result[t] = "SUCCEEDED"
              THEN "COMPLETED" ELSE "PARTIAL"
    /\ UNCHANGED <<deps, needs, pc, result, locks, dynamic, cancelEvent, aborting>>

\* The caller cancels run() while it waits for the group and the watcher: only
\* the watcher is cancelled on the way out.
Interrupt ==
    /\ MayInterrupt /\ run = "children" /\ run' = "raised"
    /\ UNCHANGED <<deps, needs, pc, result, locks, dynamic, cancelEvent, aborting>>

Next ==
    \/ \E t \in Tasks : Executes(t) \/ TimesOut(t) \/ \E new \in SUBSET Tasks : Spawn(t, new)
    \/ Cancel \/ WatchCancels \/ GroupEnds \/ Synthesised \/ Interrupt

Spec == Init /\ [][Next]_vars

\* Coroutines get their turns, handlers end, the watcher polls.  Deadlines,
\* cancellation and new tasks are not forced.
FairSpec ==
    /\ Spec /\ WF_vars(WatchCancels) /\ WF_vars(GroupEnds) /\ WF_vars(Synthesised)
    /\ \A t \in Tasks : WF_vars(Executes(t))

-----------------------------------------------------------------------------
(* Properties.                                                             *)

\* A handler runs only when all that its task depends on has succeeded, though
\* tasks are added to the graph while it runs.
RunsAfterDependencies ==
    \A t \in Tasks : pc[t] = "handling" =>
        \A u \in deps[t] : pc[u] = "done" /\ result[u] = "SUCCEEDED"

\* Two handlers never use an exclusive resource at once, and a task that has
\* ended, in whichever way, keeps no lock.
ResourcesExclusive ==
    \A t \in Tasks :
        /\ pc[t] = "handling" => needs[t] \subseteq Held(t)
        /\ pc[t] = "done" => Held(t) = {}

\* The root synthesises over a result of every task, spawned ones included,
\* and not in a run that the host has cancelled.
SynthesisIsComplete ==
    run \in {"synthesis", "COMPLETED", "PARTIAL"} =>
        \A t \in Present : pc[t] = "done" /\ result[t] \in Statuses \ {"CANCELLED"}

\* A run ends, without the help of deadlines: slots and locks never block each
\* other for ever.
RunEnds == []<>(run # "children")
=============================================================================
