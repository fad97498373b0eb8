------------------------ MODULE CrossLoopAsyncLock ------------------------
(***************************************************************************)
(* CrossLoopAsyncLock (aegis_cognition/_async_primitives.py): a lock shared *)
(* by coroutines of several event loops, each loop in a thread of its own.  *)
(* What a thread does under the threading lock _guard is one step; what it  *)
(* does after leaving the guard (_dispatch) is a step of its own, and other *)
(* loops run in between.                                                    *)
(*                                                                          *)
(* An acquisition is one call of acquire() with, later, its release(): a    *)
(* coroutine that locks twice is two of them, as every call makes a waiter  *)
(* of its own.  The event loop and task cancellation are external: a        *)
(* cancelled task's pending future is cancelled, a task whose future is     *)
(* already done has the cancellation thrown in when it resumes, and closing *)
(* a loop drops the callbacks it had accepted.                              *)
(***************************************************************************)
EXTENDS Integers, Sequences, SequencesExt

CONSTANTS
    Acquisitions,    \* the calls of acquire()
    Loops,           \* event loops
    LoopOf,          \* the loop an acquisition's coroutine runs on
    NoWaiter,        \* Python's None
    CloseWhenReady   \* may a loop be closed with callbacks still to run?

ASSUME LockAssumption ==
    /\ LoopOf \in [Acquisitions -> Loops]
    /\ NoWaiter \notin Acquisitions
    /\ CloseWhenReady \in BOOLEAN

VARIABLES
    locked,       \* _locked
    waiters,      \* _waiters
    state,        \* _LockWaiter.state, or "NONE" without a waiter
    future,       \* _LockWaiter.future
    cancelling,   \* the task was cancelled after its future was done
    pc,           \* where the acquisition's coroutine is
    callbacks,    \* waiters whose _deliver a loop has accepted
    dispatching,  \* the waiter the thread of a loop is dispatching
    open          \* loops not closed

lockVars == <<locked, waiters, state>>
taskVars == <<future, cancelling>>
vars == <<lockVars, taskVars, pc, callbacks, dispatching, open>>

-----------------------------------------------------------------------------
\* The thread of loop l can run its next callback.
Ready(l) == l \in open /\ dispatching[l] = NoWaiter

\* Mutant: the lock is marked free although it is being handed over.
MutNextWaiterUnlocks(st, l) ==
    \/ \E i \in 1 .. Len(waiters) :
          /\ st[waiters[i]] = "WAITING"
          /\ \A j \in 1 .. i - 1 : st[waiters[j]] # "WAITING"
          /\ waiters' = SubSeq(waiters, i + 1, Len(waiters))
          /\ state' = [st EXCEPT ![waiters[i]] = "GRANTED"]
          /\ dispatching' = [dispatching EXCEPT ![l] = waiters[i]]
          /\ locked' = FALSE
    \/ /\ \A i \in 1 .. Len(waiters) : st[waiters[i]] # "WAITING"
       /\ waiters' = <<>>
       /\ state' = st
       /\ dispatching' = [dispatching EXCEPT ![l] = NoWaiter]
       /\ locked' = FALSE

\* _next_waiter_locked, then the thread of loop l goes on to _dispatch what
\* it returned.  st is state as the caller has changed it.
NextWaiter(st, l) ==
    \/ \E i \in 1 .. Len(waiters) :
          /\ st[waiters[i]] = "WAITING"
          /\ \A j \in 1 .. i - 1 : st[waiters[j]] # "WAITING"
          /\ waiters' = SubSeq(waiters, i + 1, Len(waiters))
          /\ state' = [st EXCEPT ![waiters[i]] = "GRANTED"]
          /\ dispatching' = [dispatching EXCEPT ![l] = waiters[i]]
          /\ UNCHANGED locked
    \/ /\ \A i \in 1 .. Len(waiters) : st[waiters[i]] # "WAITING"
       /\ waiters' = <<>>
       /\ state' = st
       /\ dispatching' = [dispatching EXCEPT ![l] = NoWaiter]
       /\ locked' = FALSE

-----------------------------------------------------------------------------
(* acquire.                                                                *)

AcquireFree(w) ==
    /\ pc[w] = "new"
    /\ Ready(LoopOf[w])
    /\ ~locked
    /\ locked' = TRUE
    /\ pc' = [pc EXCEPT ![w] = "holding"]
    /\ UNCHANGED <<waiters, state, taskVars, callbacks, dispatching, open>>

AcquireWait(w) ==
    /\ pc[w] = "new"
    /\ Ready(LoopOf[w])
    /\ locked
    /\ waiters' = Append(waiters, w)
    /\ state' = [state EXCEPT ![w] = "WAITING"]
    /\ future' = [future EXCEPT ![w] = "pending"]
    /\ pc' = [pc EXCEPT ![w] = "awaiting"]
    /\ UNCHANGED <<locked, cancelling, callbacks, dispatching, open>>

\* The future has its result: the coroutine goes on, and raises if the
\* handoff was lost.
Resume(w) ==
    /\ pc[w] = "awaiting"
    /\ future[w] = "result"
    /\ ~cancelling[w]
    /\ Ready(LoopOf[w])
    /\ \/ /\ state[w] = "GRANTED"
          /\ state' = [state EXCEPT ![w] = "ACQUIRED"]
          /\ pc' = [pc EXCEPT ![w] = "holding"]
       \/ /\ state[w] # "GRANTED"
          /\ pc' = [pc EXCEPT ![w] = "error"]
          /\ UNCHANGED state
    /\ UNCHANGED <<locked, waiters, taskVars, callbacks, dispatching, open>>

\* Task.cancel() of a coroutine that awaits the lock.
CancelTask(w) ==
    /\ pc[w] = "awaiting"
    /\ Ready(LoopOf[w])
    /\ \/ /\ future[w] = "pending"
          /\ future' = [future EXCEPT ![w] = "cancelled"]
          /\ UNCHANGED cancelling
       \/ /\ future[w] = "result"
          /\ cancelling' = [cancelling EXCEPT ![w] = TRUE]
          /\ UNCHANGED future
    /\ UNCHANGED <<lockVars, pc, callbacks, dispatching, open>>

\* deque.remove, with the error for an absent waiter suppressed.
RemoveWaiter(w) ==
    \/ \E i \in 1 .. Len(waiters) :
          /\ waiters[i] = w
          /\ \A j \in 1 .. i - 1 : waiters[j] # w
          /\ waiters' = RemoveAt(waiters, i)
    \/ /\ \A i \in 1 .. Len(waiters) : waiters[i] # w
       /\ UNCHANGED waiters

\* _cancel_waiter in the thread of loop l.
CancelWaiter(w, l) ==
    /\ pc' = [pc EXCEPT ![w] = "cancelled"]
    /\ \/ /\ state[w] = "WAITING"
          /\ state' = [state EXCEPT ![w] = "CANCELLED"]
          /\ RemoveWaiter(w)
          /\ UNCHANGED <<locked, dispatching>>
       \/ /\ state[w] = "GRANTED"
          /\ NextWaiter([state EXCEPT ![w] = "CANCELLED"], l)
       \/ /\ state[w] \notin {"WAITING", "GRANTED"}
          /\ UNCHANGED <<lockVars, dispatching>>
    /\ UNCHANGED <<taskVars, callbacks, open>>

\* CancelledError reaches the coroutine.
Raise(w) ==
    /\ pc[w] = "awaiting"
    /\ future[w] = "cancelled" \/ cancelling[w]
    /\ Ready(LoopOf[w])
    /\ CancelWaiter(w, LoopOf[w])

\* The coroutine of a closed loop is collected in the thread of another
\* loop: GeneratorExit is a BaseException, too.
Collect(w, l) ==
    /\ pc[w] = "awaiting"
    /\ LoopOf[w] \notin open
    /\ Ready(l)
    /\ CancelWaiter(w, l)

-----------------------------------------------------------------------------
(* release and the handoff.                                                *)

Release(w) ==
    /\ pc[w] = "holding"
    /\ Ready(LoopOf[w])
    /\ \/ /\ locked
          /\ NextWaiter(state, LoopOf[w])
          /\ pc' = [pc EXCEPT ![w] = "done"]
       \/ /\ ~locked
          /\ pc' = [pc EXCEPT ![w] = "error"]
          /\ UNCHANGED <<lockVars, dispatching>>
    /\ UNCHANGED <<taskVars, callbacks, open>>

\* _dispatch: the waiter's loop accepts the callback ...
DispatchAccepted(l) ==
    LET w == dispatching[l]
    IN  /\ w # NoWaiter
        /\ LoopOf[w] \in open
        /\ callbacks' = callbacks \cup {w}
        /\ dispatching' = [dispatching EXCEPT ![l] = NoWaiter]
        /\ UNCHANGED <<lockVars, taskVars, pc, open>>

\* Mutant: the grant is dropped and nobody else is woken.
MutAbandonForgetsNext(l) ==
    LET w == dispatching[l]
    IN  /\ w # NoWaiter
        /\ LoopOf[w] \notin open
        /\ state' = [state EXCEPT ![w] = "CANCELLED"]
        /\ dispatching' = [dispatching EXCEPT ![l] = NoWaiter]
        /\ UNCHANGED <<locked, waiters, taskVars, pc, callbacks, open>>

\* Mutant: the grant is dropped and the lock freed, waiters or not.
MutAbandonUnlocks(l) ==
    LET w == dispatching[l]
    IN  /\ w # NoWaiter
        /\ LoopOf[w] \notin open
        /\ locked' = FALSE
        /\ state' = [state EXCEPT ![w] = "CANCELLED"]
        /\ dispatching' = [dispatching EXCEPT ![l] = NoWaiter]
        /\ UNCHANGED <<waiters, taskVars, pc, callbacks, open>>

\* ... or is closed, and the grant is passed on (_abandon_grant).
DispatchAbandoned(l) ==
    LET w == dispatching[l]
    IN  /\ w # NoWaiter
        /\ LoopOf[w] \notin open
        /\ \/ /\ state[w] = "GRANTED"
              /\ NextWaiter([state EXCEPT ![w] = "CANCELLED"], l)
           \/ /\ state[w] # "GRANTED"
              /\ dispatching' = [dispatching EXCEPT ![l] = NoWaiter]
              /\ UNCHANGED lockVars
        /\ UNCHANGED <<taskVars, pc, callbacks, open>>

\* The loop runs the callback _deliver.
RunDeliver(w) ==
    /\ w \in callbacks
    /\ Ready(LoopOf[w])
    /\ callbacks' = callbacks \ {w}
    /\ \/ /\ state[w] # "GRANTED"
          /\ UNCHANGED <<lockVars, future, dispatching>>
       \/ /\ state[w] = "GRANTED"
          /\ future[w] = "cancelled"
          /\ NextWaiter([state EXCEPT ![w] = "CANCELLED"], LoopOf[w])
          /\ UNCHANGED future
       \/ /\ state[w] = "GRANTED"
          /\ future[w] # "cancelled"
          /\ future' = [future EXCEPT ![w] = "result"]
          /\ UNCHANGED <<lockVars, dispatching>>
    /\ UNCHANGED <<cancelling, pc, open>>

\* Work that the loop of w has accepted for w and not done.
Runnable(w) ==
    \/ w \in callbacks
    \/ pc[w] = "awaiting" /\ future[w] # "pending"
    \/ pc[w] = "holding"

\* loop.close().  An orderly program runs the loop until it has no work.
CloseLoop(l) ==
    /\ Ready(l)
    /\ \/ CloseWhenReady
       \/ \A w \in Acquisitions : LoopOf[w] = l => ~Runnable(w)
    /\ open' = open \ {l}
    /\ callbacks' = {w \in callbacks : LoopOf[w] # l}
    /\ UNCHANGED <<lockVars, taskVars, pc, dispatching>>

-----------------------------------------------------------------------------
Init ==
    /\ locked = FALSE
    /\ waiters = <<>>
    /\ state = [w \in Acquisitions |-> "NONE"]
    /\ future = [w \in Acquisitions |-> "none"]
    /\ cancelling = [w \in Acquisitions |-> FALSE]
    /\ pc = [w \in Acquisitions |-> "new"]
    /\ callbacks = {}
    /\ dispatching = [l \in Loops |-> NoWaiter]
    /\ open = Loops

Next ==
    \/ \E w \in Acquisitions :
          \/ AcquireFree(w) \/ AcquireWait(w) \/ Resume(w) \/ CancelTask(w)
          \/ Raise(w) \/ Release(w) \/ RunDeliver(w)
    \/ \E w \in Acquisitions, l \in Loops : Collect(w, l)
    \/ \E l \in Loops :
          DispatchAccepted(l) \/ DispatchAbandoned(l) \/ CloseLoop(l)

Spec == Init /\ [][Next]_vars

\* An event loop runs its ready callbacks in the order they became ready, a
\* thread in the middle of a call goes on, and holders release.
Fairness ==
    /\ \A w \in Acquisitions :
          WF_vars(Resume(w)) /\ WF_vars(Raise(w)) /\ WF_vars(Release(w))
          /\ WF_vars(RunDeliver(w))
    /\ \A l \in Loops :
          WF_vars(DispatchAccepted(l)) /\ WF_vars(DispatchAbandoned(l))

FairSpec == Spec /\ Fairness

-----------------------------------------------------------------------------
(* Properties.                                                             *)

\* Every variable has the type of the field it models.
TypeOK ==
    /\ locked \in BOOLEAN
    /\ waiters \in Seq(Acquisitions)
    /\ state \in [Acquisitions ->
                    {"NONE", "WAITING", "GRANTED", "ACQUIRED", "CANCELLED"}]
    /\ future \in [Acquisitions -> {"none", "pending", "result", "cancelled"}]
    /\ cancelling \in [Acquisitions -> BOOLEAN]
    /\ pc \in [Acquisitions ->
                 {"new", "awaiting", "holding", "done", "cancelled", "error"}]
    /\ callbacks \subseteq Acquisitions
    /\ dispatching \in [Loops -> Acquisitions \cup {NoWaiter}]
    /\ open \subseteq Loops

\* The acquisitions the lock belongs to: it is held or on its way.
Owners ==
    {w \in Acquisitions :
        pc[w] = "holding" \/ (pc[w] = "awaiting" /\ state[w] = "GRANTED")}

\* At most one coroutine, of whatever loop, is between acquire and release,
\* cancellations and closed loops notwithstanding.
MutualExclusion ==
    \A v, w \in Acquisitions : pc[v] = "holding" /\ pc[w] = "holding" => v = w

\* The lock is locked exactly while it belongs to someone, and to one only:
\* no cancellation or closed loop leaks the lock or grants it twice.
LockedIffOwned ==
    /\ locked <=> Owners # {}
    /\ \A v, w \in Owners : v = w

\* While a coroutine waits, the lock is not free: no newcomer overtakes it.
NoFreeLockWithWaiters == waiters # <<>> => locked

\* The code's own assertions never fire: a resumed coroutine finds its grant
\* ("cross-loop lock handoff was lost"), a release finds the lock locked.
NoHandoffError == \A w \in Acquisitions : pc[w] # "error"

\* Handing over is safe: a lock with waiters is never free for a newcomer, and
\* neither assertion of the code fires when a grant meets a cancellation or a
\* closed loop.
HandoverIsSafe == NoFreeLockWithWaiters /\ NoHandoffError

\* A coroutine that waits gets the lock, is cancelled, or its loop is closed.
WaiterIsServed ==
    \A w \in Acquisitions :
        []<>(pc[w] \in {"new", "holding", "done", "cancelled"} \/ LoopOf[w] \notin open)

=============================================================================
