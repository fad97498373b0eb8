---------------------------- MODULE RuntimeClient ----------------------------
(***************************************************************************)
(* The Python side of the runtime (aegis_cognition/runtime.py): each task  *)
(* is one coordinated_runtime_task, which acquires a lease, polling while  *)
(* it is queued, runs its operation and reports the outcome.  A client may *)
(* time out or be cancelled between two polls; it then cancels its queue   *)
(* entry and, if an admission won that race, fetches the lease and gives   *)
(* it back.  These are separate calls of the native runtime, and other     *)
(* clients' calls come in between.                                         *)
(*                                                                         *)
(* A client makes one attempt, takes any request the runtime accepts, and  *)
(* nothing in the Python code calls the deadline reaper.                   *)
(***************************************************************************)
EXTENDS AuthoritativeRuntime

CONSTANTS
    Impatient,      \* clients that may time out or be cancelled
    Interruptible,  \* synchronous clients a signal may interrupt
    Steady          \* the host's samples leave the capacity as it is

ASSUME ClientAssumption ==
    /\ Never \in HardDeadlines   \* the clients' task cards carry none
    /\ Impatient \subseteq Tasks
    /\ Interruptible \subseteq Tasks
    /\ Steady \in BOOLEAN

VARIABLES
    client,  \* where the client of a task is
    token    \* the RuntimeLease it holds

clientVars == <<client, token>>
allVars == <<vars, clientVars>>

-----------------------------------------------------------------------------
Own(t) == <<t, 1>>

\* Where an answer of the runtime takes a client.
After(state, answer) ==
    IF answer.kind = "Admitted"
    THEN IF state = "reclaiming" THEN "returning" ELSE "holding"
    ELSE IF answer.kind = "Rejected" \/ state = "reclaiming" THEN "failed"
    ELSE "waiting"

Receives(t, answer) ==
    /\ client' = [client EXCEPT ![t] = After(client[t], answer)]
    /\ token' = [token EXCEPT
                   ![t] = IF answer.kind = "Admitted" THEN answer ELSE @]

\* What submit answers.
SubmitAnswer(t, shape, now) ==
    LET r == Request(t, attempt[t], shape, shape.deadline)
    IN  Result(r, Verdict(queue, queuedAttempts, r, now, "Initial"))

AcquireTask(t, shape, now) ==
    /\ client[t] = "new"
    /\ Submit(t, shape, Never, now)
    /\ Receives(t, SubmitAnswer(t, shape, now))

-----------------------------------------------------------------------------
(* Polling, every 50 ms or once while reclaiming.                          *)

Polls(t) == client[t] \in {"waiting", "reclaiming"}

PollTakes(t) ==
    /\ Polls(t)
    /\ PollRetained(Own(t))
    /\ Receives(t, pending[Own(t)])

PollBegins(t, now) ==
    /\ Polls(t)
    /\ PollStart(Own(t), now)
    /\ UNCHANGED clientVars

PollDrains == (DrainDrop \/ DrainBlocked \/ DrainAdmit) /\ UNCHANGED clientVars

PollEnds ==
    /\ PollReturn
    /\ Receives(call.key[1], call.target)

-----------------------------------------------------------------------------
(* Giving up.                                                              *)

\* The wait has timed out, or CancelledError arrives at the sleep between
\* two polls.
Abort(t) ==
    /\ t \in Impatient
    /\ client[t] = "waiting"
    /\ call.key # Own(t)
    /\ client' = [client EXCEPT ![t] = "aborting"]
    /\ UNCHANGED <<vars, token>>

\* Mutant: a client whose cancellation came too late looks no further.
MutAbortCancelOnly(t) ==
    /\ client[t] = "aborting"
    /\ Free
    /\ \/ CancelQueued(Own(t))
       \/ ~CanCancel(Own(t)) /\ UNCHANGED vars
    /\ client' = [client EXCEPT ![t] = "failed"]
    /\ UNCHANGED token

\* The first call of _cancel_queued_after_abort.
AbortCancel(t) ==
    /\ client[t] = "aborting"
    /\ Free
    /\ \/ /\ CancelQueued(Own(t))
          /\ client' = [client EXCEPT ![t] = "failed"]
       \/ /\ ~CanCancel(Own(t))
          /\ UNCHANGED vars
          /\ client' = [client EXCEPT ![t] = "reclaiming"]
    /\ UNCHANGED token

\* A signal interrupts time.sleep: the synchronous client has no handler.
Interrupt(t) ==
    /\ t \in Interruptible
    /\ client[t] = "waiting"
    /\ call.key # Own(t)
    /\ client' = [client EXCEPT ![t] = "interrupted"]
    /\ UNCHANGED <<vars, token>>

-----------------------------------------------------------------------------
(* RuntimeLease.finish: the token is refused if its lease is gone.         *)

Live(tok) == \E l \in active : Inspects(tok, l)

FinishLease(t, outcome) ==
    LET tok == token[t].token
    IN  /\ Free
        /\ \/ Finish(tok, outcome)
           \/ ~Live(tok) /\ UNCHANGED vars
        /\ UNCHANGED token

\* The operation ends, and with it the context manager.
Leave(t, outcome) ==
    /\ client[t] = "holding"
    /\ FinishLease(t, outcome)
    /\ client' = [client EXCEPT ![t] = "done"]

\* The reclaimed lease is given back as cancelled.
GiveBack(t) ==
    /\ client[t] = "returning"
    /\ FinishLease(t, "Cancelled")
    /\ client' = [client EXCEPT ![t] = "failed"]

-----------------------------------------------------------------------------
ClientInit ==
    /\ Init
    /\ client = [t \in Tasks |-> "new"]
    /\ token = [t \in Tasks |-> None]

ClientNext ==
    \/ \E t \in Tasks, shape \in Shapes, now \in CallerNow :
          AcquireTask(t, shape, now)
    \/ \E t \in Tasks : PollTakes(t) \/ AbortCancel(t) \/ GiveBack(t)
    \/ \E t \in Tasks, now \in CallerNow : PollBegins(t, now)
    \/ \E t \in Tasks, outcome \in {"Done", "Failed", "Cancelled"} :
          Leave(t, outcome)
    \/ \E t \in Impatient : Abort(t)
    \/ \E t \in Interruptible : Interrupt(t)
    \/ PollDrains
    \/ PollEnds
    \/ ~Steady /\ ObserveResourceSample /\ UNCHANGED clientVars
    \/ Tick /\ UNCHANGED clientVars

ClientSpec == ClientInit /\ [][ClientNext]_allVars

\* A call that holds the mutex goes on; the mutex (parking_lot) is eventually
\* fair, so a client that keeps asking for it gets it; operations end.
ClientFairness ==
    /\ WF_allVars(PollDrains)
    /\ WF_allVars(PollEnds)
    /\ WF_allVars(Tick /\ UNCHANGED clientVars)
    /\ \A t \in Tasks :
          /\ SF_allVars(PollTakes(t) \/ \E now \in CallerNow : PollBegins(t, now))
          /\ SF_allVars(AbortCancel(t))
          /\ SF_allVars(GiveBack(t))
          /\ SF_allVars(\E o \in {"Done", "Failed", "Cancelled"} : Leave(t, o))

FairClientSpec == ClientSpec /\ ClientFairness

-----------------------------------------------------------------------------
(* Properties.                                                             *)

\* A client that has returned or raised leaves nothing behind: no lease in
\* force, no queue entry that could still become one, no unfetched token.
NothingLeftBehind ==
    \A t \in Tasks : client[t] \in {"done", "failed"} =>
        /\ \A l \in active : l.task # t
        /\ Own(t) \notin queuedAttempts
        /\ pending[Own(t)].kind # "Admitted"

\* While an operation runs, the lease it runs under is in force, so what it
\* uses is accounted for.
HolderHasLease ==
    \A t \in Tasks : client[t] \in {"holding", "returning"} =>
        \E l \in active : l.task = t /\ Admitted(TokenOf(l)) = token[t]

\* A client and the runtime agree on its lease: an operation runs under a lease
\* in force, and once the client is done, however it was interrupted, neither a
\* lease nor a place in the queue nor a kept result of its is left.
ClientHoldsExactly == NothingLeftBehind /\ HolderHasLease

\* A queued client that does not give up is admitted, though others give up,
\* fail and overtake it.
PatientIsServed ==
    \A t \in Tasks \ Impatient :
        client[t] = "waiting" ~> client[t] \in {"holding", "done"}

\* "Expired leases become TimedOut and release lane/resource counters": a
\* lease past its deadline does not stay in force.
ExpiredLeaseReclaimed ==
    \A t \in Tasks :
        (\E l \in active : l.task = t /\ IsExpired(l, clock))
            ~> (\A l \in active : l.task # t)

=============================================================================
