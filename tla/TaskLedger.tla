----------------------------- MODULE TaskLedger -----------------------------
(***************************************************************************)
(* The part of TaskLedger (core/rust/src/task_ledger.rs) that the runtime  *)
(* drives: task cards with a status and an attempt number, the table of    *)
(* legal transitions, and the retry policy with its backoff and deadline.  *)
(* Priorities and dependency graphs do not influence these operations.     *)
(***************************************************************************)
EXTENDS Integers

CONSTANTS
    Tasks,           \* task identities callers may submit
    MaxAttempts,     \* RetryPolicy.max_total_attempts
    InitialBackoff,  \* RetryPolicy.initial_backoff_ms, in clock ticks
    MaxBackoff,      \* RetryPolicy.max_backoff_ms, in clock ticks
    MaxClock         \* bound: the last instant the model reaches

ASSUME LedgerAssumption ==
    /\ MaxAttempts \in Nat \ {0}
    /\ InitialBackoff \in Nat
    /\ MaxBackoff \in Nat
    /\ MaxClock \in Nat

VARIABLES
    status,        \* TaskCard.status, or "Absent" before insert_task
    attempt,       \* TaskCard.attempt_id
    notBefore,     \* TaskCard.retry_not_before_ms
    hardDeadline   \* TaskCard.hard_deadline_ms

ledgerVars == <<status, attempt, notBefore, hardDeadline>>

-----------------------------------------------------------------------------
(* Time.  An absent deadline never passes and an absent backoff never      *)
(* elapses, so None is an instant later than any the clock or a scheduled  *)
(* retry can reach.                                                        *)

Never == MaxClock + MaxBackoff + 1

Instants == 0 .. Never

Earlier(a, b) == IF a <= b THEN a ELSE b

-----------------------------------------------------------------------------
TaskStatus == {"Pending", "Ready", "Admitted", "Running", "RetryWait",
               "Cancelling", "Done", "Failed", "Cancelled", "TimedOut",
               "NeedsReconciliation"}

IsTerminal(s) == s \in {"Done", "Failed", "Cancelled", "TimedOut"}

CanTransitionTo(from, to) ==
    \/ from = "Pending"    /\ to \in {"Ready", "Cancelled", "TimedOut"}
    \/ from = "Ready"      /\ to \in {"Admitted", "Cancelled", "TimedOut"}
    \/ from = "Admitted"   /\ to \in {"Running", "Cancelling", "TimedOut",
                                      "NeedsReconciliation"}
    \/ from = "Running"    /\ to \in {"Done", "Failed", "RetryWait",
                                      "Cancelling", "TimedOut",
                                      "NeedsReconciliation"}
    \/ from = "RetryWait"  /\ to \in {"Cancelled", "TimedOut"}
    \/ from = "Cancelling" /\ to \in {"Cancelled", "Failed",
                                      "NeedsReconciliation"}

\* validate_status_transition: staying put is always allowed.
ValidTransition(t, to) == status[t] = to \/ CanTransitionTo(status[t], to)

-----------------------------------------------------------------------------
(* RetryPolicy::delay_after: exponential backoff, doubled from the initial *)
(* delay, capped, and absent once the attempts are used up.                *)

Delay(a) == Earlier(InitialBackoff * 2^(a - 1), MaxBackoff)

MayRetryAfter(a) == a < MaxAttempts /\ Delay(a) > 0

\* validate_retry_wait: only a running task whose next attempt can still
\* begin before the hard deadline may wait for a retry.
ValidRetryWait(t, due) ==
    /\ status[t] = "Running"
    /\ MayRetryAfter(attempt[t])
    /\ due < hardDeadline[t]

\* Mutant: the backoff is not looked at.
MutRetryIgnoresBackoff(t, now) == now < hardDeadline[t]

\* The deadline and backoff tests of validate_retry_start.
RetryDue(t, now) == now < hardDeadline[t] /\ notBefore[t] <= now

ValidRetryStart(t, a, now) ==
    /\ status[t] = "RetryWait"
    /\ a = attempt[t] + 1
    /\ a <= MaxAttempts
    /\ RetryDue(t, now)

=============================================================================
