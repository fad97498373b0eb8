----------------------------- MODULE RuntimeFifo -----------------------------
(* RuntimeClient with a record of the order in which clients were queued.  *)
EXTENDS RuntimeClient

VARIABLE arrivals  \* tasks in the order submit put them in the queue

FifoInit == ClientInit /\ arrivals = <<>>

\* submit is what takes a client from "new" to "waiting".
Arrived == {t \in Tasks : client[t] = "new" /\ client'[t] = "waiting"}

FifoNext ==
    /\ ClientNext
    /\ arrivals' = arrivals \o SetToSeq(Arrived)

FifoSpec == FifoInit /\ [][FifoNext]_<<allVars, arrivals>>

\* t was queued before u.
Before(t, u) ==
    \E i, j \in DOMAIN arrivals : i < j /\ arrivals[i] = t /\ arrivals[j] = u

\* "Re-attempt queued requests in FIFO order after capacity or lane state
\* changes" (drain_queued): a queued request is not granted a lease while an
\* equal request that was queued before it stays in the queue.
FifoAdmission ==
    [][\A t, u \in Tasks :
          /\ Before(t, u)
          /\ Own(t) \in queuedAttempts \cap queuedAttempts'
          => ~ \E l \in active' \ active : l.task = u]_<<allVars, arrivals>>

=============================================================================
