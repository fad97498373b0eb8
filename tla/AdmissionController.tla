------------------------ MODULE AdmissionController ------------------------
(***************************************************************************)
(* AdmissionController and ExecutionLaneRegistry (core/rust/src/           *)
(* resource.rs): what may run at once, the leases that record it, and the  *)
(* bounded queue of requests that have to wait.                            *)
(*                                                                         *)
(* The seven additive quantities of GrantedResources are one quantity of   *)
(* "units".  The static capability checks of admit (accelerator present,   *)
(* kind, backend, capabilities) are the field "supported" of a request.    *)
(* How a host sample moves capacity is abstracted to its envelope, which   *)
(* HostFeedback, the model of the arithmetic, implements.                  *)
(***************************************************************************)
EXTENDS TaskLedger, SequencesExt, Totals

CONSTANTS
    Lanes,             \* ExecutionLane
    LaneLimit,         \* LaneLimit.max_in_flight of each lane
    BaselineCapacity,  \* baseline_capacity
    MaxCapacity,       \* the largest capacity a host sample can lead to
    QueueLimit,        \* queue_limit
    Shapes             \* what a caller may ask for: lane, units, background,
                       \* supported and the request's own deadline

ASSUME AdmissionAssumption ==
    /\ LaneLimit \in [Lanes -> Nat]
    /\ BaselineCapacity \in Nat
    /\ MaxCapacity \in Nat
    /\ BaselineCapacity <= MaxCapacity
    /\ QueueLimit \in Nat
    /\ Shapes \subseteq [lane: Lanes, units: Nat, background: BOOLEAN,
                         supported: BOOLEAN, deadline: Instants]

VARIABLES
    capacity,        \* capacity
    used,            \* used
    memState,        \* memory_pressure_state
    queue,           \* queued_requests
    queuedAttempts,  \* queued_attempts, the index over queue
    active,          \* active, the leases in force
    nextLeaseId,     \* next_lease_id
    generation,      \* generation
    laneActive       \* LaneLimit.active of each lane

admissionVars == <<capacity, used, memState, queue, queuedAttempts, active,
                   nextLeaseId, generation, laneActive>>

-----------------------------------------------------------------------------
Attempts == 1 .. MaxAttempts
Keys == Tasks \X Attempts

ResourceRequest ==
    [task: Tasks, attempt: Attempts, lane: Lanes, units: Nat,
     background: BOOLEAN, supported: BOOLEAN, deadline: Instants]

Lease ==
    [lease: Nat, generation: Nat, task: Tasks, attempt: Attempts,
     lane: Lanes, units: Nat, expires: Instants]

Token == [lease: Nat, generation: Nat, attempt: Attempts]

MemoryPressure == {"Normal", "Guarded", "Critical"}

Request(t, a, shape, deadline) ==
    [task |-> t, attempt |-> a, lane |-> shape.lane, units |-> shape.units,
     background |-> shape.background, supported |-> shape.supported,
     deadline |-> deadline]

Key(r) == <<r.task, r.attempt>>

QueuedKeys == {Key(queue[i]) : i \in 1 .. Len(queue)}

\* The fields a lease token carries across the API boundary.
TokenOf(l) ==
    [lease |-> l.lease, generation |-> l.generation, attempt |-> l.attempt]

IsExpired(l, now) == now >= l.expires

-----------------------------------------------------------------------------
(* Lanes.                                                                  *)

LaneFree(lane) == laneActive[lane] < LaneLimit[lane]

Acquired(lane) == [laneActive EXCEPT ![lane] = @ + 1]

\* Mutant: the slot is given back twice.
MutReleasedTwice(lane) == [laneActive EXCEPT ![lane] = @ - 2]

Released(lane) == [laneActive EXCEPT ![lane] = @ - 1]

-----------------------------------------------------------------------------
(* The queue.  q and idx are the queue and its index as an earlier part of *)
(* the same call left them.                                                *)

\* ResourceRequest::validate of a well-formed request.
Validates(r, now) == now < r.deadline

\* enqueue accepts r.  Its idempotent answer to an identical repeat is not
\* needed here: every caller has removed or looked up the attempt before.
CanEnqueue(q, idx, r, now) ==
    /\ Validates(r, now)
    /\ Key(r) \notin idx
    /\ Len(q) < QueueLimit

\* Critical memory pressure defers background work whatever its size.
Deferred(r) == memState = "Critical" /\ r.background

Fits(r) == used + r.units <= capacity

\* The verdict of admit.
AdmitVerdict(q, idx, r, now) ==
    IF ~Validates(r, now) \/ ~r.supported THEN "Rejected"
    ELSE IF ~Deferred(r) /\ Fits(r) THEN "Admitted"
    ELSE IF CanEnqueue(q, idx, r, now) THEN "Queued"
    ELSE "Rejected"

\* The lease admit records for a granted request.
NewLease(r) ==
    [lease |-> nextLeaseId, generation |-> generation + 1, task |-> r.task,
     attempt |-> r.attempt, lane |-> r.lane, units |-> r.units,
     expires |-> r.deadline]

\* admit grants r: the counters move and the lease is in force.
Granted(q, idx, r) ==
    /\ queue' = q
    /\ queuedAttempts' = idx
    /\ nextLeaseId' = nextLeaseId + 1
    /\ generation' = generation + 1
    /\ used' = used + r.units
    /\ active' = active \cup {NewLease(r)}
    /\ laneActive' = Acquired(r.lane)
    /\ UNCHANGED <<capacity, memState>>

\* Mutant: a request that has to wait keeps the lane slot it had acquired.
MutEnqueuedKeepsLane(q, idx, r) ==
    /\ queue' = Append(q, r)
    /\ queuedAttempts' = idx \cup {Key(r)}
    /\ laneActive' = Acquired(r.lane)
    /\ UNCHANGED <<capacity, used, memState, active, nextLeaseId, generation>>

\* enqueue puts r at the back of the queue.
Enqueued(q, idx, r) ==
    /\ queue' = Append(q, r)
    /\ queuedAttempts' = idx \cup {Key(r)}
    /\ UNCHANGED <<capacity, used, memState, active, nextLeaseId, generation,
                   laneActive>>

\* Neither admitted nor queued.
Refused(q, idx) ==
    /\ queue' = q
    /\ queuedAttempts' = idx
    /\ UNCHANGED <<capacity, used, memState, active, nextLeaseId, generation,
                   laneActive>>

\* inspect_token: the live lease a token denotes, fenced by generation and
\* attempt.
Inspects(tok, l) ==
    /\ l \in active
    /\ l.lease = tok.lease
    /\ l.generation = tok.generation
    /\ l.attempt = tok.attempt

\* Mutant: the released amount is not given back.
MutReleaseKeepsUsed(l) ==
    /\ active' = {m \in active : m.lease # l.lease}
    /\ laneActive' = Released(l.lane)
    /\ UNCHANGED <<capacity, used, memState, queue, queuedAttempts,
                   nextLeaseId, generation>>

\* release_fenced followed by the lane's release.
ReleaseLease(l) ==
    /\ active' = {m \in active : m.lease # l.lease}
    /\ used' = IF l.units <= used THEN used - l.units ELSE 0
    /\ laneActive' = Released(l.lane)
    /\ UNCHANGED <<capacity, memState, queue, queuedAttempts, nextLeaseId,
                   generation>>

\* remove_queued: the index keeps at most one entry per attempt, so retain
\* drops one.
RemoveQueued(k) ==
    /\ \E i \in 1 .. Len(queue) :
          /\ Key(queue[i]) = k
          /\ queue' = RemoveAt(queue, i)
    /\ queuedAttempts' = queuedAttempts \ {k}
    /\ UNCHANGED <<capacity, used, memState, active, nextLeaseId, generation,
                   laneActive>>

\* The envelope of capacity_feedback: a sample moves the capacity anywhere
\* between what is in use and the maximum.
CapacityFeedback ==
    /\ capacity' \in used .. MaxCapacity
    /\ memState' \in MemoryPressure
    /\ UNCHANGED <<used, queue, queuedAttempts, active, nextLeaseId,
                   generation, laneActive>>

=============================================================================
