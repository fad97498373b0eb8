---------------------------- MODULE HostFeedback ----------------------------
(***************************************************************************)
(* capacity_feedback of AdmissionController (core/rust/src/resource.rs):   *)
(* how a sample of the host's memory moves the memory and process capacity *)
(* and the memory pressure state, while requests are admitted and leases   *)
(* released.  Arithmetic saturates in the code; the quantities of a real   *)
(* host are far from where it would.                                       *)
(*                                                                         *)
(* Every producer of samples in the program reports no CPU activity and    *)
(* reports pressure exactly when less than 10% is available, so the CPU    *)
(* branch never runs and memory_pressure adds nothing to the percentage.   *)
(***************************************************************************)
EXTENDS Integers

CONSTANTS
    BaselineMemory,    \* baseline_capacity.host_memory_bytes
    InitialProcesses,  \* process_limit at start, also guarded_process_limit
    MaxProcesses,      \* adaptive_max_process_limit
    Samples,           \* samples the host may produce
    Sizes              \* host memory a request may ask for

Unknown == -1

ASSUME FeedbackAssumption ==
    /\ BaselineMemory \in Nat \ {0}
    /\ InitialProcesses \in Nat \ {0}
    /\ MaxProcesses \in Nat
    /\ InitialProcesses <= MaxProcesses
    /\ Samples \subseteq [total: Nat \cup {Unknown}, available: Nat \cup {Unknown}]
    /\ Sizes \subseteq Nat

VARIABLES
    memCapacity,   \* capacity.host_memory_bytes
    memUsed,       \* used.host_memory_bytes
    procCapacity,  \* capacity.process_limit
    procUsed,      \* used.process_limit
    mode,          \* memory_pressure_state
    healthy,       \* healthy_memory_samples
    held,          \* how many leases of each size are in force
    steady,        \* history: the host has settled, and at which sample
    since,         \* history: samples since the last critical one, up to six
    streak,        \* history: samples in a row with 15% or more, up to three
    reduced        \* history: the memory capacity the critical sample left

controller == <<memCapacity, memUsed, procCapacity, procUsed, mode, healthy, held>>
history == <<since, streak, reduced>>
vars == <<controller, steady, history>>

NotSteady == [total |-> Unknown, available |-> Unknown, settled |-> FALSE]

-----------------------------------------------------------------------------
(* Readings of a sample.                                                   *)

Least(a, b) == IF a <= b THEN a ELSE b
Greatest(a, b) == IF a >= b THEN a ELSE b

\* available_memory_percent.
Percent(s) ==
    IF s.total > 0 /\ s.available # Unknown
    THEN Least((s.available * 100) \div s.total, 100)
    ELSE Unknown

CriticalSignal(s) == Percent(s) # Unknown /\ Percent(s) < 10

\* A sample good enough to count towards leaving the current state.
Healthy(s) ==
    \/ mode = "Guarded" /\ Percent(s) >= 35
    \/ mode = "Critical" /\ Percent(s) >= 15

\* Mutant: one healthy sample is enough to relax.
MutNextModeEager(s) ==
    IF CriticalSignal(s) THEN "Critical"
    ELSE IF mode = "Normal" /\ Percent(s) # Unknown /\ Percent(s) < 25 THEN "Guarded"
    ELSE IF Healthy(s)
    THEN IF mode = "Guarded" THEN "Normal" ELSE "Guarded"
    ELSE mode

\* update_memory_pressure_state: worsen at once, relax one level after three
\* healthy samples in a row.
NextMode(s) ==
    IF CriticalSignal(s) THEN "Critical"
    ELSE IF mode = "Normal" /\ Percent(s) # Unknown /\ Percent(s) < 25 THEN "Guarded"
    ELSE IF Healthy(s) /\ healthy + 1 >= 3
    THEN IF mode = "Guarded" THEN "Normal" ELSE "Guarded"
    ELSE mode

\* healthy_memory_samples.
NextHealthy(s) ==
    IF NextMode(s) = mode /\ Healthy(s) THEN healthy + 1 ELSE 0

-----------------------------------------------------------------------------
(* Where the capacities go.                                                *)

MoveTowards(current, target, step) ==
    IF current < target
    THEN Least(current + Greatest(step, 1), target)
    ELSE Greatest(current - Greatest(step, 1), target)

\* Mutant: what is in use is left out of the target.
MutTargetForgetsUse(s) == Least((s.available * 75) \div 100, BaselineMemory)

\* What is in use and 75% of what is available, within the baseline.
MemoryTarget(s) ==
    Least(memUsed + (s.available * 75) \div 100, BaselineMemory)

\* At once to the target under pressure, held while the state stays critical,
\* and by a quarter of the baseline at a time otherwise.
MemoryAfter(s) ==
    IF CriticalSignal(s) THEN MemoryTarget(s)
    ELSE IF mode = "Critical" /\ NextMode(s) = "Critical" THEN memCapacity
    ELSE IF s.available = Unknown THEN memCapacity
    ELSE MoveTowards(memCapacity, MemoryTarget(s), BaselineMemory \div 4)

ProcessTarget(m) ==
    IF m = "Normal" THEN MaxProcesses
    ELSE IF m = "Guarded"
    THEN Least(Greatest(InitialProcesses, procUsed), MaxProcesses)
    ELSE Greatest(procUsed, 1)

\* Mutant: the process width only shrinks.
MutProcessesNeverGrow(s) ==
    IF Percent(s) = Unknown THEN procCapacity
    ELSE Least(procCapacity, MoveTowards(procCapacity, ProcessTarget(NextMode(s)), 1))

ProcessesAfter(s) ==
    IF Percent(s) = Unknown THEN procCapacity
    ELSE MoveTowards(procCapacity, ProcessTarget(NextMode(s)), 1)

-----------------------------------------------------------------------------
(* The steps.                                                              *)

Observe(s) ==
    /\ memCapacity' = MemoryAfter(s)
    /\ procCapacity' = ProcessesAfter(s)
    /\ mode' = NextMode(s)
    /\ healthy' = NextHealthy(s)
    /\ since' = IF CriticalSignal(s) THEN 0 ELSE Least(since + 1, 6)
    /\ streak' = IF Percent(s) >= 15 THEN Least(streak + 1, 3) ELSE 0
    /\ reduced' = IF CriticalSignal(s) THEN memCapacity'
                  ELSE IF NextMode(s) = "Critical" THEN reduced ELSE 0
    /\ UNCHANGED <<memUsed, procUsed, held>>

CapacityFeedback(s) ==
    /\ steady.settled => s.total = steady.total /\ s.available = steady.available
    /\ Observe(s)
    /\ UNCHANGED steady

\* admit of a request for m units of memory and the one process every Python
\* caller asks for; background work waits while memory is critical.
Admit(m, background) ==
    /\ ~steady.settled
    /\ ~(mode = "Critical" /\ background)
    /\ memUsed + m <= memCapacity
    /\ procUsed + 1 <= procCapacity
    /\ memUsed' = memUsed + m
    /\ procUsed' = procUsed + 1
    /\ held' = [held EXCEPT ![m] = @ + 1]
    /\ UNCHANGED <<memCapacity, procCapacity, mode, healthy, steady, history>>

\* release_fenced of one of the leases of size m.
Release(m) ==
    /\ ~steady.settled
    /\ held[m] > 0
    /\ memUsed' = Greatest(memUsed - m, 0)
    /\ procUsed' = Greatest(procUsed - 1, 0)
    /\ held' = [held EXCEPT ![m] = @ - 1]
    /\ UNCHANGED <<memCapacity, procCapacity, mode, healthy, steady, history>>

\* From here on the host looks the same, and no work comes or goes.
Settle(s) ==
    /\ ~steady.settled
    /\ steady' = [total |-> s.total, available |-> s.available, settled |-> TRUE]
    /\ UNCHANGED <<controller, history>>

Init ==
    /\ memCapacity = BaselineMemory
    /\ memUsed = 0
    /\ procCapacity = InitialProcesses
    /\ procUsed = 0
    /\ mode = "Normal"
    /\ healthy = 0
    /\ held = [m \in Sizes |-> 0]
    /\ steady = NotSteady
    /\ since = 6
    /\ streak = 0
    /\ reduced = 0

Next ==
    \/ \E s \in Samples : CapacityFeedback(s) \/ Settle(s)
    \/ \E m \in Sizes : Release(m) \/ \E background \in BOOLEAN : Admit(m, background)

Spec == Init /\ [][Next]_vars

\* Every submit, retry and poll takes a sample, and a waiting client polls
\* every 50 ms.
FairSpec == Spec /\ WF_vars(\E s \in Samples : CapacityFeedback(s))

-----------------------------------------------------------------------------
(* Properties.                                                             *)

\* Each variable keeps the type and range of the field it models.
TypeOK ==
    /\ memCapacity \in 0 .. BaselineMemory
    /\ memUsed \in Nat
    /\ procCapacity \in 1 .. MaxProcesses
    /\ procUsed \in Nat
    /\ mode \in {"Normal", "Guarded", "Critical"}
    /\ healthy \in 0 .. 2
    /\ held \in [Sizes -> Nat]

\* Each capacity is used the way the runtime's admission assumes: a sample
\* "cannot revoke an active lease".
Memory == INSTANCE CapacityEnvelope WITH
    Most <- BaselineMemory, capacity <- memCapacity, used <- memUsed

Processes == INSTANCE CapacityEnvelope WITH
    Most <- MaxProcesses, capacity <- procCapacity, used <- procUsed

\* Memory admission keeps every promise of the envelope.
MemoryEnvelope == Memory!Spec

\* Process admission keeps every promise of the envelope.
ProcessEnvelope == Processes!Spec

\* "Keep the reduced headroom while the recovery hysteresis is collecting
\* healthy samples": the headroom is what the last critical sample left.
CriticalHoldsReduced == mode = "Critical" => memCapacity = reduced

\* The pressure state relaxes one level at a time: out of critical after
\* three samples in a row with 15% or more, and back to normal no sooner
\* than six samples after the last critical one.
RelaxesSlowly ==
    [][/\ mode = "Critical" /\ mode' # "Critical" => mode' = "Guarded" /\ streak' >= 3
       /\ mode = "Guarded" /\ mode' = "Normal" => since' >= 6]_vars

\* "Do not let one earlier low sample permanently poison admission": on a
\* steady host (but for the band below 15% that keeps a critical state
\* critical) the memory capacity comes back to
\* what the host's free memory allows.
HeadroomRecovers ==
    (/\ steady.settled
     /\ Percent(steady) # Unknown
     /\ Percent(steady) \notin 10 .. 14)
        ~> memCapacity = MemoryTarget(steady)

\* A host that stays healthy ends in the normal state at full process width.
HealthyHostIsNormal ==
    steady.settled /\ Percent(steady) >= 35
        ~> mode = "Normal" /\ procCapacity = MaxProcesses

\* After any sequence of samples the capacities and the pressure state come back
\* when the host does (capacity_feedback, update_memory_pressure_state).
HostRecovers == HeadroomRecovers /\ HealthyHostIsNormal
=============================================================================
