------------------------- MODULE HostFeedbackProofs -------------------------
(***************************************************************************)
(* The host feedback keeps the admission envelope and its hysteresis for   *)
(* every host size, every set of samples and every set of request sizes.   *)
(***************************************************************************)
EXTENDS HostFeedback, TLAPS

\* How far the samples since the last critical one have carried the state.
Hysteresis ==
    /\ since \in 0 .. 6
    /\ streak \in 0 .. 3
    /\ mode = "Normal" => since = 6
    /\ mode = "Guarded" => since >= 3 + healthy
    /\ mode = "Critical" => since >= healthy /\ streak >= healthy

HostInv ==
    /\ TypeOK
    /\ memUsed <= memCapacity
    /\ procUsed <= procCapacity
    /\ Hysteresis
    /\ reduced \in Int
    /\ CriticalHoldsReduced

\* What available_memory_percent returns: nothing, or 0 to 100.
LEMMA PercentType ==
    ASSUME NEW s \in Samples
    PROVE  /\ s.available \in Int /\ s.available >= -1
           /\ Percent(s) \in Int /\ Percent(s) >= -1
           /\ CriticalSignal(s) => s.available # Unknown
<1>1. s.total \in Int /\ s.available \in Int /\ s.total >= -1 /\ s.available >= -1
  BY FeedbackAssumption DEF Unknown
<1>2. ASSUME s.total > 0, s.available # Unknown
      PROVE  (s.available * 100) \div s.total \in Nat
  <2> DEFINE t == s.total
             a == s.available * 100
  <2>1. t \in Nat /\ t > 0 /\ a \in Nat
    BY <1>1, <1>2 DEF Unknown
  <2> HIDE DEF t, a
  <2>2. a \div t \in Nat
    BY <2>1
  <2> QED
    BY <2>2 DEF t, a
<1>3. Percent(s) \in Int /\ Percent(s) >= -1
  BY <1>1, <1>2 DEF Percent, Least, Unknown
<1> QED
  BY <1>1, <1>3 DEF CriticalSignal, Percent, Unknown

\* move_towards stays between where it is and where it is going.
LEMMA MoveStaysBetween ==
    ASSUME NEW c \in Int, NEW t \in Int, NEW k \in Int
    PROVE  /\ MoveTowards(c, t, k) \in Int
           /\ MoveTowards(c, t, k) >= Least(c, t)
           /\ MoveTowards(c, t, k) <= Greatest(c, t)
BY DEF MoveTowards, Least, Greatest

\* The memory capacity stays between what is in use and the baseline.
LEMMA MemoryInRange ==
    ASSUME HostInv, NEW s \in Samples
    PROVE  MemoryAfter(s) \in memUsed .. BaselineMemory
<1> DEFINE step == BaselineMemory \div 4
           free == (s.available * 75) \div 100
<1>1. BaselineMemory \in Nat /\ step \in Int
  BY FeedbackAssumption
<1>2. s.available # Unknown => free \in Nat
  BY PercentType DEF Unknown
<1>3. /\ memUsed \in Nat /\ memCapacity \in Nat
      /\ memUsed <= memCapacity /\ memCapacity <= BaselineMemory
  BY <1>1 DEF HostInv, TypeOK
<1>4. s.available # Unknown => MemoryTarget(s) \in memUsed .. BaselineMemory
  <2> HIDE DEF free
  <2>1. MemoryTarget(s) = Least(memUsed + free, BaselineMemory)
    BY DEF MemoryTarget, free
  <2> QED
    BY <2>1, <1>1, <1>2, <1>3 DEF Least
<1>5. s.available # Unknown
        => MoveTowards(memCapacity, MemoryTarget(s), step) \in memUsed .. BaselineMemory
  <2> HIDE DEF step
  <2>1. ASSUME s.available # Unknown
        PROVE  /\ MemoryTarget(s) \in Int
               /\ MemoryTarget(s) >= memUsed
               /\ MemoryTarget(s) <= BaselineMemory
    BY <2>1, <1>1, <1>3, <1>4
  <2>2. ASSUME s.available # Unknown
        PROVE  MoveTowards(memCapacity, MemoryTarget(s), step) \in memUsed .. BaselineMemory
    <3> DEFINE t == MemoryTarget(s)
    <3>1. t \in Int /\ t >= memUsed /\ t <= BaselineMemory
      BY <2>1, <2>2
    <3> HIDE DEF t
    <3>2. MoveTowards(memCapacity, t, step) \in memUsed .. BaselineMemory
      <4> DEFINE r == MoveTowards(memCapacity, t, step)
      <4>1. r \in Int /\ r >= Least(memCapacity, t) /\ r <= Greatest(memCapacity, t)
        BY <3>1, <1>1, <1>3, MoveStaysBetween
      <4> HIDE DEF r
      <4> QED
        BY <3>1, <4>1, <1>1, <1>3 DEF Least, Greatest, r
    <3> QED
      BY <3>2 DEF t
  <2> QED
    BY <2>2
<1> QED
  BY <1>1, <1>3, <1>4, <1>5, PercentType DEF MemoryAfter

\* The process width stays between what is in use and its maximum.
LEMMA ProcessesInRange ==
    ASSUME HostInv, NEW s \in Samples
    PROVE  ProcessesAfter(s) \in procUsed .. MaxProcesses /\ ProcessesAfter(s) >= 1
<1> DEFINE t == ProcessTarget(NextMode(s))
<1>1. /\ InitialProcesses \in Nat /\ InitialProcesses >= 1
      /\ MaxProcesses \in Nat /\ InitialProcesses <= MaxProcesses
  BY FeedbackAssumption
<1>2. /\ procUsed \in Nat /\ procCapacity \in Nat /\ procCapacity >= 1
      /\ procUsed <= procCapacity /\ procCapacity <= MaxProcesses
  BY <1>1 DEF HostInv, TypeOK
<1>3. t \in Int /\ t >= 1 /\ t <= MaxProcesses /\ t >= procUsed
  BY <1>1, <1>2 DEF ProcessTarget, Least, Greatest
<1> HIDE DEF t
<1> DEFINE r == MoveTowards(procCapacity, t, 1)
<1>4. ProcessesAfter(s) = procCapacity \/ ProcessesAfter(s) = r
  BY DEF ProcessesAfter, t
<1>5. r \in Int /\ r >= Least(procCapacity, t) /\ r <= Greatest(procCapacity, t)
  BY <1>2, <1>3 DEF MoveTowards, Least, Greatest
<1> HIDE DEF r
<1> QED
  BY <1>1, <1>2, <1>3, <1>4, <1>5 DEF Least, Greatest

LEMMA InitHostInv == Init => HostInv
BY FeedbackAssumption
DEF Init, HostInv, TypeOK, Hysteresis, CriticalHoldsReduced

\* A sample preserves the invariant.
LEMMA ObserveStep ==
    ASSUME HostInv, NEW s \in Samples, Observe(s)
    PROVE  HostInv'
<1>1. /\ memCapacity' \in memUsed .. BaselineMemory
      /\ procCapacity' \in procUsed .. MaxProcesses /\ procCapacity' >= 1
      /\ memUsed' = memUsed /\ procUsed' = procUsed /\ held' = held
      /\ memUsed \in Nat /\ procUsed \in Nat /\ held \in [Sizes -> Nat]
  BY MemoryInRange, ProcessesInRange DEF Observe, HostInv, TypeOK
<1>2. /\ BaselineMemory \in Nat /\ MaxProcesses \in Nat
  BY FeedbackAssumption
<1>3. /\ mode \in {"Normal", "Guarded", "Critical"} /\ healthy \in 0 .. 2
      /\ since \in 0 .. 6 /\ streak \in 0 .. 3
  BY DEF HostInv, TypeOK, Hysteresis
<1>4. mode' \in {"Normal", "Guarded", "Critical"} /\ healthy' \in 0 .. 2
  <2>1. mode' \in {"Normal", "Guarded", "Critical"}
    BY <1>3 DEF Observe, NextMode
  <2>2. Healthy(s) => ~CriticalSignal(s) /\ mode # "Normal"
    BY PercentType DEF Healthy, CriticalSignal
  <2>3. Healthy(s) /\ healthy + 1 >= 3 => NextMode(s) # mode
    BY <1>3, <2>2 DEF NextMode
  <2>4. healthy' \in 0 .. 2
    BY <1>3, <2>3 DEF Observe, NextHealthy
  <2> QED
    BY <2>1, <2>4
<1>5. TypeOK'
  BY <1>1, <1>2, <1>4 DEF TypeOK
<1>6. memUsed' <= memCapacity' /\ procUsed' <= procCapacity'
  BY <1>1, <1>2
<1>7. Hysteresis'
  <2>1. since' \in 0 .. 6 /\ streak' \in 0 .. 3
    BY <1>3, PercentType DEF Observe, Least
  <2>2. mode' = "Normal" => since' = 6
    BY <1>3, PercentType DEF Observe, HostInv, Hysteresis, NextMode, Healthy, Least
  <2>3. mode' = "Guarded" => since' >= 3 + healthy'
    BY <1>3, PercentType
    DEF Observe, HostInv, Hysteresis, NextMode, NextHealthy, Healthy, Least
  <2>4. mode' = "Critical" => since' >= healthy' /\ streak' >= healthy'
    BY <1>3, PercentType
    DEF Observe, HostInv, Hysteresis, NextMode, NextHealthy, Healthy, Least, CriticalSignal
  <2> QED
    BY <2>1, <2>2, <2>3, <2>4 DEF Hysteresis
<1>8. CriticalHoldsReduced'
  BY DEF Observe, HostInv, CriticalHoldsReduced, MemoryAfter, NextMode
<1>9. reduced' \in Int
  BY <1>1, <1>2 DEF Observe, HostInv
<1> QED
  BY <1>5, <1>6, <1>7, <1>8, <1>9 DEF HostInv

\* An admission preserves the invariant.
LEMMA AdmitStep ==
    ASSUME HostInv, NEW m \in Sizes, NEW background \in BOOLEAN, Admit(m, background)
    PROVE  HostInv'
<1>1. m \in Nat /\ BaselineMemory \in Nat /\ MaxProcesses \in Nat
  BY FeedbackAssumption
<1> QED
  BY <1>1
  DEF HostInv, TypeOK, Hysteresis, CriticalHoldsReduced, Admit, history

\* A release preserves the invariant.
LEMMA ReleaseStep ==
    ASSUME HostInv, NEW m \in Sizes, Release(m)
    PROVE  HostInv'
<1>1. m \in Nat /\ BaselineMemory \in Nat /\ MaxProcesses \in Nat
  BY FeedbackAssumption
<1>2. held \in [Sizes -> Nat] /\ held[m] > 0
  BY DEF HostInv, TypeOK, Release
<1>3. held' \in [Sizes -> Nat]
  BY <1>2 DEF Release
<1> QED
  BY <1>1, <1>3
  DEF HostInv, TypeOK, Hysteresis, CriticalHoldsReduced, Release, history, Greatest

\* Every step preserves the invariant.
LEMMA HostStep == HostInv /\ [Next]_vars => HostInv'
<1> SUFFICES ASSUME HostInv, [Next]_vars PROVE HostInv'
  OBVIOUS
<1>1. ASSUME NEW s \in Samples, CapacityFeedback(s) PROVE HostInv'
  BY <1>1, ObserveStep DEF CapacityFeedback
<1>2. ASSUME NEW s \in Samples, Settle(s) PROVE HostInv'
  BY <1>2
  DEF Settle, controller, history, HostInv, TypeOK, Hysteresis, CriticalHoldsReduced
<1>3. CASE UNCHANGED vars
  BY <1>3
  DEF vars, controller, history, HostInv, TypeOK, Hysteresis, CriticalHoldsReduced
<1> QED
  BY <1>1, <1>2, <1>3, AdmitStep, ReleaseStep DEF Next

LEMMA HostInvariant == Spec => []HostInv
BY InitHostInv, HostStep, PTL DEF Spec

\* Every quantity of the controller keeps its type and range: the capacities
\* never exceed what the host started with or may grow to, at least one
\* process can always run, and the count of healthy samples stays below three.
THEOREM HostTypeCorrect == Spec => []TypeOK
<1>1. HostInv => TypeOK
  BY DEF HostInv
<1> QED
  BY <1>1, HostInvariant, PTL

\* Headroom taken away by a critical sample is not given back before the
\* pressure state leaves critical.
THEOREM ReducedHeadroomIsHeld == Spec => []CriticalHoldsReduced
<1>1. HostInv => CriticalHoldsReduced
  BY DEF HostInv
<1> QED
  BY <1>1, HostInvariant, PTL

\* The memory half of capacity_feedback, admit and release implements the
\* envelope: no sample takes memory from an active lease.
THEOREM MemoryKeepsEnvelope == Spec => MemoryEnvelope
<1>1. Init => Memory!Init
  BY FeedbackAssumption DEF Init, Memory!Init
<1>2. HostInv /\ [Next]_vars => [Memory!Next]_<<memCapacity, memUsed>>
  <2> SUFFICES ASSUME HostInv, [Next]_vars
               PROVE  [Memory!Next]_<<memCapacity, memUsed>>
    OBVIOUS
  <2> USE DEF Memory!Next, Memory!Take, Memory!Give, Memory!Adapt
  <2>1. ASSUME NEW s \in Samples, CapacityFeedback(s)
        PROVE  Memory!Adapt
    BY <2>1, MemoryInRange DEF CapacityFeedback, Observe
  <2>2. ASSUME NEW m \in Sizes, NEW background \in BOOLEAN, Admit(m, background)
        PROVE  Memory!Take
    BY <2>2, FeedbackAssumption DEF Admit, HostInv, TypeOK
  <2>3. ASSUME NEW m \in Sizes, Release(m)
        PROVE  Memory!Give
    BY <2>3, FeedbackAssumption DEF Release, HostInv, TypeOK, Greatest
  <2>4. ASSUME NEW s \in Samples, Settle(s)
        PROVE  UNCHANGED <<memCapacity, memUsed>>
    BY <2>4 DEF Settle, controller
  <2>5. CASE UNCHANGED vars
    BY <2>5 DEF vars, controller
  <2> QED
    BY <2>1, <2>2, <2>3, <2>4, <2>5 DEF Next
<1> QED
  BY <1>1, <1>2, HostInvariant, PTL DEF Spec, MemoryEnvelope, Memory!Spec

\* The process half implements the envelope too: no sample takes a process
\* slot from an active lease, and the width never exceeds its maximum.
THEOREM ProcessesKeepEnvelope == Spec => ProcessEnvelope
<1>1. Init => Processes!Init
  BY FeedbackAssumption DEF Init, Processes!Init
<1>2. HostInv /\ [Next]_vars => [Processes!Next]_<<procCapacity, procUsed>>
  <2> SUFFICES ASSUME HostInv, [Next]_vars
               PROVE  [Processes!Next]_<<procCapacity, procUsed>>
    OBVIOUS
  <2> USE DEF Processes!Next, Processes!Take, Processes!Give, Processes!Adapt
  <2>1. ASSUME NEW s \in Samples, CapacityFeedback(s)
        PROVE  Processes!Adapt
    BY <2>1, ProcessesInRange DEF CapacityFeedback, Observe
  <2>2. ASSUME NEW m \in Sizes, NEW background \in BOOLEAN, Admit(m, background)
        PROVE  Processes!Take
    BY <2>2, FeedbackAssumption DEF Admit, HostInv, TypeOK
  <2>3. ASSUME NEW m \in Sizes, Release(m)
        PROVE  Processes!Give
    BY <2>3, FeedbackAssumption DEF Release, HostInv, TypeOK, Greatest
  <2>4. ASSUME NEW s \in Samples, Settle(s)
        PROVE  UNCHANGED <<procCapacity, procUsed>>
    BY <2>4 DEF Settle, controller
  <2>5. CASE UNCHANGED vars
    BY <2>5 DEF vars, controller
  <2> QED
    BY <2>1, <2>2, <2>3, <2>4, <2>5 DEF Next
<1> QED
  BY <1>1, <1>2, HostInvariant, PTL DEF Spec, ProcessEnvelope, Processes!Spec

\* The pressure state relaxes only through the hysteresis of
\* update_memory_pressure_state, whatever the order of the samples.
THEOREM PressureRelaxesSlowly == Spec => RelaxesSlowly
<1> DEFINE Slowly ==
      /\ mode = "Critical" /\ mode' # "Critical" => mode' = "Guarded" /\ streak' >= 3
      /\ mode = "Guarded" /\ mode' = "Normal" => since' >= 6
<1>1. HostInv /\ [Next]_vars => [Slowly]_vars
  <2> SUFFICES ASSUME HostInv, Next PROVE Slowly
    OBVIOUS
  <2>1. /\ mode \in {"Normal", "Guarded", "Critical"} /\ healthy \in 0 .. 2
        /\ since \in 0 .. 6 /\ streak \in 0 .. 3
    BY DEF HostInv, TypeOK, Hysteresis
  <2>2. ASSUME NEW s \in Samples, CapacityFeedback(s) PROVE Slowly
    BY <2>1, <2>2, PercentType
    DEF CapacityFeedback, Observe, HostInv, Hysteresis, NextMode, Healthy, Least
  <2>3. CASE mode' = mode
    BY <2>3
  <2> QED
    BY <2>2, <2>3 DEF Next, Settle, Admit, Release, controller
<1> QED
  BY <1>1, HostInvariant, PTL DEF Spec, RelaxesSlowly

=============================================================================
