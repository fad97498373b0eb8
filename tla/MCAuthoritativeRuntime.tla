----------------------- MODULE MCAuthoritativeRuntime -----------------------
(* Small instances of AuthoritativeRuntime for TLC.                        *)
EXTENDS AuthoritativeRuntime

CONSTANTS t1, t2, t3, cpu, python

TwoTasks == {t1, t2}
ThreeTasks == {t1, t2, t3}
TaskSymmetry == Permutations(Tasks)

BothLanes == {cpu, python}
OneEach == (cpu :> 1) @@ (python :> 1)

Ask(lane, units, background, supported, deadline) ==
    [lane |-> lane, units |-> units, background |-> background,
     supported |-> supported, deadline |-> deadline]

\* Retries: a plain request and one with a deadline of its own, on one lane.
RetryShapes == {Ask(cpu, 1, FALSE, TRUE, Never), Ask(cpu, 2, TRUE, TRUE, 2)}
RetryHardDeadlines == {Never, 3}

\* Contention: two lanes, a request that needs all the capacity, and one
\* that no accelerator of the host supports.
QueueShapes == {Ask(cpu, 1, FALSE, TRUE, Never), Ask(python, 2, TRUE, TRUE, 1),
                Ask(python, 1, FALSE, FALSE, Never)}
NoHardDeadline == {Never}

=============================================================================
