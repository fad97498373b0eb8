--------------------------- MODULE MCRuntimeClient ---------------------------
(* Small instances of RuntimeClient for TLC.                               *)
EXTENDS RuntimeClient

CONSTANTS t1, t2, t3, cpu, python

ThreeTasks == {t1, t2, t3}
OneTask == {t1}
TaskSymmetry == Permutations(Tasks)

BothLanes == {cpu, python}
OneEach == (cpu :> 1) @@ (python :> 1)
NoHardDeadline == {Never}

Ask(lane, units, background, deadline) ==
    [lane |-> lane, units |-> units, background |-> background,
     supported |-> TRUE, deadline |-> deadline]

\* Two lanes that can run side by side; the background request may expire.
MixedShapes == {Ask(cpu, 1, FALSE, Never), Ask(python, 1, TRUE, 1)}
\* The second request needs all the capacity.
LastingShapes == {Ask(cpu, 1, FALSE, Never), Ask(python, 2, TRUE, Never)}
ShortShapes == {Ask(cpu, 1, FALSE, 1)}
=============================================================================
