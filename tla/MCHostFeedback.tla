--------------------------- MODULE MCHostFeedback ---------------------------
(* Small instances of HostFeedback for TLC.                                *)
EXTENDS HostFeedback

\* A host of 20 units: nothing free, each side of the thresholds at 10, 15,
\* 25 and 35 percent, plenty, and the samples with a part unknown.
AllSamples ==
    [total: {20}, available: {0, 1, 2, 3, 4, 5, 6, 7, 18}] \cup
    {[total |-> Unknown, available |-> Unknown], [total |-> Unknown, available |-> 3],
     [total |-> 20, available |-> Unknown]}

TwoSizes == {2, 5}
=============================================================================
