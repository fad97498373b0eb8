-------------------------- MODULE CapacityEnvelope --------------------------
(***************************************************************************)
(* What admission promises about one resource, whatever the host reports:  *)
(* work in progress keeps what it was granted, new work is granted only    *)
(* what is left of the capacity, and the capacity follows the host between *)
(* what is in use and the most the host was measured to have.              *)
(***************************************************************************)
EXTENDS Integers

CONSTANT Most  \* the largest capacity

VARIABLES
    capacity,
    used

Init ==
    /\ capacity \in 0 .. Most
    /\ used = 0

\* New work takes part of what is left.
Take ==
    /\ used' \in used .. capacity
    /\ UNCHANGED capacity

\* Work in progress ends and gives back.
Give ==
    /\ used' \in 0 .. used
    /\ UNCHANGED capacity

\* A sample of the host moves the capacity.
Adapt ==
    /\ capacity' \in used .. Most
    /\ UNCHANGED used

Next == Take \/ Give \/ Adapt

Spec == Init /\ [][Next]_<<capacity, used>>

=============================================================================
