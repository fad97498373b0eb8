------------------------------- MODULE Totals -------------------------------
(***************************************************************************)
(* Sums of natural numbers, counted unit by unit: a sum is the size of a   *)
(* set, so that the theorems about finite sets apply to it.                *)
(***************************************************************************)
EXTENDS Naturals, FiniteSets

\* The units that the elements of S have, as many for x as amount[x].
Units(S, amount) == UNION {{x} \X (1 .. amount[x]) : x \in S}

\* The sum of amount[x] over the elements x of the finite set S.
Total(S, amount) == Cardinality(Units(S, amount))
=============================================================================
