------------------------------ MODULE MCNative ------------------------------
(***************************************************************************)
(* The small instance of NativeStores.                                     *)
(***************************************************************************)
EXTENDS NativeStores

CONSTANTS a, b, c, d, la, lb, p, q

FourAcquisitions == {a, b, c, d}
TwoLoops == {la, lb}
\* Two coroutines on each loop, so that a grant may cross or stay.
TwoEach == (a :> la) @@ (b :> la) @@ (c :> lb) @@ (d :> lb)

\* The last request of these does not fit beside the second one.
Amount(s, t, f) == [slots |-> s, tier |-> t, buffer |-> f]
ThreeReservations == {Amount(1, 0, 0), Amount(1, 1, 1), Amount(0, 2, 0)}
\* Room for several, for one, and none: others use more than there is.
ThreeInventories ==
  {[slots |-> 2, tier |-> 3, base |-> Amount(0, 1, 0)],
   [slots |-> 1, tier |-> 2, base |-> Amount(0, 0, 0)],
   [slots |-> 1, tier |-> 0, base |-> Amount(0, 1, 0)]}

\* One payload fits twice in the arena, the other once.
Sizes == (p :> 1) @@ (q :> 2)

\* The callers of McpStdioProvider differ in name only.
CallerSymmetry == Permutations(Callers)
=============================================================================
