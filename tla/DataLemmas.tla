----------------------------- MODULE DataLemmas -----------------------------
(* Facts about the sequences and the sums the models are built from.       *)
EXTENDS Integers, Sequences, SequencesExt, Totals, SequenceTheorems, FiniteSetTheorems,
        WellFoundedInduction, TLAPS

\* A set of numbers has a least element (the order of Nat is well-founded).
LEMMA HasLeast ==
    ASSUME NEW S, S \subseteq Nat, S # {}
    PROVE  \E m \in S : \A n \in S : m <= n
  <1>1. PICK R : R = OpToRel(<, Nat)
    BY Zenon
  <1>2. IsWellFoundedOn(R, Nat)
    BY <1>1, Zenon, NatLessThanWellFounded
  <1>3. PICK m \in S : \A n \in S : <<n, m>> \notin R
    BY <1>2, WFMin
  <1>4. \A i, j \in Nat : i < j => <<i, j>> \in R
    BY <1>1 DEF OpToRel
  <1>5. \A n \in S : ~(n < m)
    BY <1>3, <1>4
  <1> QED BY <1>3, <1>5

\* Removing position i moves the later elements down by one.
LEMMA RemoveAtProperties ==
    ASSUME NEW S, NEW s \in Seq(S), NEW i \in 1 .. Len(s)
    PROVE  /\ RemoveAt(s, i) \in Seq(S)
           /\ Len(RemoveAt(s, i)) = Len(s) - 1
           /\ \A j \in 1 .. Len(s) - 1 :
                 RemoveAt(s, i)[j] = IF j < i THEN s[j] ELSE s[j + 1]
  <1> DEFINE a == SubSeq(s, 1, i - 1)
             b == SubSeq(s, i + 1, Len(s))
  <1>1. /\ a \in Seq(S) /\ Len(a) = i - 1
        /\ \A j \in 1 .. i - 1 : a[j] = s[j]
    <2>1. \A j \in 1 .. i - 1 : s[j] \in S
      OBVIOUS
    <2> QED BY <2>1, SubSeqProperties
  <1>2. /\ b \in Seq(S) /\ Len(b) = Len(s) - i
        /\ \A j \in 1 .. Len(s) - i : b[j] = s[i + j]
    <2>1. \A j \in i + 1 .. Len(s) : s[j] \in S
      OBVIOUS
    <2> QED BY <2>1, SubSeqProperties
  <1> DEFINE c == a \o b
  <1>3. RemoveAt(s, i) = c
    BY DEF RemoveAt
  <1> HIDE DEF a, b
  <1>4. /\ c \in Seq(S) /\ Len(c) = Len(a) + Len(b)
        /\ \A j \in 1 .. Len(a) + Len(b) :
              c[j] = IF j <= Len(a) THEN a[j] ELSE b[j - Len(a)]
    BY <1>1, <1>2, ConcatProperties
  <1> HIDE DEF c
  <1>5. Len(c) = Len(s) - 1
    BY <1>1, <1>2, <1>4
  <1>6. \A j \in 1 .. Len(s) - 1 : c[j] = IF j < i THEN s[j] ELSE s[j + 1]
    <2> SUFFICES ASSUME NEW j \in 1 .. Len(s) - 1
                 PROVE  /\ j < i => c[j] = s[j]
                        /\ ~(j < i) => c[j] = s[j + 1]
      OBVIOUS
    <2>1. Len(s) \in Nat /\ j \in 1 .. Len(a) + Len(b)
      BY <1>1, <1>2
    <2>2. CASE j < i
      BY <1>1, <1>4, <2>1, <2>2
    <2>3. CASE ~(j < i)
      <3>1. j - Len(a) \in 1 .. Len(s) - i /\ i + (j - Len(a)) = j + 1
        BY <1>1, <2>1, <2>3
      <3>2. c[j] = b[j - Len(a)]
        BY <1>1, <1>4, <2>1, <2>3
      <3> QED BY <1>2, <2>3, <3>1, <3>2
    <2> QED BY <2>2, <2>3
  <1> QED BY <1>3, <1>4, <1>5, <1>6, Zenon
-----------------------------------------------------------------------------
(* Sums.                                                                   *)

\* The sum over no elements.
LEMMA TotalOfNone == ASSUME NEW f PROVE Total({}, f) = 0
  <1>1. Units({}, f) = {}
    BY DEF Units
  <1> QED BY <1>1, FS_EmptySet DEF Total

\* Only the amounts of the elements count.
LEMMA TotalSame ==
    ASSUME NEW S, NEW f, NEW g, \A x \in S : f[x] = g[x]
    PROVE  Total(S, f) = Total(S, g)
  <1>1. Units(S, f) = Units(S, g)
    BY DEF Units
  <1> QED BY <1>1 DEF Total

\* The units of a finite set are finitely many.
LEMMA UnitsFinite ==
    ASSUME NEW S, IsFiniteSet(S), NEW f, \A x \in S : f[x] \in Nat
    PROVE  IsFiniteSet(Units(S, f)) /\ Total(S, f) \in Nat
  <1> DEFINE own == [x \in S |-> {x} \X (1 .. f[x])]
             sets == {{x} \X (1 .. f[x]) : x \in S}
  <1>1. \A T \in sets : IsFiniteSet(T)
    <2> SUFFICES ASSUME NEW x \in S PROVE IsFiniteSet({x} \X (1 .. f[x]))
      OBVIOUS
    <2>1. IsFiniteSet({x})
      BY FS_Singleton
    <2>2. IsFiniteSet(1 .. f[x])
      BY FS_Interval
    <2> QED BY <2>1, <2>2, FS_Product
  <1>2. own \in Surjection(S, sets)
    BY DEF Surjection
  <1>3. IsFiniteSet(sets)
    BY <1>2, FS_Surjection
  <1>4. IsFiniteSet(Units(S, f))
    BY <1>1, <1>3, FS_UNION DEF Units
  <1> QED BY <1>4, FS_CardinalityType DEF Total

\* One element more adds its amount.
LEMMA TotalAdd ==
    ASSUME NEW S, IsFiniteSet(S), NEW x, x \notin S,
           NEW f, \A y \in S \cup {x} : f[y] \in Nat
    PROVE  Total(S \cup {x}, f) = Total(S, f) + f[x]
  <1> DEFINE own == {x} \X (1 .. f[x])
  <1>1. IsFiniteSet(Units(S, f)) /\ Total(S, f) \in Nat
    BY UnitsFinite
  <1>2. IsFiniteSet({x}) /\ Cardinality({x}) = 1
    BY FS_Singleton
  <1>3. f[x] \in Nat
    OBVIOUS
  <1>4. IsFiniteSet(1 .. f[x]) /\ Cardinality(1 .. f[x]) = f[x]
    <2>1. /\ IsFiniteSet(1 .. f[x])
          /\ Cardinality(1 .. f[x]) = IF 1 > f[x] THEN 0 ELSE f[x] - 1 + 1
      BY <1>3, FS_Interval
    <2> QED BY <1>3, <2>1
  <1>5. IsFiniteSet(own) /\ Cardinality(own) = f[x]
    BY <1>2, <1>3, <1>4, FS_Product
  <1>6. Units(S \cup {x}, f) = Units(S, f) \cup own
    BY DEF Units
  <1>7. Units(S, f) \cap own = {}
    BY DEF Units
  <1> HIDE DEF own
  <1>8. Cardinality(Units(S, f) \cup own)
          = Cardinality(Units(S, f)) + Cardinality(own) - Cardinality(Units(S, f) \cap own)
    BY <1>1, <1>5, FS_Union
  <1>9. Cardinality(Units(S, f) \cap own) = 0
    BY <1>7, FS_EmptySet
  <1>10. Cardinality(Units(S, f)) \in Nat
    BY <1>1 DEF Total
  <1>11. Cardinality(Units(S, f) \cup own) = Cardinality(Units(S, f)) + f[x]
    BY <1>3, <1>5, <1>8, <1>9, <1>10
  <1> QED BY <1>6, <1>11 DEF Total

\* One element less takes its amount away, which the sum had.
LEMMA TotalRemove ==
    ASSUME NEW S, IsFiniteSet(S), NEW x \in S, NEW f, \A y \in S : f[y] \in Nat
    PROVE  /\ Total(S \ {x}, f) = Total(S, f) - f[x]
           /\ f[x] <= Total(S, f)
  <1> DEFINE rest == S \ {x}
  <1>1. IsFiniteSet(rest)
    BY FS_RemoveElement
  <1>2. S = rest \cup {x} /\ x \notin rest /\ \A y \in rest \cup {x} : f[y] \in Nat
    OBVIOUS
  <1> HIDE DEF rest
  <1>3. Total(rest \cup {x}, f) = Total(rest, f) + f[x]
    BY <1>1, <1>2, TotalAdd
  <1>4. Total(rest, f) \in Nat /\ f[x] \in Nat
    BY <1>1, <1>2, UnitsFinite
  <1>5. Total(S, f) = Total(rest, f) + f[x]
    BY <1>2, <1>3
  <1>6. Total(rest, f) = Total(S, f) - f[x] /\ f[x] <= Total(S, f)
    BY <1>4, <1>5
  <1> QED BY <1>6 DEF rest
=============================================================================
