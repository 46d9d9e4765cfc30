------------------------------ MODULE Extrema ------------------------------
(***************************************************************************)
(* Minima and maxima of sets of naturals, for the proofs about SymbolTable *)
(* and TexlerFile, which take the first node of a chain and the next end   *)
(* of a line.                                                              *)
(***************************************************************************)
EXTENDS Integers, FiniteSets, FiniteSetsExt, FiniteSetTheorems,
        WellFoundedInduction, FunctionTheorems, TLAPS

\* A nonempty set of naturals has a least element, and Min is it.
LEMMA MinIsLeast ==
    ASSUME NEW S \in SUBSET Nat, S # {}
    PROVE  Min(S) \in S /\ \A y \in S : Min(S) <= y
<1> DEFINE R == {p \in Nat \X Nat : p[1] < p[2]}
<1>1. IsWellFoundedOn(R, Nat)
  BY NatLessThanWellFounded DEF OpToRel
<1>2. PICK x \in S : \A y \in S : ~(<<y, x>> \in R)
  <2> HIDE DEF R
  <2> QED BY <1>1, WFMin
<1>3. \A y \in S : x <= y
  <2> TAKE y \in S
  <2>1. ~(<<y, x>> \in R)
    BY <1>2
  <2>2. y \in Nat /\ x \in Nat
    OBVIOUS
  <2>3. ~(y < x)
    BY <2>1, <2>2
  <2> QED BY <2>2, <2>3
<1> QED
  BY <1>3 DEF Min

\* The sets of n naturals without a greatest element.
Unbounded(n) ==
    {S \in SUBSET Nat : /\ IsFiniteSet(S) /\ S # {} /\ Cardinality(S) = n
                       /\ \A x \in S : \E y \in S : ~(y <= x)}

\* A finite nonempty set of naturals has a greatest element, and Max is it.
LEMMA MaxIsGreatest ==
    ASSUME NEW S \in SUBSET Nat, S # {}, IsFiniteSet(S)
    PROVE  Max(S) \in S /\ \A y \in S : y <= Max(S)
<1>1. ASSUME NEW n \in Nat, Unbounded(n) # {} PROVE FALSE
  <2> DEFINE C == {k \in Nat : Unbounded(k) # {}}
  <2>1. C \in SUBSET Nat /\ C # {}
    BY <1>1
  <2> DEFINE m == Min(C)
  <2>2. m \in C /\ \A k \in C : m <= k
    <3> HIDE DEF C
    <3> QED BY <2>1, MinIsLeast
  <2> HIDE DEF m
  <2>3. PICK T \in Unbounded(m) : TRUE
    BY <2>2
  <2>4. /\ T \in SUBSET Nat /\ IsFiniteSet(T) /\ T # {} /\ Cardinality(T) = m
        /\ \A x \in T : \E y \in T : ~(y <= x)
    BY <2>3 DEF Unbounded
  <2>5. PICK x \in T : TRUE
    BY <2>4
  <2> DEFINE R == T \ {x}
  <2>6. IsFiniteSet(R) /\ Cardinality(R) = m - 1
    BY <2>4, <2>5, FS_RemoveElement
  <2>7. R \in SUBSET Nat /\ x \in Nat /\ m \in Nat
    BY <2>2, <2>4, <2>5
  <2>8. R # {}
    <3> SUFFICES ASSUME R = {} PROVE FALSE
      OBVIOUS
    <3>1. \A y \in T : y = x
      OBVIOUS
    <3> QED BY <2>4, <2>5, <2>7, <3>1
  <2>9. Cardinality(R) \in Nat
    BY <2>6, FS_CardinalityType
  <2>10. m - 1 \notin C
    BY <2>2, <2>7
  <2>11. R \notin Unbounded(m - 1)
    BY <2>6, <2>9, <2>10
  <2>12. PICK z \in R : \A y \in R : y <= z
    BY <2>6, <2>7, <2>8, <2>11 DEF Unbounded
  <2>13. z \in T /\ z \in Nat
    BY <2>7, <2>12
  <2>14. CASE x <= z
    <3>1. \A y \in T : y <= z
      BY <2>12, <2>14
    <3> QED BY <2>4, <2>13, <3>1
  <2>15. CASE z <= x
    <3>1. \A y \in T : y \in Nat
      BY <2>4
    <3>2. \A y \in T : y <= x
      BY <2>7, <2>12, <2>13, <2>15, <3>1
    <3> QED BY <2>4, <2>5, <3>2
  <2> QED BY <2>7, <2>13, <2>14, <2>15
<1>2. Cardinality(S) \in Nat
  BY FS_CardinalityType
<1>3. S \notin Unbounded(Cardinality(S))
  BY <1>1, <1>2
<1>4. \E x \in S : \A y \in S : y <= x
  BY <1>3 DEF Unbounded
<1> QED
  BY <1>4 DEF Max
============================================================================
