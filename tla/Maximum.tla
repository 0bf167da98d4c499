------------------------------ MODULE Maximum -------------------------------
(***************************************************************************)
(* Max of FiniteSetsExt, which chooses a member of the set that is at least *)
(* every other: there is one in each finite set of numbers that is not     *)
(* empty.                                                                  *)
(***************************************************************************)
EXTENDS Integers, FiniteSetsExt, FiniteSetTheorems, TLAPS

\* A finite set of numbers that has an element has a greatest one, and that is its Max:
\* the elements above it are fewer than those above any other.
LEMMA Greatest ==
    ASSUME NEW S \in SUBSET Int, IsFiniteSet(S), S # {}
    PROVE  Max(S) \in S /\ \A x \in S : x <= Max(S)
<1>1. PICK F : F = {{y \in S : y > x} : x \in S}
  OBVIOUS
<1>2. ASSUME NEW T \in F PROVE T \in FiniteSubsetsOf(S)
  <2>1. T \in SUBSET S
    BY <1>1
  <2>2. IsFiniteSet(T)
    BY <2>1, FS_Subset
  <2> QED BY <2>1, <2>2 DEF FiniteSubsetsOf
<1>3. F \subseteq FiniteSubsetsOf(S) /\ F # {}
  BY <1>1, <1>2
<1>4. PICK T \in F : \A U \in F : ~ (<<U, T>> \in StrictSubsetOrdering(S))
  BY <1>3, WFMin, FS_StrictSubsetOrderingWellFounded
<1>5. PICK x \in S : T = {y \in S : y > x}
  BY <1>1
<1>6. ASSUME NEW y \in S PROVE y <= x
  <2>1. SUFFICES ASSUME y > x PROVE FALSE
    OBVIOUS
  <2>2. PICK U : U = {z \in S : z > y}
    OBVIOUS
  <2>3. U \in F
    BY <1>1, <2>2
  <2>4. \A z \in S : z > y => z > x
    BY <2>1
  <2>5. y \in T /\ y \notin U
    BY <1>5, <2>1, <2>2
  <2>6. U \in SUBSET S /\ T \in SUBSET S /\ U \subseteq T
    BY <1>5, <2>2, <2>4
  <2>7. <<U, T>> \in StrictSubsetOrdering(S)
    BY <2>5, <2>6 DEF StrictSubsetOrdering
  <2> QED BY <1>4, <2>3, <2>7
<1> QED BY <1>6 DEF Max
=============================================================================
