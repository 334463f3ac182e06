---------------------------- MODULE LeastElement ----------------------------
(* A set of natural numbers has a least element: what find() relies on.    *)
EXTENDS Naturals, FiniteSetTheorems, TLAPS

\* (The sets 0 .. x - 1 of its elements x are well-founded under strict
\* inclusion.)
LEMMA LeastExists ==
    ASSUME NEW S \in SUBSET Nat, S # {}
    PROVE  \E x \in S : \A y \in S : x <= y
<1>. DEFINE Initials == {0 .. x - 1 : x \in S}
            Within == StrictSubsetOrdering(Nat)
<1>1. Initials \subseteq FiniteSubsetsOf(Nat) /\ Initials # {}
  <2>1. ASSUME NEW x \in S PROVE 0 .. x - 1 \in FiniteSubsetsOf(Nat)
    <3>1. IsFiniteSet(0 .. x - 1)
      BY FS_Interval
    <3>. QED BY <3>1 DEF FiniteSubsetsOf
  <2>2. PICK x \in S : TRUE
    OBVIOUS
  <2>. QED BY <2>1, <2>2
<1>2. PICK least \in Initials : \A I \in Initials : <<I, least>> \notin Within
  <2>. HIDE DEF Initials
  <2>. QED BY <1>1, FS_StrictSubsetOrderingWellFounded, WFMin, Zenon
<1>3. PICK x \in S : least = 0 .. x - 1
  OBVIOUS
<1>4. ASSUME NEW y \in S PROVE x <= y
  <2>1. <<0 .. y - 1, 0 .. x - 1>> \notin Within
    BY <1>2, <1>3
  <2>2. SUFFICES ASSUME y < x PROVE FALSE
    OBVIOUS
  <2>3. 0 .. y - 1 \subseteq 0 .. x - 1 /\ y \in 0 .. x - 1 /\ y \notin 0 .. y - 1
    BY <2>2
  <2>4. 0 .. y - 1 # 0 .. x - 1
    BY <2>3
  <2>5. 0 .. y - 1 \in SUBSET Nat /\ 0 .. x - 1 \in SUBSET Nat
    OBVIOUS
  <2>. QED
    BY <2>1, <2>3, <2>4, <2>5 DEF StrictSubsetOrdering
<1>. QED
  BY <1>4
=============================================================================
