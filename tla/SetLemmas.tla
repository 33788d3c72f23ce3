----------------------------- MODULE SetLemmas -----------------------------
(***************************************************************************)
(* Facts about finite sets that the proofs of several modules rest on.     *)
(***************************************************************************)
EXTENDS Integers, FiniteSetsExt, FiniteSetTheorems, WellFoundedInduction, TLAPS

(* Among subsets of a finite set one is smallest.  With a smallest         *)
(* counterexample it takes the place of induction.                         *)
LEMMA SmallestSubset ==
    ASSUME NEW S, IsFiniteSet(S), NEW B, B \subseteq SUBSET S, B # {}
    PROVE  \E m \in B : \A t \in B : t \subseteq m => t = m
<1>1. IsWellFoundedOn(StrictSubsetOrdering(S), SUBSET S)
  BY FS_StrictSubsetOrderingWellFounded, FS_FiniteSubsetsOfFinite
<1>2. PICK m \in B : \A t \in B : ~(<<t, m>> \in StrictSubsetOrdering(S))
  BY <1>1, WFMin
<1>3. ASSUME NEW t \in B, t \subseteq m, t # m PROVE FALSE
  <2>1. <<t, m>> \in StrictSubsetOrdering(S)
    BY <1>3 DEF StrictSubsetOrdering
  <2> QED  BY <1>2, <2>1
<1>4. \A t \in B : t \subseteq m => t = m
  BY <1>3
<1> QED  BY <1>4

(* The smaller one of two numbers.                                         *)
LEMMA MinOfTwo ==
    ASSUME NEW a \in Int, NEW b \in Int
    PROVE  Min({a, b}) = IF a <= b THEN a ELSE b
BY DEF Min

(* The larger one.                                                         *)
LEMMA MaxOfTwo ==
    ASSUME NEW a \in Int, NEW b \in Int
    PROVE  Max({a, b}) = IF a >= b THEN a ELSE b
BY DEF Max

(* A finite set of numbers has a largest and a smallest member.            *)
LEMMA LargestExists ==
    ASSUME NEW S, IsFiniteSet(S), S \subseteq Int, S # {}
    PROVE  \E x \in S : \A y \in S : x >= y
<1> DEFINE Has(T) == \E x \in T : \A y \in T : x >= y
           B == {T \in SUBSET S : T # {} /\ ~Has(T)}
<1> SUFFICES ASSUME ~Has(S) PROVE FALSE
  OBVIOUS
<1> HIDE DEF Has
<1>0. S \in B
  OBVIOUS
<1>1. B \subseteq SUBSET S /\ B # {}
  BY <1>0
<1> HIDE DEF B
<1>2. PICK m \in B : \A t \in B : t \subseteq m => t = m
  BY ONLY IsFiniteSet(S), <1>1, SmallestSubset
<1> USE DEF Has
<1>3. m \subseteq S /\ m # {} /\ ~ \E x \in m : \A y \in m : x >= y
  BY <1>2 DEF B
<1>4. PICK x \in m : TRUE
  BY <1>3
<1> DEFINE r == m \ {x}
<1>5. r \subseteq m /\ r # m /\ r \subseteq S
  BY <1>3, <1>4
<1>6. CASE r = {}
  <2>1. \A y \in m : y = x
    BY <1>6
  <2>2. x \in Int
    BY <1>3
  <2> QED  BY <1>3, <2>1, <2>2
<1>7. CASE r # {}
  <2>1. PICK z \in r : \A y \in r : z >= y
    BY <1>2, <1>5, <1>7 DEF B
  <2>2. \A y \in m : y = x \/ z >= y
    BY <2>1
  <2>3. x \in Int /\ z \in Int /\ z \in m /\ \A y \in m : y \in Int
    BY <1>3, <2>1
  <2>4. CASE z >= x
    BY <1>3, <2>2, <2>3, <2>4
  <2>5. CASE ~(z >= x)
    <3>1. \A y \in m : x >= y
      BY <2>2, <2>3, <2>5
    <3> QED  BY <1>3, <3>1
  <2> QED  BY <2>4, <2>5
<1> QED  BY <1>6, <1>7

(* It is what Max chooses.                                                 *)
LEMMA LargestIsMax ==
    ASSUME NEW S, IsFiniteSet(S), S \subseteq Int, S # {}
    PROVE  Max(S) \in S /\ \A y \in S : Max(S) >= y
BY LargestExists DEF Max

(* Likewise a smallest one.                                                *)
LEMMA SmallestExists ==
    ASSUME NEW S, IsFiniteSet(S), S \subseteq Int, S # {}
    PROVE  \E x \in S : \A y \in S : x <= y
<1> DEFINE Has(T) == \E x \in T : \A y \in T : x <= y
           B == {T \in SUBSET S : T # {} /\ ~Has(T)}
<1> SUFFICES ASSUME ~Has(S) PROVE FALSE
  OBVIOUS
<1> HIDE DEF Has
<1>0. S \in B
  OBVIOUS
<1>1. B \subseteq SUBSET S /\ B # {}
  BY <1>0
<1> HIDE DEF B
<1>2. PICK m \in B : \A t \in B : t \subseteq m => t = m
  BY ONLY IsFiniteSet(S), <1>1, SmallestSubset
<1> USE DEF Has
<1>3. m \subseteq S /\ m # {} /\ ~ \E x \in m : \A y \in m : x <= y
  BY <1>2 DEF B
<1>4. PICK x \in m : TRUE
  BY <1>3
<1> DEFINE r == m \ {x}
<1>5. r \subseteq m /\ r # m /\ r \subseteq S
  BY <1>3, <1>4
<1>6. CASE r = {}
  <2>1. \A y \in m : y = x
    BY <1>6
  <2>2. x \in Int
    BY <1>3
  <2> QED  BY <1>3, <2>1, <2>2
<1>7. CASE r # {}
  <2>1. PICK z \in r : \A y \in r : z <= y
    BY <1>2, <1>5, <1>7 DEF B
  <2>2. \A y \in m : y = x \/ z <= y
    BY <2>1
  <2>3. x \in Int /\ z \in Int /\ z \in m /\ \A y \in m : y \in Int
    BY <1>3, <2>1
  <2>4. CASE z <= x
    BY <1>3, <2>2, <2>3, <2>4
  <2>5. CASE ~(z <= x)
    <3>1. \A y \in m : x <= y
      BY <2>2, <2>3, <2>5
    <3> QED  BY <1>3, <3>1
  <2> QED  BY <2>4, <2>5
<1> QED  BY <1>6, <1>7

(* Sets of positions in a list are finite.                                 *)
LEMMA PartOfInterval ==
    ASSUME NEW a \in Int, NEW b \in Int, NEW S, S \subseteq a .. b
    PROVE  IsFiniteSet(S) /\ S \subseteq Int
<1> DEFINE I == a .. b
<1>1. IsFiniteSet(I)
  BY FS_Interval
<1>2. S \subseteq Int
  OBVIOUS
<1>3. S \in SUBSET I
  OBVIOUS
<1> HIDE DEF I
<1>4. IsFiniteSet(S)
  BY ONLY <1>1, <1>3, FS_Subset
<1> QED  BY <1>2, <1>4
=============================================================================
