--------------------------- MODULE MetricsProofs ---------------------------
(***************************************************************************)
(* Proofs about Metrics, for any pods, usages, boundaries, thresholds and  *)
(* interval.                                                               *)
(***************************************************************************)
EXTENDS Metrics, SetLemmas, FiniteSetTheorems, SequenceTheorems, TLAPS

-----------------------------------------------------------------------------
(* The median.                                                             *)

(* The usage of a pod is one of its containers', or 0.                     *)
LEMMA PodUsage ==
    ASSUME NEW containers \in SUBSET Usages
    PROVE  /\ GetCPUUsagePercent(containers) \in Usages \cup {0}
           /\ GetCPUUsagePercent(containers) \in Nat
<1> DEFINE S == containers \cup {0}
<1>1. IsFiniteSet(S)
  BY UsagesAssumption, FS_Subset, FS_AddElement
<1>2. S \subseteq Int /\ S # {} /\ S \subseteq Nat
  BY UsagesAssumption
<1>3. Max(S) \in S
  BY <1>1, <1>2, LargestIsMax
<1> QED  BY <1>2, <1>3 DEF GetCPUUsagePercent

Lower(usage, v) == {p \in DOMAIN usage : usage[p] < v}
UpTo(usage, v) == {p \in DOMAIN usage : usage[p] <= v}

(* There is a value in every place of the sorted usages.                   *)
LEMMA NthExists ==
    ASSUME NEW S, IsFiniteSet(S), NEW usage \in [S -> Nat],
           NEW k \in Nat, k < Cardinality(S)
    PROVE  \E v \in {usage[p] : p \in S} :
              /\ Cardinality(Lower(usage, v)) <= k
              /\ Cardinality(UpTo(usage, v)) > k
<1> DEFINE range == {usage[p] : p \in S}
           V == {v \in range : Cardinality(UpTo(usage, v)) > k}
<1>1. IsFiniteSet(range) /\ range \subseteq Int
  <2>1. usage \in Surjection(S, range)
    BY DEF Surjection
  <2>2. range \subseteq Int
    OBVIOUS
  <2> HIDE DEF range
  <2> QED  BY <2>1, <2>2, FS_Surjection
<1>2. S # {}
  BY FS_EmptySet
<1>3. PICK top \in range : \A y \in range : top >= y
  <2>1. range # {}
    BY <1>2
  <2> HIDE DEF range
  <2> QED  BY ONLY <1>1, <2>1, LargestExists
<1>4. UpTo(usage, top) = S
  BY <1>3 DEF UpTo
<1>5. top \in V
  BY <1>3, <1>4
<1>6. IsFiniteSet(V) /\ V \subseteq Int /\ V # {}
  BY <1>1, <1>5, FS_Subset
<1>7. PICK v \in V : \A y \in V : v <= y
  <2> HIDE DEF V
  <2> QED  BY ONLY <1>6, SmallestExists
<1>8. v \in range /\ Cardinality(UpTo(usage, v)) > k /\ v \in Nat
  BY <1>7
<1>9. Cardinality(Lower(usage, v)) <= k
  <2> DEFINE L == {usage[p] : p \in Lower(usage, v)}
  <2>1. Lower(usage, v) \in SUBSET S
    BY DEF Lower
  <2>2. CASE Lower(usage, v) = {}
    BY <2>2, FS_EmptySet
  <2>3. CASE Lower(usage, v) # {}
    <3>1. L \subseteq range /\ L # {} /\ L \subseteq Int
      BY <2>1, <2>3
    <3>2. IsFiniteSet(L)
      BY <1>1, <3>1, FS_Subset
    <3>3. PICK w \in L : \A y \in L : w >= y
      <4> HIDE DEF L
      <4> QED  BY ONLY <3>1, <3>2, LargestExists
    <3>4. w \in range /\ w < v /\ w \in Nat
      BY <3>1, <3>3 DEF Lower
    <3>5. UpTo(usage, w) = Lower(usage, v)
      <4>1. ASSUME NEW p \in UpTo(usage, w) PROVE p \in Lower(usage, v)
        BY <1>8, <3>4, <4>1 DEF UpTo, Lower
      <4>2. ASSUME NEW p \in Lower(usage, v) PROVE p \in UpTo(usage, w)
        <5>1. usage[p] \in L /\ p \in DOMAIN usage
          BY DEF Lower
        <5> QED  BY <3>3, <3>4, <5>1 DEF UpTo
      <4> QED  BY <4>1, <4>2
    <3>6. w \notin V
      <4>1. ~(v <= w)
        BY <1>8, <3>4
      <4> QED  BY <1>7, <4>1
    <3>7. ~(Cardinality(UpTo(usage, w)) > k)
      BY <3>4, <3>6
    <3>8. Cardinality(Lower(usage, v)) \in Nat
      BY <2>1, FS_Subset, FS_CardinalityType
    <3> QED  BY <3>5, <3>7, <3>8
  <2> QED  BY <2>2, <2>3
<1> QED  BY <1>8, <1>9

(* calculateMedian is one of the usages.  If it is above a boundary, more  *)
(* than half of them are; if below, at least half.                         *)
LEMMA MedianIs ==
    ASSUME NEW S, IsFiniteSet(S), S # {}, NEW usage \in [S -> Nat]
    PROVE  /\ CalculateMedian(usage) \in {usage[p] : p \in S}
           /\ CalculateMedian(usage) > UpBoundary
                => 2 * Cardinality({p \in S : usage[p] > UpBoundary})
                     > Cardinality(S)
           /\ CalculateMedian(usage) < DownBoundary
                => 2 * Cardinality({p \in S : usage[p] < DownBoundary})
                     >= Cardinality(S)
<1> DEFINE n == Cardinality(S)
           k == (n - 1) \div 2
           v == CalculateMedian(usage)
<1>1. n \in Nat \ {0}
  BY FS_CardinalityType, FS_EmptySet
<1>2. k \in Nat /\ k < n /\ 2 * k <= n - 1 /\ 2 * (k + 1) >= n
  <2> HIDE DEF n
  <2> QED  BY <1>1
<1>3. DOMAIN usage = S
  OBVIOUS
<1>4. v = CHOOSE x \in {usage[p] : p \in S} :
             /\ Cardinality(Lower(usage, x)) <= k
             /\ Cardinality(UpTo(usage, x)) > k
  BY <1>3 DEF CalculateMedian, NthOf, Lower, UpTo
<1> HIDE DEF v, k
<1>5. /\ v \in {usage[p] : p \in S}
      /\ Cardinality(Lower(usage, v)) <= k /\ Cardinality(UpTo(usage, v)) > k
  BY <1>2, <1>4, NthExists
<1>6. v \in Nat
  BY <1>5
<1>7. ASSUME v > UpBoundary
      PROVE  2 * Cardinality({p \in S : usage[p] > UpBoundary}) > n
  <2> DEFINE above == {p \in S : usage[p] > UpBoundary}
             low == Lower(usage, v)
  <2>1. low \in SUBSET S /\ S \ low \subseteq above /\ above \subseteq S
        /\ S \cap low = low
    BY <1>6, <1>7, BoundaryAssumption DEF Lower
  <2>2. IsFiniteSet(above) /\ IsFiniteSet(low)
    BY <2>1, FS_Subset
  <2> HIDE DEF above, low
  <2>3. Cardinality(S \ low) = n - Cardinality(low)
    BY <2>1, FS_Difference
  <2>4. Cardinality(S \ low) <= Cardinality(above)
    BY <2>1, <2>2, FS_Subset
  <2>5. Cardinality(above) \in Nat /\ Cardinality(low) \in Nat
    BY <2>2, FS_CardinalityType
  <2>6. Cardinality(low) <= k
    BY <1>5 DEF low
  <2> HIDE DEF n
  <2>7. 2 * Cardinality(above) > n
    BY <1>1, <1>2, <2>3, <2>4, <2>5, <2>6
  <2> QED  BY <2>7 DEF above
<1>8. ASSUME v < DownBoundary
      PROVE  2 * Cardinality({p \in S : usage[p] < DownBoundary}) >= n
  <2> DEFINE below == {p \in S : usage[p] < DownBoundary}
             up == UpTo(usage, v)
  <2>1. up \subseteq below /\ below \subseteq S
    BY <1>6, <1>8, BoundaryAssumption DEF UpTo
  <2>2. IsFiniteSet(below)
    BY <2>1, FS_Subset
  <2> HIDE DEF below, up
  <2>3. Cardinality(up) <= Cardinality(below) /\ IsFiniteSet(up)
    BY <2>1, <2>2, FS_Subset
  <2>4. Cardinality(below) \in Nat /\ Cardinality(up) \in Nat
    BY <2>2, <2>3, FS_CardinalityType
  <2>5. Cardinality(up) > k
    BY <1>5 DEF up
  <2> HIDE DEF n
  <2>6. 2 * Cardinality(below) >= n
    BY <1>1, <1>2, <2>3, <2>4, <2>5
  <2> QED  BY <2>6 DEF below
<1> QED  BY <1>5, <1>7, <1>8 DEF v

(* So a sample above or below a boundary speaks for the pods.              *)
LEMMA MeasurementIs ==
    ASSUME NEW m \in Measurements
    PROVE  /\ m \in [value : Usages \cup {0}, mostAbove : BOOLEAN,
                     halfBelow : BOOLEAN]
           /\ m.value > UpBoundary => m.mostAbove
           /\ m.value < DownBoundary => m.halfBelow
<1>0. PICK S \in (SUBSET Pods) \ {{}} : \E c \in [S -> SUBSET Usages] :
         m = Measure([p \in DOMAIN c |-> GetCPUUsagePercent(c[p])])
  BY DEF Measurements
<1>1. PICK c \in [S -> SUBSET Usages] :
         m = Measure([p \in DOMAIN c |-> GetCPUUsagePercent(c[p])])
  BY <1>0
<1> DEFINE usage == [p \in DOMAIN c |-> GetCPUUsagePercent(c[p])]
<1>2. usage \in [S -> Nat] /\ DOMAIN usage = S
      /\ \A p \in S : usage[p] \in Usages \cup {0}
  BY PodUsage
<1>3. IsFiniteSet(S) /\ S # {}
  BY UsagesAssumption, FS_Subset
<1>4. m = Measure(usage)
  BY <1>1
<1> HIDE DEF usage
<1>5. m = [value |-> CalculateMedian(usage),
           mostAbove |-> 2 * Cardinality({p \in S : usage[p] > UpBoundary})
                           > Cardinality(S),
           halfBelow |-> 2 * Cardinality({p \in S : usage[p] < DownBoundary})
                           >= Cardinality(S)]
  BY <1>2, <1>4 DEF Measure
<1>6. CalculateMedian(usage) \in Usages \cup {0}
  <2>1. CalculateMedian(usage) \in {usage[p] : p \in S}
    BY <1>2, <1>3, MedianIs
  <2> QED  BY <1>2, <2>1
<1>7. /\ m.value = CalculateMedian(usage)
      /\ m.mostAbove = (2 * Cardinality({p \in S : usage[p] > UpBoundary})
                           > Cardinality(S))
      /\ m.halfBelow = (2 * Cardinality({p \in S : usage[p] < DownBoundary})
                           >= Cardinality(S))
  BY <1>5
<1>8. m \in [value : Usages \cup {0}, mostAbove : BOOLEAN, halfBelow : BOOLEAN]
  BY <1>5, <1>6
<1> QED  BY <1>2, <1>3, <1>7, <1>8, MedianIs

-----------------------------------------------------------------------------
(* The samples that are kept.  They are in the order of their age, so that *)
(* the loop of storeMedian drops some of the first ones.                   *)

Loop(a, g) ==
    g = [n \in 0 .. Len(a) |->
           IF n = 0 THEN <<>>
           ELSE IF a[n].before <= Threshold THEN Append(g[n - 1], a[n])
           ELSE g[n - 1]]

Ordered(a) ==
    \A i, j \in 1 .. Len(a) : i <= j => a[i].before >= a[j].before

(* The longer threshold is a time.                                         *)
LEMMA ThresholdType == Threshold \in Nat
<1>1. Threshold = IF UpThreshold >= DownThreshold THEN UpThreshold ELSE DownThreshold
  BY ThresholdAssumption, MaxOfTwo DEF Threshold
<1> QED  BY <1>1, ThresholdAssumption

(* From where on samples are kept.                                         *)
LEMMA KeptFrom ==
    ASSUME NEW a, Len(a) \in Nat, \A i \in 1 .. Len(a) : a[i].before \in Nat,
           Ordered(a)
    PROVE  \E lo \in 0 .. Len(a) : \A i \in 1 .. Len(a) :
              a[i].before <= Threshold <=> i > lo
<1> DEFINE D == {i \in 1 .. Len(a) : ~(a[i].before <= Threshold)}
<1>1. CASE D = {}
  <2>1. \A i \in 1 .. Len(a) : a[i].before <= Threshold /\ i > 0
    BY <1>1
  <2>2. 0 \in 0 .. Len(a)
    OBVIOUS
  <2> QED  BY <2>1, <2>2
<1>2. CASE D # {}
  <2>1. IsFiniteSet(D) /\ D \subseteq Int
    <3>1. D \subseteq 1 .. Len(a)
      OBVIOUS
    <3>2. 1 \in Int /\ Len(a) \in Int
      OBVIOUS
    <3> HIDE DEF D
    <3> QED  BY ONLY <3>1, <3>2, PartOfInterval
  <2>2. PICK lo \in D : \A y \in D : lo >= y
    <3> HIDE DEF D
    <3> QED  BY ONLY <1>2, <2>1, LargestExists
  <2>3. lo \in 1 .. Len(a) /\ lo \in 0 .. Len(a) /\ a[lo].before > Threshold
    BY <2>2, ThresholdType
  <2>4. ASSUME NEW i \in 1 .. Len(a) PROVE a[i].before <= Threshold <=> i > lo
    <3>1. CASE i > lo
      <4>1. i \notin D
        BY <2>2, <2>3, <3>1
      <4> QED  BY <3>1, <4>1
    <3>2. CASE ~(i > lo)
      <4>1. a[i].before >= a[lo].before
        BY <2>3, <3>2 DEF Ordered
      <4>2. a[i].before > Threshold
        BY <2>3, <4>1, ThresholdType
      <4> QED  BY <3>2, <4>2, ThresholdType
    <3> QED  BY <3>1, <3>2
  <2> QED  BY <2>3, <2>4
<1> QED  BY <1>1, <1>2

(* The loop of storeMedian returns the samples from there on. Both that    *)
(* there is a function as its recursive definition asks for and that all   *)
(* such functions agree is shown here.                                     *)
LEMMA LoopIs ==
    ASSUME NEW T, NEW a \in Seq(T), NEW lo \in 0 .. Len(a),
           \A i \in 1 .. Len(a) : a[i].before <= Threshold <=> i > lo
    PROVE  (CHOOSE g : Loop(a, g))[Len(a)] = SubSeq(a, lo + 1, Len(a))
<1> DEFINE h == [n \in 0 .. Len(a) |-> SubSeq(a, lo + 1, n)]
           L == Len(a)
<1>1. L \in Nat /\ lo \in Nat /\ lo <= L
  BY LenProperties
<1>2. ASSUME NEW n \in 1 .. L
      PROVE  SubSeq(a, lo + 1, n)
               = IF n > lo THEN Append(SubSeq(a, lo + 1, n - 1), a[n])
                 ELSE SubSeq(a, lo + 1, n - 1)
  <2>1. CASE n > lo
    <3>1. lo + 1 \in 1 .. L /\ n \in lo + 1 .. L
      BY <1>1, <2>1
    <3>2. SubSeq(a, lo + 1, n) = SubSeq(a, lo + 1, n - 1) \o <<a[n]>>
      BY <3>1, SubSeqRecursiveSecond
    <3>3. \A i \in lo + 1 .. n - 1 : a[i] \in T
      BY <1>1, <2>1, ElementOfSeq
    <3>4. SubSeq(a, lo + 1, n - 1) \in Seq(T) /\ a[n] \in T
      BY <1>1, <3>3, SubSeqProperties, ElementOfSeq
    <3> QED  BY <2>1, <3>2, <3>4, AppendIsConcat
  <2>2. CASE ~(n > lo)
    <3>1. n < lo + 1 /\ n - 1 < lo + 1
      BY <1>1, <2>2
    <3> QED  BY <1>1, <2>2, <3>1, SubSeqEmpty
  <2> QED  BY <2>1, <2>2
<1>3. SubSeq(a, lo + 1, 0) = <<>>
  BY <1>1, SubSeqEmpty
<1>4. Loop(a, h)
  <2>1. ASSUME NEW n \in 0 .. L
        PROVE  h[n] = IF n = 0 THEN <<>>
                      ELSE IF a[n].before <= Threshold THEN Append(h[n - 1], a[n])
                      ELSE h[n - 1]
    <3>1. CASE n = 0
      BY <1>3, <3>1
    <3>2. CASE n # 0
      <4>1. n \in 1 .. L /\ n - 1 \in 0 .. L
        BY <1>1, <3>2
      <4>2. h[n] = SubSeq(a, lo + 1, n) /\ h[n - 1] = SubSeq(a, lo + 1, n - 1)
        BY <4>1
      <4> QED  BY <1>2, <3>2, <4>1, <4>2
    <3> QED  BY <3>1, <3>2
  <2>2. h = [n \in 0 .. L |-> h[n]]
    OBVIOUS
  <2> HIDE DEF h
  <2> QED  BY <2>1, <2>2 DEF Loop
<1>5. PICK g : Loop(a, g) /\ g = CHOOSE f : Loop(a, f)
  <2> HIDE DEF h
  <2> QED  BY <1>4
<1>6. \A n \in 0 .. L : g[n] = IF n = 0 THEN <<>>
                ELSE IF a[n].before <= Threshold THEN Append(g[n - 1], a[n])
                ELSE g[n - 1]
  BY <1>5 DEF Loop
<1> DEFINE B == {n \in 0 .. L : g[n] # SubSeq(a, lo + 1, n)}
<1>7. ASSUME B # {} PROVE FALSE
  <2>1. IsFiniteSet(B) /\ B \subseteq Int
    <3>1. B \subseteq 0 .. L
      OBVIOUS
    <3>2. 0 \in Int /\ L \in Int
      BY <1>1
    <3> HIDE DEF B, L
    <3> QED  BY ONLY <3>1, <3>2, PartOfInterval
  <2>2. PICK n \in B : \A y \in B : n <= y
    <3> HIDE DEF B
    <3> QED  BY ONLY <1>7, <2>1, SmallestExists
  <2>3. n \in 0 .. L /\ g[n] # SubSeq(a, lo + 1, n)
    BY <2>2
  <2>4. n # 0
    BY <1>3, <1>6, <2>3
  <2>5. n - 1 \in 0 .. L /\ n \in 1 .. L /\ ~(n <= n - 1)
    BY <1>1, <2>3, <2>4
  <2>6. n - 1 \notin B
    BY <2>2, <2>5
  <2>7. g[n - 1] = SubSeq(a, lo + 1, n - 1)
    BY <2>5, <2>6
  <2> QED  BY <1>2, <1>6, <2>3, <2>4, <2>5, <2>7
<1>8. g[L] = SubSeq(a, lo + 1, L)
  <2>1. L \in 0 .. L
    BY <1>1
  <2> QED  BY <1>7, <2>1
<1> QED  BY <1>5, <1>8

(* A sample gets older, and is otherwise the same.                         *)
Older(s, r, time) ==
    /\ s.before = r.before + time
    /\ s.m = r.m /\ s.of = r.of /\ s.first = r.first

(* The type of an older sample.                                            *)
LEMMA SampleAges ==
    ASSUME NEW r \in Samples, NEW time \in Nat
    PROVE  /\ [r EXCEPT !.before = @ + time] \in Samples
           /\ Older([r EXCEPT !.before = @ + time], r, time)
BY DEF Samples, Older

(* The list as old as it is when the next sample is stored.                *)
LEMMA AgedIs ==
    ASSUME samples \in Seq(Samples), idle \in Nat
    PROVE  /\ Aged \in Seq(Samples) /\ Len(Aged) = Len(samples)
           /\ \A i \in 1 .. Len(samples) : Older(Aged[i], samples[i], idle)
<1> DEFINE L == Len(samples)
           E(i) == [samples[i] EXCEPT !.before = @ + idle]
<1>1. L \in Nat /\ DOMAIN samples = 1 .. L
      /\ \A i \in 1 .. L : samples[i] \in Samples
  BY LenProperties, ElementOfSeq
<1>2. \A i \in 1 .. L : E(i) \in Samples /\ Older(E(i), samples[i], idle)
  BY <1>1, SampleAges
<1>3. Aged = [i \in 1 .. L |-> E(i)]
  BY <1>1 DEF Aged
<1> HIDE DEF E, L
<1>4. Aged \in Seq(Samples) /\ Len(Aged) = L
  BY <1>1, <1>2, <1>3, IsASeq, LenProperties
<1>5. \A i \in 1 .. L : Aged[i] = E(i)
  BY <1>3
<1> QED  BY <1>2, <1>4, <1>5 DEF L

(* What storeMedian keeps is an end of the list.                           *)
KeptAfter(lo) ==
    /\ Kept \in Seq(Samples) /\ Len(Kept) = Len(samples) - lo
    /\ \A j \in 1 .. Len(samples) - lo :
          Older(Kept[j], samples[lo + j], idle) /\ Kept[j].before <= Threshold
    /\ idle > Threshold => lo = Len(samples)

(* The samples that are kept.                                              *)
LEMMA KeptIs ==
    ASSUME samples \in Seq(Samples), idle \in Nat, Ordered(samples)
    PROVE  \E lo \in 0 .. Len(samples) : KeptAfter(lo)
<1> DEFINE L == Len(samples)
<1>1. /\ Aged \in Seq(Samples) /\ Len(Aged) = L
      /\ \A i \in 1 .. L : Older(Aged[i], samples[i], idle)
  BY AgedIs
<1>2. L \in Nat /\ \A i \in 1 .. L : samples[i] \in Samples
  BY LenProperties, ElementOfSeq
<1>3. \A i \in 1 .. L : samples[i].before \in Nat
  BY <1>2 DEF Samples
<1>4. \A i \in 1 .. L : Aged[i].before = samples[i].before + idle
                        /\ Aged[i].before \in Nat
  BY <1>1, <1>3 DEF Older
<1>5. Ordered(Aged)
  BY <1>1, <1>2, <1>3, <1>4 DEF Ordered
<1>6. PICK lo \in 0 .. L : \A i \in 1 .. L : Aged[i].before <= Threshold <=> i > lo
  BY <1>1, <1>2, <1>4, <1>5, KeptFrom
<1>7. Kept = (CHOOSE g : Loop(Aged, g))[Len(Aged)]
  BY DEF Kept, Loop
<1>8. Kept = SubSeq(Aged, lo + 1, L)
  BY <1>1, <1>6, <1>7, LoopIs
<1>9. \A i \in lo + 1 .. L : Aged[i] \in Samples
  BY <1>1, <1>2, ElementOfSeq
<1>10. /\ Kept \in Seq(Samples) /\ Len(Kept) = L - lo
       /\ \A j \in 1 .. L - lo : Kept[j] = Aged[lo + j]
  <2> HIDE DEF L
  <2>1. /\ Kept \in Seq(Samples)
        /\ Len(Kept) = IF lo + 1 <= L THEN L - (lo + 1) + 1 ELSE 0
        /\ \A j \in 1 .. L - (lo + 1) + 1 : Kept[j] = Aged[(lo + 1) + j - 1]
    BY <1>2, <1>8, <1>9, SubSeqProperties
  <2>2. /\ L - (lo + 1) + 1 = L - lo /\ (~(lo + 1 <= L) => L - lo = 0)
        /\ \A j \in 1 .. L - lo : (lo + 1) + j - 1 = lo + j
    BY <1>2
  <2> QED  BY <2>1, <2>2
<1>11. \A j \in 1 .. L - lo : lo + j \in 1 .. L /\ lo + j > lo
  BY <1>2
<1>12. \A j \in 1 .. L - lo :
          Older(Kept[j], samples[lo + j], idle) /\ Kept[j].before <= Threshold
  BY <1>1, <1>6, <1>10, <1>11
<1>13. ASSUME idle > Threshold PROVE lo = L
  <2>1. ASSUME lo # L PROVE FALSE
    <3>1. L \in 1 .. L /\ L > lo
      BY <1>2, <2>1
    <3>2. Aged[L].before <= Threshold
      BY <1>6, <3>1
    <3>3. samples[L].before \in Nat /\ Aged[L].before = samples[L].before + idle
      BY <1>3, <1>4, <3>1
    <3> QED  BY <1>13, <3>2, <3>3, ThresholdType
  <2> QED  BY <2>1
<1> QED  BY <1>10, <1>12, <1>13 DEF KeptAfter

-----------------------------------------------------------------------------
(* The inductive invariant.                                                *)

(* Samples are stored in the order of time, the newest one at the end.     *)
OrderInv ==
    /\ Ordered(samples)
    /\ samples # <<>> => samples[Len(samples)].before = 0

(* They are of the owner, young enough, and speak for the pods.            *)
SampleInv ==
    \A i \in 1 .. Len(samples) :
       /\ samples[i].of = owner /\ samples[i].before <= Threshold
       /\ samples[i].m.value > UpBoundary => samples[i].m.mostAbove
       /\ samples[i].m.value < DownBoundary => samples[i].m.halfBelow

(* A check of a process that has stored a sample holds the next check back *)
(* for an interval after the last sample; with no check under way this is  *)
(* an interval after the sample before.  Time is counted no further than   *)
(* the threshold: samples that old are dropped.                            *)
PaceInv ==
    /\ ~first /\ job # NoJob /\ Len(samples) >= 1
         => idle > Threshold \/ idle + due >= Interval
    /\ ~first /\ Len(samples) >= 2 /\ ~samples[Len(samples)].first
         => \/ idle > Threshold
            \/ samples[Len(samples) - 1].before + idle
                 + (IF job = NoJob THEN due ELSE 0) >= Interval

ListInv == OrderInv /\ SampleInv /\ SamplesTakeTime

MetricsInv == TypeOK /\ ListInv /\ PaceInv

(* Types, as the steps below need them.                                    *)
LEMMA MetricsTypes ==
    ASSUME MetricsInv
    PROVE  /\ samples \in Seq(Samples) /\ Len(samples) \in Nat
           /\ \A i \in 1 .. Len(samples) :
                 samples[i] \in Samples /\ samples[i].before \in Nat
                 /\ samples[i].first \in BOOLEAN
           /\ idle \in Nat /\ due \in Nat /\ first \in BOOLEAN
           /\ Interval \in Nat /\ Threshold \in Nat
<1>1. /\ samples \in Seq(Samples) /\ idle \in Nat /\ due \in Nat
      /\ first \in BOOLEAN /\ Interval \in Nat /\ Threshold \in Nat
  BY ThresholdType, IntervalAssumption DEF MetricsInv, TypeOK
<1>2. Len(samples) \in Nat /\ \A i \in 1 .. Len(samples) : samples[i] \in Samples
  BY <1>1, LenProperties, ElementOfSeq
<1>3. \A i \in 1 .. Len(samples) : samples[i].before \in Nat
                                   /\ samples[i].first \in BOOLEAN
  BY <1>2 DEF Samples
<1> QED  BY <1>1, <1>2, <1>3

(* The list after storeMedian.                                             *)
Stored(lo, m) ==
    /\ samples' \in Seq(Samples) /\ Len(samples') = Len(samples) - lo + 1
    /\ \A j \in 1 .. Len(samples) - lo :
          /\ Older(samples'[j], samples[lo + j], idle)
          /\ samples'[j].before <= Threshold
    /\ samples'[Len(samples) - lo + 1]
         = [m |-> m, before |-> 0, of |-> job.uid, first |-> first]
    /\ lo # Len(samples) => job.uid = owner /\ ~(idle > Threshold)

(* storeMedian appends a sample to what is kept, or to nothing.            *)
LEMMA StoreMedianIs ==
    ASSUME MetricsInv, NEW m \in Measurements, StoreMedian(m)
    PROVE  \E lo \in 0 .. Len(samples) : Stored(lo, m)
<1> DEFINE k == IF job.found THEN Kept ELSE <<>>
           new == [m |-> m, before |-> 0, of |-> job.uid, first |-> first]
           L == Len(samples)
<1>1. PICK lo \in 0 .. L :
         /\ k \in Seq(Samples) /\ Len(k) = L - lo
         /\ \A j \in 1 .. L - lo : Older(k[j], samples[lo + j], idle)
                                  /\ k[j].before <= Threshold
         /\ lo # L => job.uid = owner /\ ~(idle > Threshold)
  <2>1. CASE job.found
    <3>1. PICK lo \in 0 .. L : KeptAfter(lo)
      BY MetricsTypes, KeptIs DEF MetricsInv, ListInv, OrderInv
    <3>2. owner = job.uid
      BY <2>1 DEF StoreMedian
    <3> QED  BY <2>1, <3>1, <3>2 DEF KeptAfter
  <2>2. CASE ~job.found
    <3>1. owner = 0
      BY <2>2 DEF StoreMedian
    <3>2. samples = <<>>
      BY <3>1 DEF MetricsInv, TypeOK
    <3>3. k = <<>> /\ L = 0
      BY <2>2, <3>2
    <3> HIDE DEF k, L
    <3>4. k \in Seq(Samples) /\ Len(k) = 0
      BY <3>3, EmptySeq
    <3>5. 0 \in 0 .. L /\ L - 0 = 0 /\ \A j : j \notin 1 .. L - 0
      BY <3>3
    <3> QED  BY <3>3, <3>4, <3>5
  <2> QED  BY <2>1, <2>2
<1>2. new \in Samples
  <2>1. job.uid \in 1 .. MaxUid
    <3>1. job.uid \in 0 .. MaxUid /\ job.uid # 0
      BY DEF MetricsInv, TypeOK, StoreMedian
    <3> QED  BY <3>1, MetricsBoundsAssumption
  <2>2. m \in [value : Usages \cup {0}, mostAbove : BOOLEAN, halfBelow : BOOLEAN]
    BY MeasurementIs
  <2> QED  BY <2>1, <2>2, MetricsTypes DEF Samples
<1>3. samples' = Append(k, new)
  BY DEF StoreMedian
<1> HIDE DEF k, new
<1>4. /\ samples' \in Seq(Samples) /\ Len(samples') = Len(k) + 1
      /\ \A j \in 1 .. Len(k) : samples'[j] = k[j]
      /\ samples'[Len(k) + 1] = new
  BY <1>1, <1>2, <1>3, AppendProperties
<1> QED  BY <1>1, <1>4 DEF Stored, new

(* It keeps the order and the pace.                                        *)
LEMMA StoreMedianList ==
    ASSUME MetricsInv, NEW m \in Measurements, StoreMedian(m)
    PROVE  ListInv' /\ PaceInv'
<1> DEFINE L == Len(samples)
<1>1. PICK lo \in 0 .. L : Stored(lo, m)
  BY StoreMedianIs
<1> DEFINE K == L - lo
<1>2. /\ L \in Nat /\ idle \in Nat /\ due \in Nat /\ first \in BOOLEAN
      /\ Interval \in Nat /\ Threshold \in Nat
      /\ \A i \in 1 .. L : samples[i].before \in Nat /\ samples[i].first \in BOOLEAN
  BY MetricsTypes
<1>3. lo \in Nat /\ K \in Nat /\ lo + K = L /\ K <= L
      /\ \A j \in 1 .. K : lo + j \in 1 .. L
  BY <1>2
<1>4. /\ Len(samples') = K + 1
      /\ \A j \in 1 .. K : Older(samples'[j], samples[lo + j], idle)
                           /\ samples'[j].before <= Threshold
      /\ lo # L => job.uid = owner /\ ~(idle > Threshold)
  BY <1>1 DEF Stored
<1>5. /\ samples'[K + 1].before = 0 /\ samples'[K + 1].of = job.uid
      /\ samples'[K + 1].first = first /\ samples'[K + 1].m = m
  BY <1>1 DEF Stored
<1>6. owner' = job.uid /\ idle' = 0 /\ first' = FALSE /\ job' = NoJob
      /\ due' = due /\ job # NoJob
  BY DEF StoreMedian, NoJob
<1> HIDE DEF L, K
<1>7. ASSUME NEW j \in 1 .. K
      PROVE  /\ samples'[j].before = samples[lo + j].before + idle
             /\ samples'[j].before \in Nat
             /\ samples'[j].of = samples[lo + j].of
             /\ samples'[j].first = samples[lo + j].first
             /\ samples'[j].m = samples[lo + j].m
  <2>1. Older(samples'[j], samples[lo + j], idle)
    BY <1>4
  <2>2. lo + j \in 1 .. L
    BY <1>3
  <2>3. samples[lo + j].before \in Nat
    BY <1>2, <2>2
  <2> QED  BY <1>2, <2>1, <2>3 DEF Older
<1>8. OrderInv'
  <2>1. ASSUME NEW i \in 1 .. K + 1, NEW j \in 1 .. K + 1, i <= j
        PROVE  samples'[i].before >= samples'[j].before
    <3>1. CASE j = K + 1
      <4>1. samples'[i].before \in Nat
        BY <1>3, <1>5, <1>7
      <4> QED  BY <1>5, <3>1, <4>1
    <3>2. CASE j # K + 1
      <4>1. i \in 1 .. K /\ j \in 1 .. K /\ lo + i <= lo + j
        BY <1>3, <2>1, <3>2
      <4>2. samples[lo + i].before >= samples[lo + j].before
        BY <1>3, <4>1 DEF MetricsInv, ListInv, OrderInv, Ordered, L
      <4>3. samples[lo + i].before \in Nat /\ samples[lo + j].before \in Nat
        BY <1>2, <1>3, <4>1
      <4> QED  BY <1>2, <1>7, <4>1, <4>2, <4>3
    <3> QED  BY <3>1, <3>2
  <2>2. Ordered(samples)'
    BY <1>4, <2>1 DEF Ordered
  <2> QED  BY <1>4, <1>5, <2>2 DEF OrderInv
<1>9. SampleInv'
  <2>1. ASSUME NEW i \in 1 .. K + 1
        PROVE  /\ samples'[i].of = owner' /\ samples'[i].before <= Threshold
               /\ samples'[i].m.value > UpBoundary => samples'[i].m.mostAbove
               /\ samples'[i].m.value < DownBoundary => samples'[i].m.halfBelow
    <3>1. CASE i = K + 1
      BY <1>2, <1>5, <1>6, <3>1, MeasurementIs
    <3>2. CASE i # K + 1
      <4>1. i \in 1 .. K /\ lo # L
        BY <1>3, <3>2
      <4>2. lo + i \in 1 .. L
        BY <1>3, <4>1
      <4> QED  BY <1>4, <1>6, <1>7, <4>1, <4>2
               DEF MetricsInv, ListInv, SampleInv, L
    <3> QED  BY <3>1, <3>2
  <2> QED  BY <1>4, <2>1 DEF SampleInv
<1>10. SamplesTakeTime'
  <2>1. ASSUME NEW i \in 1 .. (K + 1) - 2,
               ~samples'[i + 1].first, ~samples'[i + 2].first
        PROVE  samples'[i].before >= samples'[i + 2].before + Interval
    <3>1. i \in 1 .. K /\ i + 1 \in 1 .. K /\ i + 2 \in 1 .. K + 1
      BY <1>3, <2>1
    <3>2. lo + i \in 1 .. L /\ lo + (i + 1) \in 1 .. L
          /\ lo + (i + 1) = (lo + i) + 1
      BY <1>3, <3>1
    <3>3. CASE i + 2 = K + 1
      <4>1. lo # L /\ lo + (i + 1) = L /\ lo + i = L - 1 /\ L >= 2
        BY <1>3, <3>1, <3>3
      <4>2. ~samples[L].first /\ ~first
        BY <1>5, <1>7, <2>1, <3>1, <3>3, <4>1
      <4>3. samples[L - 1].before + idle + 0 >= Interval
        BY <1>4, <1>6, <4>1, <4>2 DEF MetricsInv, PaceInv, L
      <4>4. samples'[i].before = samples[L - 1].before + idle
            /\ samples[L - 1].before \in Nat
        BY <1>2, <1>7, <3>1, <3>2, <4>1
      <4> QED  BY <1>2, <1>5, <3>3, <4>3, <4>4
    <3>4. CASE i + 2 # K + 1
      <4>1. i + 2 \in 1 .. K /\ lo + i \in 1 .. L - 2
            /\ lo + (i + 2) = (lo + i) + 2 /\ lo + (i + 2) \in 1 .. L
        BY <1>3, <3>1, <3>4
      <4>2. ~samples[(lo + i) + 1].first /\ ~samples[(lo + i) + 2].first
        BY <1>7, <2>1, <3>1, <3>2, <4>1
      <4>3. samples[lo + i].before >= samples[(lo + i) + 2].before + Interval
        BY <4>1, <4>2 DEF MetricsInv, ListInv, SamplesTakeTime, L
      <4>4. /\ samples'[i].before = samples[lo + i].before + idle
            /\ samples'[i + 2].before = samples[(lo + i) + 2].before + idle
            /\ samples[lo + i].before \in Nat
            /\ samples[(lo + i) + 2].before \in Nat
        BY <1>2, <1>7, <3>1, <3>2, <4>1
      <4> QED  BY <1>2, <4>3, <4>4
    <3> QED  BY <3>3, <3>4
  <2> QED  BY <1>4, <2>1 DEF SamplesTakeTime
<1>11. PaceInv'
  <2>1. ASSUME K + 1 >= 2, ~samples'[K + 1].first
        PROVE  samples'[(K + 1) - 1].before + 0 + due >= Interval
    <3>1. K \in 1 .. K /\ lo # L /\ L >= 1 /\ (K + 1) - 1 = K /\ lo + K = L
          /\ L \in 1 .. L
      BY <1>2, <1>3, <2>1
    <3>2. ~first
      BY <1>5, <2>1
    <3>3. idle + due >= Interval
      BY <1>4, <1>6, <3>1, <3>2 DEF MetricsInv, PaceInv, L
    <3>4. samples'[K].before = samples[L].before + idle
          /\ samples[L].before \in Nat
      BY <1>2, <1>7, <3>1
    <3> QED  BY <1>2, <3>1, <3>3, <3>4
  <2> QED  BY <1>4, <1>6, <2>1 DEF PaceInv
<1> QED  BY <1>8, <1>9, <1>10, <1>11 DEF ListInv

(* An empty list, or the same one for the same owner.                      *)
LEMMA ListKept ==
    ASSUME ListInv, UNCHANGED samples, UNCHANGED owner
    PROVE  ListInv'
BY DEF ListInv, OrderInv, Ordered, SampleInv, SamplesTakeTime

(* Nothing is wrong with an empty list.                                    *)
LEMMA EmptyList ==
    ASSUME samples = <<>>
    PROVE  ListInv /\ PaceInv
<1>1. Len(samples) = 0
  BY EmptySeq
<1>2. \A i : i \notin 1 .. Len(samples) /\ i \notin 1 .. Len(samples) - 2
  BY <1>1
<1>3. ~(Len(samples) >= 1) /\ ~(Len(samples) >= 2)
  BY <1>1
<1> QED  BY <1>2, <1>3 DEF ListInv, OrderInv, Ordered, SampleInv,
             SamplesTakeTime, PaceInv

(* Time passes no faster for the next check than for the samples.          *)
LEMMA TickTimes ==
    ASSUME MetricsInv, Tick, samples # <<>>
    PROVE  /\ idle' > Threshold \/ idle' = idle + 1
           /\ idle > Threshold => idle' > Threshold
           /\ due' \in Nat /\ due' >= due - 1
<1>1. idle \in Nat /\ due \in Nat /\ Threshold \in Nat
  BY MetricsTypes
<1>2. idle' = IF idle + 1 <= Threshold + 1 THEN idle + 1 ELSE Threshold + 1
  BY <1>1, MinOfTwo DEF Tick
<1>3. due' = IF due - 1 >= 0 THEN due - 1 ELSE 0
  BY <1>1, MaxOfTwo DEF Tick
<1> QED  BY <1>1, <1>2, <1>3

(* Every step keeps the order and the pace of the samples.                 *)
LEMMA PaceStep ==
    ASSUME MetricsInv, Next \/ UNCHANGED vars
    PROVE  ListInv' /\ PaceInv'
<1> DEFINE L == Len(samples)
<1>1. /\ L \in Nat /\ idle \in Nat /\ due \in Nat /\ first \in BOOLEAN
      /\ Interval \in Nat /\ Threshold \in Nat
      /\ \A i \in 1 .. L : samples[i].before \in Nat
  BY MetricsTypes
<1>2. ListInv /\ PaceInv
  BY DEF MetricsInv
<1>3. L >= 2 => samples[L - 1].before \in Nat
  <2>1. L >= 2 => L - 1 \in 1 .. L
    BY <1>1
  <2> QED  BY <1>1, <2>1
<1>4. ASSUME NEW m \in Measurements, StoreMedian(m) PROVE ListInv' /\ PaceInv'
  BY <1>4, StoreMedianList
<1>5. CASE CollectGarbage
  <2>1. samples' = <<>>
    BY <1>5 DEF CollectGarbage
  <2> QED  BY <2>1, EmptyList DEF ListInv, OrderInv, Ordered, SampleInv,
               SamplesTakeTime, PaceInv
<1>6. CASE Collect
  <2>1. /\ UNCHANGED <<samples, owner, idle, first>> /\ due = 0
        /\ due' = Interval /\ job = NoJob
    BY <1>6 DEF Collect, process
  <2>2. PaceInv'
    BY <1>1, <1>2, <1>3, <2>1 DEF PaceInv
  <2> QED  BY <1>2, <2>1, <2>2, ListKept
<1>7. CASE StoreRefused \/ Skip
  <2>1. UNCHANGED <<samples, owner, idle, first, due>> /\ job' = NoJob
    BY <1>7 DEF StoreRefused, Skip, process
  <2>2. PaceInv'
    BY <1>1, <1>2, <1>3, <2>1 DEF PaceInv
  <2> QED  BY <1>2, <2>1, <2>2, ListKept
<1>8. CASE Tick
  <2>1. UNCHANGED <<samples, owner, first, job>>
    BY <1>8 DEF Tick, process
  <2>2. CASE samples = <<>>
    <3>1. samples' = <<>>
      BY <2>1, <2>2
    <3> QED  BY <3>1, EmptyList DEF ListInv, OrderInv, Ordered, SampleInv,
                 SamplesTakeTime, PaceInv
  <2>3. CASE samples # <<>>
    <3>1. /\ idle' > Threshold \/ idle' = idle + 1
          /\ idle > Threshold => idle' > Threshold
          /\ due' \in Nat /\ due' >= due - 1
      BY <1>8, <2>3, TickTimes
    <3>2. ASSUME ~first, job # NoJob, L >= 1
          PROVE  idle' > Threshold \/ idle' + due' >= Interval
      <4>1. idle > Threshold \/ idle + due >= Interval
        BY <1>2, <3>2 DEF PaceInv
      <4> QED  BY <1>1, <3>1, <4>1
    <3>3. ASSUME ~first, L >= 2, ~samples[L].first
          PROVE  \/ idle' > Threshold
                 \/ samples[L - 1].before + idle'
                      + (IF job = NoJob THEN due' ELSE 0) >= Interval
      <4>1. \/ idle > Threshold
            \/ samples[L - 1].before + idle
                 + (IF job = NoJob THEN due ELSE 0) >= Interval
        BY <1>2, <3>3 DEF PaceInv
      <4>2. CASE job = NoJob
        BY <1>1, <1>3, <3>1, <3>3, <4>1, <4>2
      <4>3. CASE job # NoJob
        BY <1>1, <1>3, <3>1, <3>3, <4>1, <4>3
      <4> QED  BY <4>2, <4>3
    <3>4. PaceInv'
      BY <2>1, <3>2, <3>3 DEF PaceInv
    <3> QED  BY <1>2, <2>1, <3>4, ListKept
  <2> QED  BY <2>2, <2>3
<1>9. CASE Restart
  <2>1. UNCHANGED <<samples, owner>> /\ first' = TRUE
    BY <1>9 DEF Restart
  <2>2. PaceInv'
    BY <2>1 DEF PaceInv
  <2> QED  BY <1>2, <2>1, <2>2, ListKept
<1>10. CASE Delete \/ Create \/ UNCHANGED vars
  <2>1. UNCHANGED <<samples, owner, idle, due, job, first>>
    BY <1>10 DEF Delete, Create, vars, process
  <2>2. PaceInv'
    BY <1>2, <2>1 DEF PaceInv
  <2> QED  BY <1>2, <2>1, <2>2, ListKept
<1> QED  BY <1>4, <1>5, <1>6, <1>7, <1>8, <1>9, <1>10
         DEF Next, Collector, OnTime, Disturb, Late

(* Types.                                                                  *)
LEMMA MetricsTypeStep ==
    ASSUME MetricsInv, Next \/ UNCHANGED vars
    PROVE  TypeOK'
<1>1. /\ uid \in 0 .. MaxUid /\ created \in 0 .. MaxUid /\ owner \in 0 .. MaxUid
      /\ samples \in Seq(Samples) /\ (owner = 0 <=> samples = <<>>)
      /\ idle \in 0 .. Threshold + 1 /\ due \in 0 .. Interval
      /\ job \in [uid : 0 .. MaxUid, found : BOOLEAN]
      /\ restarts \in 0 .. MaxRestarts /\ first \in BOOLEAN
  BY DEF MetricsInv, TypeOK
<1>2. /\ Threshold \in Nat /\ Interval \in Nat /\ Interval # 0
      /\ MaxUid \in Nat \ {0} /\ MaxRestarts \in Nat
  BY ThresholdType, IntervalAssumption, MetricsBoundsAssumption
<1>3. NoJob \in [uid : 0 .. MaxUid, found : BOOLEAN]
  BY <1>2 DEF NoJob
<1>4. ASSUME NEW m \in Measurements, StoreMedian(m) PROVE TypeOK'
  <2>1. PICK lo \in 0 .. Len(samples) : Stored(lo, m)
    BY <1>4, StoreMedianIs
  <2>2. samples' \in Seq(Samples) /\ Len(samples') = Len(samples) - lo + 1
    BY <2>1 DEF Stored
  <2>3. Len(samples') # 0
    BY <2>2, MetricsTypes
  <2>4. samples' # <<>>
    BY <2>3, EmptySeq
  <2>5. owner' \in 0 .. MaxUid /\ owner' # 0
    BY <1>1, <1>4 DEF StoreMedian
  <2>6. idle' \in 0 .. Threshold + 1
    BY <1>2, <1>4 DEF StoreMedian
  <2> QED  BY <1>1, <1>3, <1>4, <2>2, <2>4, <2>5, <2>6 DEF StoreMedian, TypeOK
<1>5. CASE CollectGarbage
  <2>1. samples' \in Seq(Samples) /\ samples' = <<>> /\ owner' = 0 /\ idle' = 0
    BY <1>5, EmptySeq DEF CollectGarbage
  <2>2. owner' \in 0 .. MaxUid /\ idle' \in 0 .. Threshold + 1
    BY <1>2, <2>1
  <2> QED  BY <1>1, <1>5, <2>1, <2>2 DEF CollectGarbage, TypeOK, process
<1>6. CASE Collect
  <2>1. job' \in [uid : 0 .. MaxUid, found : BOOLEAN]
    BY <1>1, <1>6 DEF Collect
  <2>2. due' \in 0 .. Interval
    BY <1>2, <1>6 DEF Collect
  <2> QED  BY <1>1, <1>6, <2>1, <2>2 DEF Collect, TypeOK, process
<1>7. CASE StoreRefused \/ Skip
  BY <1>1, <1>3, <1>7 DEF StoreRefused, Skip, TypeOK, process
<1>8. CASE Tick
  <2>1. idle \in Nat /\ due \in Nat /\ due <= Interval
    BY <1>1, <1>2
  <2>2. Min({idle + 1, Threshold + 1}) \in 0 .. Threshold + 1
    BY <1>2, <2>1, MinOfTwo
  <2>3. idle' \in 0 .. Threshold + 1
    BY <1>2, <1>8, <2>2 DEF Tick
  <2>4. due' \in 0 .. Interval
    BY <1>2, <1>8, <2>1, MaxOfTwo DEF Tick
  <2> QED  BY <1>1, <1>8, <2>3, <2>4 DEF Tick, TypeOK, process
<1>9. CASE Restart
  <2>1. restarts' \in 0 .. MaxRestarts /\ due' \in 0 .. Interval
    BY <1>1, <1>2, <1>9 DEF Restart
  <2> QED  BY <1>1, <1>3, <1>9, <2>1 DEF Restart, TypeOK
<1>10. CASE Delete
  <2>1. uid' \in 0 .. MaxUid
    BY <1>2, <1>10 DEF Delete
  <2> QED  BY <1>1, <1>10, <2>1 DEF Delete, TypeOK, process
<1>11. CASE Create
  <2>1. uid' \in 0 .. MaxUid /\ created' \in 0 .. MaxUid
    BY <1>1, <1>2, <1>11 DEF Create
  <2> QED  BY <1>1, <1>11, <2>1 DEF Create, TypeOK, process
<1>12. CASE UNCHANGED vars
  BY <1>1, <1>12 DEF vars, TypeOK, process
<1> QED  BY <1>4, <1>5, <1>6, <1>7, <1>8, <1>9, <1>10, <1>11, <1>12
         DEF Next, Collector, OnTime, Disturb, Late

(* The invariant holds in the beginning.                                   *)
LEMMA MetricsInit == Init => MetricsInv
<1> SUFFICES ASSUME Init PROVE MetricsInv
  OBVIOUS
<1>1. samples = <<>> /\ samples \in Seq(Samples)
  BY EmptySeq DEF Init
<1>2. NoJob \in [uid : 0 .. MaxUid, found : BOOLEAN]
  BY MetricsBoundsAssumption DEF NoJob
<1>3. /\ 1 \in 0 .. MaxUid /\ 0 \in 0 .. MaxUid /\ 0 \in 0 .. Threshold + 1
      /\ 0 \in 0 .. Interval /\ 0 \in 0 .. MaxRestarts
  BY MetricsBoundsAssumption, IntervalAssumption, ThresholdType
<1>4. TypeOK
  BY <1>1, <1>2, <1>3 DEF Init, TypeOK
<1> QED  BY <1>1, <1>4, EmptyList DEF MetricsInv

(* The invariant holds at all times.                                       *)
LEMMA MetricsCorrect == Spec => []MetricsInv
<1>1. MetricsInv /\ [Next]_vars => MetricsInv'
  BY PaceStep, MetricsTypeStep DEF MetricsInv
<1> QED  BY <1>1, MetricsInit, PTL DEF Spec

-----------------------------------------------------------------------------
(* Theorems.                                                               *)

(* Every variable keeps its type, for any number of pods, restarts and     *)
(* data sets of the name; the samples are a list of medians of measured    *)
(* usages, and there are none without a metric set.                        *)
THEOREM MetricsTypeCorrect == Spec => []TypeOK
<1>1. MetricsInv => TypeOK
  BY DEF MetricsInv
<1> QED  BY <1>1, MetricsCorrect, PTL

(* However late the collector is, restarts excepted, storeMedian does not  *)
(* store three samples within an interval.                                 *)
THEOREM SamplesArePaced == Spec => []SamplesTakeTime
<1>1. MetricsInv => SamplesTakeTime
  BY DEF MetricsInv, ListInv
<1> QED  BY <1>1, MetricsCorrect, PTL

(* A newest sample is one of the metric set.                               *)
LEMMA NewestIs ==
    ASSUME MetricsInv, NEW threshold \in Nat,
           Len(MetricSet) >= Required(threshold),
           NEW i \in 1 .. Required(threshold)
    PROVE  \E j \in 1 .. Len(samples) :
              owner = uid /\ Newest(Required(threshold))[i] = samples[j]
<1> DEFINE n == Required(threshold)
           L == Len(MetricSet)
<1>1. n \in Nat
  <2>1. threshold + Interval - 1 \in Nat /\ Interval \in Nat \ {0}
    BY IntervalAssumption
  <2>2. \A a \in Nat, b \in Nat \ {0} : a \div b \in Nat
    OBVIOUS
  <2> QED  BY <2>1, <2>2 DEF Required
<1> HIDE DEF n
<1>2. i \in 1 .. n /\ L >= n
  BY DEF n
<1>3. MetricSet \in Seq(Samples)
  BY MetricsTypes, EmptySeq DEF MetricSet
<1>4. L \in Nat /\ \A k \in 1 .. L : MetricSet[k] \in Samples
  BY <1>3, LenProperties, ElementOfSeq
<1>5. L # 0
  BY <1>1, <1>2, <1>4
<1>6. MetricSet = samples /\ owner = uid
  BY <1>5, EmptySeq DEF MetricSet
<1> HIDE DEF L
<1>7. \A k \in L - n + 1 .. L : MetricSet[k] \in Samples
  BY <1>1, <1>2, <1>4
<1>8. i \in 1 .. L - (L - n + 1) + 1 /\ L - n + 1 \in Int /\ L \in Int
      /\ (L - n + 1) + i - 1 \in 1 .. L
  BY <1>1, <1>2, <1>4
<1>9. SubSeq(MetricSet, L - n + 1, L)[i] = MetricSet[(L - n + 1) + i - 1]
  BY <1>7, <1>8, SubSeqProperties
<1>10. Newest(n)[i] = samples[(L - n + 1) + i - 1]
  BY <1>6, <1>9 DEF Newest, L
<1> QED  BY <1>6, <1>8, <1>10 DEF n, L

(* scalingHint asks for more or fewer nodes only because of samples of     *)
(* this EDS that were young enough when the newest was stored, and at each *)
(* more than half of the pods were above the boundary, or at least half    *)
(* below.                                                                  *)
THEOREM HintsJustified == Spec => []HintsAreJustified
<1>1. MetricsInv => HintsAreJustified
  <2> SUFFICES ASSUME MetricsInv PROVE HintsAreJustified
    OBVIOUS
  <2>1. ASSUME ScaleUpRequired, NEW i \in 1 .. Required(UpThreshold)
        PROVE  LET s == Newest(Required(UpThreshold))[i]
               IN  Justified(s) /\ s.m.mostAbove
    <3>1. PICK j \in 1 .. Len(samples) :
             owner = uid /\ Newest(Required(UpThreshold))[i] = samples[j]
      BY <2>1, NewestIs, ThresholdAssumption DEF ScaleUpRequired
    <3>2. samples[j].m.value > UpBoundary
      BY <2>1, <3>1 DEF ScaleUpRequired
    <3> QED  BY <3>1, <3>2 DEF MetricsInv, ListInv, SampleInv, Justified
  <2>2. ASSUME ScaleDownRequired, NEW i \in 1 .. Required(DownThreshold)
        PROVE  LET s == Newest(Required(DownThreshold))[i]
               IN  Justified(s) /\ s.m.halfBelow
    <3>1. PICK j \in 1 .. Len(samples) :
             owner = uid /\ Newest(Required(DownThreshold))[i] = samples[j]
      BY <2>2, NewestIs, ThresholdAssumption DEF ScaleDownRequired
    <3>2. samples[j].m.value < DownBoundary
      BY <2>2, <3>1 DEF ScaleDownRequired
    <3> QED  BY <3>1, <3>2 DEF MetricsInv, ListInv, SampleInv, Justified
  <2> QED  BY <2>1, <2>2 DEF HintsAreJustified
<1> QED  BY <1>1, MetricsCorrect, PTL
=============================================================================
