-------------------------- MODULE AutoscalerProofs --------------------------
(***************************************************************************)
(* Proofs about Autoscaler, for any set of indices, any valid settings and *)
(* whatever users set.                                                     *)
(***************************************************************************)
EXTENDS Autoscaler, SetLemmas, FiniteSetTheorems, TLAPS

-----------------------------------------------------------------------------
(* The number of shards.  The community modules define a sum over a set    *)
(* with a recursive function on its subsets.  That there is such a         *)
(* function, and what it is, is shown with a smallest counterexample.      *)

Weight(c, i) == Primaries[i] * (c[i] + 1)
Pick(s) == CHOOSE x \in s : TRUE
Sums(g, c, S) ==
    g = [s \in SUBSET S |-> IF s = {} THEN 0
                            ELSE Weight(c, Pick(s)) + g[s \ {Pick(s)}]]

(* The member the sum takes next is a member.                              *)
LEMMA PickIn == \A s : s # {} => Pick(s) \in s
BY DEF Pick

(* One step of the sum.                                                    *)
LEMMA SumsValue ==
    ASSUME NEW c, NEW S, NEW g, Sums(g, c, S), NEW s \in SUBSET S
    PROVE  g[s] = IF s = {} THEN 0 ELSE Weight(c, Pick(s)) + g[s \ {Pick(s)}]
BY DEF Sums

(* Two such functions agree where both are defined.                        *)
LEMMA SumsAgree ==
    ASSUME NEW c, NEW S, NEW T, IsFiniteSet(S), NEW g, NEW h,
           Sums(g, c, S), Sums(h, c, T)
    PROVE  \A s \in SUBSET (S \cap T) : g[s] = h[s]
<1> DEFINE B == {s \in SUBSET (S \cap T) : g[s] # h[s]}
<1> SUFFICES ASSUME B # {} PROVE FALSE
  OBVIOUS
<1>1. B \subseteq SUBSET S
  OBVIOUS
<1> HIDE DEF B
<1>2. PICK m \in B : \A t \in B : t \subseteq m => t = m
  BY <1>1, SmallestSubset
<1>3. m \in SUBSET S /\ m \in SUBSET T /\ g[m] # h[m]
  BY <1>2 DEF B
<1>4. g[m] = (IF m = {} THEN 0 ELSE Weight(c, Pick(m)) + g[m \ {Pick(m)}])
      /\ h[m] = (IF m = {} THEN 0 ELSE Weight(c, Pick(m)) + h[m \ {Pick(m)}])
  BY <1>3, SumsValue
<1>5. m # {} /\ g[m \ {Pick(m)}] # h[m \ {Pick(m)}]
  BY <1>3, <1>4
<1>6. m \ {Pick(m)} \in B
  BY <1>3, <1>5 DEF B
<1>7. m \ {Pick(m)} # m
  BY <1>5, PickIn
<1> QED  BY <1>2, <1>6, <1>7

(* There is one.                                                           *)
LEMMA SumsExist ==
    ASSUME NEW c, NEW S, IsFiniteSet(S)
    PROVE  \E g : Sums(g, c, S)
<1> DEFINE B == {T \in SUBSET S : ~ \E g : Sums(g, c, T)}
<1> SUFFICES ASSUME B # {} PROVE FALSE
  OBVIOUS
<1>1. B \subseteq SUBSET S
  OBVIOUS
<1> HIDE DEF B
<1>2. PICK T \in B : \A t \in B : t \subseteq T => t = T
  BY <1>1, SmallestSubset
<1>3. T \in SUBSET S /\ ~ \E g : Sums(g, c, T)
  BY <1>2 DEF B
<1>4. \A t \in SUBSET T : t # T => \E g : Sums(g, c, t)
  BY <1>2, <1>3 DEF B
<1> DEFINE G(t) == CHOOSE g : Sums(g, c, t)
           step(s) == IF s = {} THEN 0
                      ELSE Weight(c, Pick(s)) + G(s \ {Pick(s)})[s \ {Pick(s)}]
           h == [s \in SUBSET T |-> step(s)]
<1>5. \A t \in SUBSET T : t # T => Sums(G(t), c, t)
  BY <1>4
<1>6. ASSUME NEW s \in SUBSET T, s # T
      PROVE  G(s)[s] = step(s)
  <2>1. Sums(G(s), c, s)
    BY <1>5, <1>6
  <2> HIDE DEF G
  <2>2. G(s)[s] = IF s = {} THEN 0
                  ELSE Weight(c, Pick(s)) + G(s)[s \ {Pick(s)}]
    BY <2>1, SumsValue
  <2>3. CASE s # {}
    <3>1. s \ {Pick(s)} \in SUBSET T /\ s \ {Pick(s)} # T
          /\ s \ {Pick(s)} \subseteq s \cap (s \ {Pick(s)})
      BY <1>6, PickIn
    <3>2. Sums(G(s \ {Pick(s)}), c, s \ {Pick(s)})
      BY <1>5, <3>1
    <3>3. IsFiniteSet(s)
      BY <1>3, FS_Subset
    <3>4. G(s)[s \ {Pick(s)}] = G(s \ {Pick(s)})[s \ {Pick(s)}]
      BY <2>1, <3>1, <3>2, <3>3, SumsAgree
    <3> QED  BY <2>2, <3>4
  <2> QED  BY <2>2, <2>3
<1>7. ASSUME NEW s \in SUBSET T
      PROVE  h[s] = IF s = {} THEN 0
                    ELSE Weight(c, Pick(s)) + h[s \ {Pick(s)}]
  <2> HIDE DEF G
  <2>1. h[s] = step(s)
    OBVIOUS
  <2>2. CASE s # {}
    <3>1. s \ {Pick(s)} \in SUBSET T /\ s \ {Pick(s)} # T
      BY <2>2, PickIn
    <3>2. h[s \ {Pick(s)}] = G(s \ {Pick(s)})[s \ {Pick(s)}]
      <4>1. h[s \ {Pick(s)}] = step(s \ {Pick(s)})
        BY <3>1
      <4> HIDE DEF step, h
      <4> QED  BY <1>6, <3>1, <4>1
    <3> QED  BY <2>1, <3>2
  <2> QED  BY <2>1, <2>2
<1>8. h = [s \in SUBSET T |-> h[s]]
  OBVIOUS
<1> HIDE DEF h
<1>9. Sums(h, c, T)
  BY <1>7, <1>8 DEF Sums
<1> QED  BY <1>3, <1>9

(* More copies of some indices, and fewer of none, are more shards.        *)
LEMMA SumsMonotone ==
    ASSUME NEW S \in SUBSET Indices, NEW c, NEW d, NEW g, NEW h,
           Sums(g, c, S), Sums(h, d, S),
           \A i \in S : c[i] \in Nat /\ d[i] \in Nat /\ c[i] <= d[i]
    PROVE  \A s \in SUBSET S :
              /\ g[s] \in Nat /\ h[s] \in Nat /\ g[s] <= h[s]
              /\ s # {} => g[s] > 0
              /\ (\E i \in s : c[i] < d[i]) => g[s] < h[s]
<1> DEFINE Good(s) == /\ g[s] \in Nat /\ h[s] \in Nat /\ g[s] <= h[s]
                      /\ s # {} => g[s] > 0
                      /\ (\E i \in s : c[i] < d[i]) => g[s] < h[s]
           B == {s \in SUBSET S : ~Good(s)}
<1> SUFFICES ASSUME B # {} PROVE FALSE
  OBVIOUS
<1>1. B \subseteq SUBSET S
  OBVIOUS
<1>2. IsFiniteSet(S)
  BY IndicesAssumption, FS_Subset
<1> HIDE DEF B
<1>3. PICK m \in B : \A t \in B : t \subseteq m => t = m
  BY <1>1, <1>2, SmallestSubset
<1>4. m \in SUBSET S /\ ~Good(m)
  BY <1>3 DEF B
<1> DEFINE x == Pick(m)
           r == m \ {Pick(m)}
<1>5. CASE m = {}
  <2>1. g[m] = 0 /\ h[m] = 0
    BY <1>4, <1>5, SumsValue
  <2> QED  BY <1>4, <1>5, <2>1
<1>6. CASE m # {}
  <2>1. g[m] = Weight(c, x) + g[r] /\ h[m] = Weight(d, x) + h[r]
    BY <1>4, <1>6, SumsValue
  <2>2. x \in m /\ x \in S /\ r \in SUBSET S /\ r \subseteq m /\ r # m
        /\ m = r \cup {x}
    BY <1>4, <1>6, PickIn
  <2>3. Good(r)
    <3> HIDE DEF Good
    <3> QED  BY <1>3, <2>2 DEF B
  <2>4. Primaries[x] \in Nat \ {0} /\ c[x] \in Nat /\ d[x] \in Nat /\ c[x] <= d[x]
    BY <2>2, IndicesAssumption
  <2>5. /\ Weight(c, x) \in Nat \ {0} /\ Weight(d, x) \in Nat
        /\ Weight(c, x) <= Weight(d, x)
        /\ c[x] < d[x] => Weight(c, x) < Weight(d, x)
    <3>1. \A p \in Nat \ {0}, a, b \in Nat : a <= b =>
             /\ p * (a + 1) \in Nat \ {0} /\ p * (b + 1) \in Nat
             /\ p * (a + 1) <= p * (b + 1)
             /\ a < b => p * (a + 1) < p * (b + 1)
      OBVIOUS
    <3> QED  BY <2>4, <3>1 DEF Weight
  <2> HIDE DEF x, r
  <2>6. Good(m)
    BY <2>1, <2>2, <2>3, <2>5
  <2> QED  BY <1>4, <2>6
<1> QED  BY <1>5, <1>6

(* The shards of the indices, for a number of copies of each.              *)
LEMMA ShardsMonotone ==
    ASSUME indices \in SUBSET Indices, NEW c, NEW d,
           \A i \in indices : c[i] \in Nat /\ d[i] \in Nat /\ c[i] <= d[i]
    PROVE  /\ Shards(c) \in Nat /\ Shards(d) \in Nat /\ Shards(c) <= Shards(d)
           /\ indices # {} => Shards(c) > 0
           /\ (\E i \in indices : c[i] < d[i]) => Shards(c) < Shards(d)
<1>1. \A e : Shards(e) = (CHOOSE g : Sums(g, e, indices))[indices]
  BY DEF Shards, MapThenSumSet, MapThenFoldSet, Sums, Weight, Pick
<1>2. IsFiniteSet(indices)
  BY IndicesAssumption, FS_Subset
<1>3. PICK g, h : /\ Sums(g, c, indices) /\ Shards(c) = g[indices]
                  /\ Sums(h, d, indices) /\ Shards(d) = h[indices]
  BY <1>1, <1>2, SumsExist
<1> QED  BY <1>3, SumsMonotone

-----------------------------------------------------------------------------
(* Numbers of nodes.                                                       *)

(* Rounding up a quotient.                                                 *)
LEMMA CeilDivBounds ==
    ASSUME NEW a \in Nat, NEW b \in Nat \ {0}
    PROVE  /\ CeilDiv(a, b) \in Nat
           /\ a <= CeilDiv(a, b) * b /\ (CeilDiv(a, b) - 1) * b < a
BY DEF CeilDiv

(* ensureBoundsNodeReplicas keeps valid bounds, and moves no number that   *)
(* lies between them.                                                      *)
LEMMA Bounds ==
    ASSUME ValidSettings, NEW n \in Nat \ {0}
    PROVE  /\ EnsureBounds(n) \in MinReplicas .. MaxReplicas
           /\ EnsureBounds(n) \in Nat \ {0}
           /\ n <= MaxReplicas => n <= EnsureBounds(n)
           /\ n > MaxReplicas => EnsureBounds(n) = MaxReplicas
           /\ n >= MinReplicas => EnsureBounds(n) <= n
           /\ n < MinReplicas => EnsureBounds(n) = MinReplicas
BY ScalingAssumption DEF ValidSettings, EnsureBounds

(* calculateNodesWithSameShardToNodeRatio does not go the wrong way, and   *)
(* does not make the shards per node more, however it is rounded.          *)
LEMMA SameRatio ==
    ASSUME NEW nodes \in Nat \ {0}, NEW total \in Nat \ {0},
           NEW newTotal \in Nat \ {0}, NEW limit \in Nat \ {0},
           NEW n \in NodesWithSameRatio(nodes, total, newTotal)
    PROVE  /\ n \in Nat \ {0}
           /\ newTotal < total => n <= nodes
           /\ newTotal >= total /\ newTotal >= nodes => n >= nodes
           /\ total <= limit * nodes => newTotal <= limit * n
<1>1. CASE total <= nodes
  <2>1. n = newTotal
    BY <1>1 DEF NodesWithSameRatio
  <2>2. \A x, y \in Nat \ {0} : x <= y * x
    OBVIOUS
  <2> QED  BY <1>1, <2>1, <2>2
<1>2. CASE total > nodes
  <2> DEFINE product == newTotal * nodes
             exact == CeilDiv(product, total)
  <2>1. product \in Nat \ {0}
    OBVIOUS
  <2>2. exact \in Nat /\ product <= exact * total /\ (exact - 1) * total < product
    BY <2>1, CeilDivBounds
  <2>3. n = exact \/ (n = exact + 1 /\ product % total = 0)
    BY <1>2 DEF NodesWithSameRatio
  <2> HIDE DEF exact
  <2>4. exact >= 1
    BY <2>1, <2>2
  <2>5. product % total = 0 => product = exact * total
    <3> SUFFICES ASSUME product % total = 0 PROVE product = exact * total
      OBVIOUS
    <3> DEFINE d == product \div total
    <3> HIDE DEF product
    <3>1. d \in Int /\ product = d * total
      BY <2>1
    <3> HIDE DEF d
    <3>2. d <= exact
      BY <2>2, <3>1
    <3>3. d > exact - 1
      BY <2>2, <3>1
    <3>4. d = exact
      BY <2>2, <3>1, <3>2, <3>3
    <3> QED  BY <3>1, <3>4
  <2>6. n \in Nat \ {0} /\ product <= n * total
    BY <2>1, <2>2, <2>3, <2>4
  <2>7. ASSUME newTotal < total PROVE n <= nodes
    <3>1. product < nodes * total
      BY <2>7
    <3> HIDE DEF product
    <3>2. CASE n = exact
      <4>1. (n - 1) * total < nodes * total
        BY <2>1, <2>2, <2>6, <3>1, <3>2
      <4>2. n - 1 < nodes
        BY <2>6, <4>1
      <4> QED  BY <2>6, <4>2
    <3>3. CASE n = exact + 1 /\ product % total = 0
      <4>1. exact * total < nodes * total
        BY <2>5, <3>1, <3>3
      <4>2. exact < nodes
        BY <2>2, <4>1
      <4> QED  BY <2>2, <3>3, <4>2
    <3> QED  BY <2>3, <3>2, <3>3
  <2>8. ASSUME newTotal >= total PROVE n >= nodes
    <3>1. total * nodes <= product
      BY <2>8
    <3>2. total * nodes <= n * total
      BY <2>1, <2>6, <3>1
    <3> QED  BY <2>6, <3>2
  <2>9. ASSUME total <= limit * nodes PROVE newTotal <= limit * n
    <3>1. n * total <= n * (limit * nodes)
      BY <2>6, <2>9
    <3>2. newTotal * nodes <= (limit * n) * nodes
      BY <2>6, <3>1
    <3> QED  BY <2>6, <3>2
  <2> QED  BY <2>6, <2>7, <2>8, <2>9
<1> QED  BY <1>1, <1>2

(* calculateDecreasedNodes and calculateIncreasedNodes go the right way.   *)
LEMMA Decreased ==
    ASSUME NEW nodes \in Nat \ {0}, NEW total \in Nat \ {0}
    PROVE  DecreasedNodes(nodes, total) \in 1 .. nodes
<1>1. total \div nodes + 1 \in Nat \ {0}
  OBVIOUS
<1>2. CeilDiv(total, total \div nodes + 1) \in Nat
  BY <1>1, CeilDivBounds
<1>3. Min({nodes - 1, CeilDiv(total, total \div nodes + 1)}) \in Int
      /\ Min({nodes - 1, CeilDiv(total, total \div nodes + 1)}) <= nodes - 1
  BY <1>2, MinOfTwo
<1> QED  BY <1>3 DEF DecreasedNodes

(* One shard per node less needs more nodes, once there are more shards    *)
(* than nodes.                                                             *)
LEMMA Increased ==
    ASSUME NEW nodes \in Nat \ {0}, NEW total \in Nat \ {0}, total > nodes
    PROVE  IncreasedNodes(nodes, total) \in Nat
           /\ IncreasedNodes(nodes, total) > nodes
<1> DEFINE q == CeilDiv(total, nodes)
           n == CeilDiv(total, q - 1)
<1>1. q \in Nat /\ total <= q * nodes /\ (q - 1) * nodes < total
  BY CeilDivBounds
<1> HIDE DEF q
<1>2. q >= 2
  BY <1>1
<1>3. q - 1 \in Nat \ {0}
  BY <1>1, <1>2
<1>4. n \in Nat /\ total <= n * (q - 1)
  BY <1>3, CeilDivBounds
<1>5. IncreasedNodes(nodes, total) = n
  BY DEF IncreasedNodes, q
<1> HIDE DEF n
<1>6. (q - 1) * nodes < n * (q - 1)
  BY <1>1, <1>3, <1>4
<1>7. nodes < n
  BY <1>3, <1>4, <1>6
<1> QED  BY <1>4, <1>5, <1>7

-----------------------------------------------------------------------------
(* The operation scaleUpOrDown returns.                                    *)

Target(o) == IF o.nodes = Nil THEN Current ELSE o.nodes

IndexChange(change) ==
    \E S \in SUBSET Indices :
       change \in [S -> MinIndexReplicas .. MaxIndexReplicas]

(* What spec.replicas may become.                                          *)
NodesSound(direction, n, change) ==
    /\ n # Current => n \in MinReplicas .. MaxReplicas
    /\ ByHint => /\ n > Current => Hint = "UP"
                 /\ n < Current => Hint = "DOWN"
    /\ direction = "DOWN" /\ n < Current /\ Current <= MaxReplicas
         => NewShards(change) <= MaxShardsPerNode * n

Sound(o) ==
    /\ o.direction \in Directions
    /\ o.nodes \in (Nat \ {0}) \cup {Nil}
    /\ IndexChange(o.change)
    /\ NodesSound(o.direction, Target(o), o.change)

(* edsReplicas is a number of nodes, 0 if a user asks for that.            *)
LEMMA CurrentType ==
    ASSUME TypeOK, ValidSettings
    PROVE  Current \in Nat
BY ScalingAssumption DEF TypeOK, ValidSettings, Current

(* The fields of an operation.                                             *)
LEMMA Fields ==
    ASSUME NEW d, NEW n, NEW c
    PROVE  /\ Operation(d, n, c).direction = d
           /\ Operation(d, n, c).nodes = n
           /\ Operation(d, n, c).change = c
BY DEF Operation

(* An operation on nodes only leaves the indices alone.                    *)
LEMMA NoChangeIs ==
    IndexChange(NoChange) /\ NewShards(NoChange) = Shards([i \in Indices |-> copies[i]])
<1>1. NoChange \in [{} -> MinIndexReplicas .. MaxIndexReplicas] /\ DOMAIN NoChange = {}
  BY DEF NoChange
<1> HIDE DEF NoChange
<1>2. IndexChange(NoChange)
  BY <1>1 DEF IndexChange
<1>3. [i \in Indices |-> IF i \in DOMAIN NoChange THEN NoChange[i] ELSE copies[i]]
        = [i \in Indices |-> copies[i]]
  BY <1>1
<1>4. NewShards(NoChange) = Shards([i \in Indices |-> copies[i]])
  BY <1>3 DEF NewShards
<1> QED  BY <1>2, <1>4

(* An operation is sound if its number of nodes and its change of indices  *)
(* are.                                                                    *)
LEMMA NodeOperationSound ==
    ASSUME TypeOK, ValidSettings, NEW d \in Directions, NEW n \in Nat \ {0},
           NEW change, IndexChange(change), NodesSound(d, n, change)
    PROVE  Sound(Operation(d, n, change))
<1>1. n # Nil
  BY UserAssumption
<1>2. Target(Operation(d, n, change)) = n
  BY <1>1, Fields DEF Target
<1> QED  BY <1>2, Fields DEF Sound

(* A number of nodes that is not smaller than the current one stays so     *)
(* unless there are already too many.                                      *)
LEMMA NotFewer ==
    ASSUME TypeOK, ValidSettings, NEW n \in Nat \ {0}, n >= Current,
           NEW d, NEW change, ByHint => n = Current \/ Hint = "UP"
    PROVE  EnsureBounds(n) \in Nat \ {0} /\ NodesSound(d, EnsureBounds(n), change)
<1> DEFINE e == EnsureBounds(n)
<1>1. Current \in Nat
  BY CurrentType
<1>2. e \in MinReplicas .. MaxReplicas /\ e \in Nat \ {0}
      /\ (Current <= MaxReplicas => e >= Current)
  BY <1>1, Bounds, ScalingAssumption DEF ValidSettings
<1>3. ByHint => EnsureBounds(Current) = Current /\ Current <= MaxReplicas
  <2>1. ByHint => Current # 0
    BY DEF ByHint, EnsureBounds
  <2> QED  BY <1>1, <2>1, Bounds, ScalingAssumption DEF ByHint, ValidSettings
<1> HIDE DEF e
<1>4. e < Current => ~(Current <= MaxReplicas) /\ ~ByHint
  BY <1>1, <1>2, <1>3, ScalingAssumption
<1>5. ByHint /\ e > Current => Hint = "UP"
  BY <1>3 DEF e
<1>6. NodesSound(d, e, change)
  BY <1>2, <1>4, <1>5 DEF NodesSound
<1> QED  BY <1>2, <1>6 DEF e

(* calculateScalingDirection knows three directions.                       *)
LEMMA DirectionType ==
    ASSUME NEW a \in Int, NEW b \in Int
    PROVE  ScalingDirection(a, b) \in Directions
BY DEF ScalingDirection, Directions

(* The indices that exist have shards, the more the more copies they have. *)
LEMMA TotalType ==
    ASSUME TypeOK, indices # {}
    PROVE  Shards(copies) \in Nat \ {0}
<1>1. indices \in SUBSET Indices /\ \A i \in indices : copies[i] \in Nat
  BY DEF TypeOK
<1>2. \A i \in indices : copies[i] <= copies[i]
  BY <1>1
<1> QED  BY <1>1, <1>2, ShardsMonotone

(* With at most maxShardsPerNode shards per node there are nodes.          *)
LEMMA CurrentPositive ==
    ASSUME TypeOK, ValidSettings, indices # {},
           Shards(copies) <= MaxShardsPerNode * Current
    PROVE  Current \in Nat \ {0}
<1>1. Current \in Nat /\ Shards(copies) \in Nat \ {0}
  BY CurrentType, TotalType
<1>2. Current # 0
  <2> SUFFICES ASSUME Current = 0 PROVE FALSE
    OBVIOUS
  <2>1. MaxShardsPerNode * Current = 0
    BY ScalingAssumption
  <2> QED  BY <1>1, <2>1
<1> QED  BY <1>1, <1>2

(* Nodes added for too many shards per node, or kept.                      *)
LEMMA NotFewerOperation ==
    ASSUME TypeOK, ValidSettings, NEW n \in Nat \ {0}, n >= Current,
           ByHint => n = Current \/ Hint = "UP"
    PROVE  Sound(NodeOperation(Current, EnsureBounds(n)))
<1> DEFINE e == EnsureBounds(n)
           d == ScalingDirection(Current, e)
<1>1. e \in Nat \ {0} /\ NodesSound(d, e, NoChange)
  BY NotFewer
<1>2. d \in Directions
  BY <1>1, CurrentType, DirectionType
<1> HIDE DEF e, d
<1>3. Sound(Operation(d, e, NoChange))
  BY <1>1, <1>2, NoChangeIs, NodeOperationSound
<1> QED  BY <1>3 DEF NodeOperation, e, d

(* Doing nothing is sound.                                                 *)
LEMMA NoopSound ==
    ASSUME TypeOK, ValidSettings
    PROVE  Sound(Noop)
<1>1. Target(Noop) = Current
  BY Fields DEF Target, Noop
<1>2. NodesSound("NONE", Current, NoChange)
  BY CurrentType DEF NodesSound
<1> QED  BY <1>1, <1>2, Fields, NoChangeIs DEF Sound, Noop, Directions

(* The shards after a change of copies, compared with those before.        *)
LEMMA NewShardsAre ==
    ASSUME TypeOK, indices # {}, NEW change, IndexChange(change)
    PROVE  /\ NewShards(change) \in Nat \ {0}
           /\ (\A i \in indices \cap DOMAIN change : change[i] >= copies[i])
                => NewShards(change) >= Shards(copies)
           /\ (\A i \in indices \cap DOMAIN change : change[i] < copies[i])
                /\ indices \cap DOMAIN change # {}
                => NewShards(change) < Shards(copies)
<1> DEFINE new == [i \in Indices |->
                     IF i \in DOMAIN change THEN change[i] ELSE copies[i]]
<1>1. indices \in SUBSET Indices /\ copies \in [Indices -> Nat]
  BY DEF TypeOK
<1>2. PICK S \in SUBSET Indices : change \in [S -> MinIndexReplicas .. MaxIndexReplicas]
  BY DEF IndexChange
<1>3. \A i \in DOMAIN change : change[i] \in Nat
  BY <1>2, ScalingAssumption
<1>4. \A i \in indices : /\ copies[i] \in Nat /\ new[i] \in Nat
                         /\ i \in DOMAIN change => new[i] = change[i]
                         /\ i \notin DOMAIN change => new[i] = copies[i]
  BY <1>1, <1>3
<1>5. NewShards(change) = Shards(new)
  BY DEF NewShards
<1> HIDE DEF new
<1>6. Shards(new) \in Nat \ {0}
  <2>1. \A i \in indices : new[i] <= new[i]
    BY <1>4
  <2> QED  BY <1>1, <1>4, <2>1, ShardsMonotone
<1>7. ASSUME \A i \in indices \cap DOMAIN change : change[i] >= copies[i]
      PROVE  Shards(new) >= Shards(copies)
  <2>1. \A i \in indices : copies[i] <= new[i]
    BY <1>4, <1>7
  <2>2. Shards(copies) <= Shards(new) /\ Shards(copies) \in Nat
    BY <1>1, <1>4, <2>1, ShardsMonotone
  <2> QED  BY <1>6, <2>2
<1>8. ASSUME \A i \in indices \cap DOMAIN change : change[i] < copies[i],
             indices \cap DOMAIN change # {}
      PROVE  Shards(new) < Shards(copies)
  <2>1. \A i \in indices : new[i] <= copies[i]
    <3>1. \A i \in indices : i \in DOMAIN change => new[i] < copies[i]
      BY <1>4, <1>8
    <3> QED  BY <1>4, <3>1
  <2>2. \E i \in indices : new[i] < copies[i]
    BY <1>4, <1>8
  <2> QED  BY <1>1, <1>4, <2>1, <2>2, ShardsMonotone
<1> QED  BY <1>5, <1>6, <1>7, <1>8

(* Too many shards per node.                                               *)
LEMMA OverloadSound ==
    ASSUME TypeOK, ValidSettings, Accepted, indices # {},
           Shards(copies) > MaxShardsPerNode * Current
    PROVE  Sound(NodeOperation(Current,
                    EnsureBounds(CeilDiv(Shards(copies), MaxShardsPerNode))))
<1> DEFINE total == Shards(copies)
           n == CeilDiv(total, MaxShardsPerNode)
<1>1. Current \in Nat /\ total \in Nat \ {0}
      /\ MaxShardsPerNode \in Nat \ {0}
  BY CurrentType, TotalType, ScalingAssumption DEF Accepted
<1>2. n \in Nat /\ total <= n * MaxShardsPerNode
  BY <1>1, CeilDivBounds
<1>3. ~ByHint
  BY <1>1 DEF ByHint
<1> HIDE DEF total, n
<1>4. total > MaxShardsPerNode * Current
  BY DEF total
<1>5. MaxShardsPerNode * Current < n * MaxShardsPerNode
  BY <1>1, <1>2, <1>4
<1>6. Current < n
  BY <1>1, <1>2, <1>5
<1>7. Sound(NodeOperation(Current, EnsureBounds(n)))
  BY <1>1, <1>2, <1>3, <1>6, NotFewerOperation
<1> QED  BY <1>7 DEF n, total

(* Indices brought back into their bounds.                                 *)
LEMMA FixIndicesSound ==
    ASSUME TypeOK, ValidSettings, NEW o \in FixIndices
    PROVE  Sound(o)
<1> DEFINE change == [i \in OutOfBounds |-> IF copies[i] < MinIndexReplicas
                                            THEN MinIndexReplicas
                                            ELSE MaxIndexReplicas]
<1>1. OutOfBounds \in SUBSET Indices
  BY DEF OutOfBounds, TypeOK
<1>2. MinIndexReplicas \in MinIndexReplicas .. MaxIndexReplicas
      /\ MaxIndexReplicas \in MinIndexReplicas .. MaxIndexReplicas
  BY ScalingAssumption DEF ValidSettings
<1>3. change \in [OutOfBounds -> MinIndexReplicas .. MaxIndexReplicas]
  BY <1>2
<1>4. IndexChange(change)
  BY <1>1, <1>3 DEF IndexChange
<1>5. PICK d \in {"UP", "DOWN"} : o = Operation(d, Nil, change)
  BY DEF FixIndices
<1> HIDE DEF change
<1>6. o.direction = d /\ o.nodes = Nil /\ o.change = change
  BY <1>5, Fields
<1>7. NodesSound(d, Current, change)
  BY CurrentType DEF NodesSound
<1> QED  BY <1>4, <1>6, <1>7 DEF Sound, Target, Directions

(* Scaling up: index replicas or nodes are added, never nodes removed.     *)
LEMMA ScaleUpSound ==
    ASSUME TypeOK, ValidSettings, Accepted, indices # {}, OutOfBounds = {},
           Hint = "UP", Shards(copies) <= MaxShardsPerNode * Current,
           NEW o \in ScaleUp(Current, Shards(copies))
    PROVE  Sound(o)
<1> DEFINE total == Shards(copies)
           change == [i \in indices |-> copies[i] + 1]
           newTotal == NewShards(change)
<1>1. Current \in Nat \ {0} /\ total \in Nat \ {0}
      /\ MinShardsPerNode \in Nat \ {0}
  BY CurrentPositive, TotalType, ScalingAssumption DEF Accepted
<1>2. MinShardsPerNode * Current >= Current
  <2>1. \A a, b \in Nat \ {0} : a * b >= b
    OBVIOUS
  <2> QED  BY <1>1, <2>1
<1>3. CASE total > MinShardsPerNode * Current
  <2> DEFINE n == IncreasedNodes(Current, total)
  <2>1. total > Current
    <3> HIDE DEF total
    <3> QED  BY <1>1, <1>2, <1>3
  <2>2. n \in Nat /\ n > Current
    BY <1>1, <2>1, Increased
  <2>3. o = NodeOperation(Current, EnsureBounds(n))
    BY <1>3 DEF ScaleUp
  <2> HIDE DEF n
  <2>4. n \in Nat \ {0} /\ n >= Current
    BY <1>1, <2>2
  <2> QED  BY <2>3, <2>4, NotFewerOperation
<1>4. CASE /\ ~(total > MinShardsPerNode * Current)
           /\ ~(\E i \in indices : copies[i] >= MaxIndexReplicas)
  <2>1. \A i \in indices : copies[i] \in MinIndexReplicas .. MaxIndexReplicas
    BY DEF OutOfBounds
  <2>2. \A i \in indices : copies[i] + 1 \in MinIndexReplicas .. MaxIndexReplicas
                           /\ copies[i] + 1 >= copies[i]
    BY <1>4, <2>1, ScalingAssumption
  <2>3. change \in [indices -> MinIndexReplicas .. MaxIndexReplicas]
    BY <2>2
  <2>4. IndexChange(change)
    BY <2>3 DEF IndexChange, TypeOK
  <2>5. \A i \in indices \cap DOMAIN change : change[i] >= copies[i]
    BY <2>2
  <2>6. newTotal \in Nat \ {0} /\ newTotal >= total
    <3> HIDE DEF change
    <3> QED  BY <2>4, <2>5, NewShardsAre
  <2>7. CASE newTotal < MinShardsPerNode * Current
    <3>1. o = Operation("UP", Current, change)
      BY <1>4, <2>7 DEF ScaleUp
    <3> HIDE DEF change
    <3>2. NodesSound("UP", Current, change)
      BY <1>1 DEF NodesSound
    <3> QED  BY <1>1, <2>4, <3>1, <3>2, NodeOperationSound DEF Directions
  <2>8. CASE ~(newTotal < MinShardsPerNode * Current)
    <3>1. PICK n \in NodesWithSameRatio(Current, total, newTotal) :
             o = Operation("UP", EnsureBounds(n), change)
      BY <1>4, <2>8 DEF ScaleUp
    <3> HIDE DEF change, newTotal, total
    <3>2. newTotal >= Current
      BY <1>1, <1>2, <2>6, <2>8
    <3>3. n \in Nat \ {0} /\ n >= Current
      BY <1>1, <2>6, <3>2, SameRatio
    <3>4. EnsureBounds(n) \in Nat \ {0} /\ NodesSound("UP", EnsureBounds(n), change)
      BY <3>3, NotFewer
    <3> QED  BY <2>4, <3>1, <3>4, NodeOperationSound DEF Directions
  <2> QED  BY <2>7, <2>8
<1>5. CASE /\ ~(total > MinShardsPerNode * Current)
           /\ \E i \in indices : copies[i] >= MaxIndexReplicas
  <2>1. o = Noop
    BY <1>5 DEF ScaleUp
  <2> QED  BY <2>1, NoopSound
<1> QED  BY <1>3, <1>4, <1>5

(* A number of nodes that is not larger than the current one stays so      *)
(* unless there are too few, and the bounds do not raise the shards per    *)
(* node.                                                                   *)
LEMMA NotMore ==
    ASSUME TypeOK, ValidSettings, indices # {}, Hint = "DOWN",
           NEW n \in Nat \ {0}, n <= Current, NEW d, NEW change,
           IndexChange(change),
           NewShards(change) <= MaxShardsPerNode * n
             \/ NewShards(change) <= MaxShardsPerNode * EnsureBounds(n)
    PROVE  EnsureBounds(n) \in Nat \ {0} /\ NodesSound(d, EnsureBounds(n), change)
<1> DEFINE e == EnsureBounds(n)
           t == NewShards(change)
<1>1. Current \in Nat \ {0} /\ t \in Nat /\ MaxShardsPerNode \in Nat
  BY CurrentType, NewShardsAre, ScalingAssumption
<1>2. /\ e \in MinReplicas .. MaxReplicas /\ e \in Nat \ {0}
      /\ n <= MaxReplicas => n <= e
      /\ Current >= MinReplicas => e <= Current
  BY <1>1, Bounds, ScalingAssumption DEF ValidSettings
<1>3. ByHint => Current >= MinReplicas
  <2>1. EnsureBounds(Current) \in MinReplicas .. MaxReplicas
    BY <1>1, Bounds
  <2> QED  BY <2>1, ScalingAssumption DEF ByHint
<1>4. t <= MaxShardsPerNode * n \/ t <= MaxShardsPerNode * e
  OBVIOUS
<1> HIDE DEF e, t
<1>5. ASSUME Current <= MaxReplicas PROVE t <= MaxShardsPerNode * e
  <2>1. n <= e
    BY <1>1, <1>2, <1>5, ScalingAssumption
  <2>2. MaxShardsPerNode * n <= MaxShardsPerNode * e
    <3>1. \A a, b, c \in Nat : a <= b => c * a <= c * b
      OBVIOUS
    <3> QED  BY <1>1, <1>2, <2>1, <3>1
  <2>3. MaxShardsPerNode * n \in Nat /\ MaxShardsPerNode * e \in Nat
    BY <1>1, <1>2
  <2> QED  BY <1>1, <1>4, <2>2, <2>3
<1>6. ByHint => ~(e > Current)
  BY <1>1, <1>2, <1>3
<1>7. NodesSound(d, e, change)
  BY <1>2, <1>5, <1>6 DEF NodesSound, t
<1> QED  BY <1>2, <1>7 DEF e

(* Scaling down: index replicas, or nodes.                                 *)
LEMMA ScaleDownSound ==
    ASSUME TypeOK, ValidSettings, Accepted, indices # {}, OutOfBounds = {},
           Hint = "DOWN", Shards(copies) <= MaxShardsPerNode * Current,
           NEW o \in ScaleDown(Current, Shards(copies))
    PROVE  Sound(o)
<1> DEFINE total == Shards(copies)
           spare == {i \in indices : copies[i] > MinIndexReplicas}
           change == [i \in spare |-> copies[i] - 1]
           newTotal == NewShards(change)
           fewer == DecreasedNodes(Current, total)
           new == EnsureBounds(fewer)
<1>1. Current \in Nat \ {0} /\ total \in Nat \ {0}
      /\ MaxShardsPerNode \in Nat \ {0}
  BY CurrentPositive, TotalType, ScalingAssumption DEF Accepted
<1>2. CASE spare # {}
  <2>1. \A i \in indices : copies[i] \in MinIndexReplicas .. MaxIndexReplicas
    BY DEF OutOfBounds
  <2>2. \A i \in spare : copies[i] - 1 \in MinIndexReplicas .. MaxIndexReplicas
                         /\ copies[i] - 1 < copies[i]
    BY <2>1, ScalingAssumption
  <2>3. change \in [spare -> MinIndexReplicas .. MaxIndexReplicas]
    BY <2>2
  <2>4. IndexChange(change)
    BY <2>3 DEF IndexChange, TypeOK
  <2>5. /\ \A i \in indices \cap DOMAIN change : change[i] < copies[i]
        /\ indices \cap DOMAIN change # {}
    BY <1>2, <2>2
  <2>6. PICK n \in NodesWithSameRatio(Current, total, newTotal) :
           o = Operation(ScalingDirection(Current, EnsureBounds(n)),
                         EnsureBounds(n), change)
    BY <1>2 DEF ScaleDown
  <2> HIDE DEF spare, change
  <2>7. newTotal \in Nat \ {0} /\ newTotal < total
    BY <2>4, <2>5, NewShardsAre
  <2>8. n \in Nat \ {0} /\ n <= Current /\ newTotal <= MaxShardsPerNode * n
    <3> HIDE DEF newTotal
    <3>1. total <= MaxShardsPerNode * Current
      OBVIOUS
    <3> HIDE DEF total
    <3> QED  BY <1>1, <2>7, <3>1, SameRatio
  <2> DEFINE d == ScalingDirection(Current, EnsureBounds(n))
  <2>9. EnsureBounds(n) \in Nat \ {0} /\ NodesSound(d, EnsureBounds(n), change)
    <3> HIDE DEF d
    <3> QED  BY <2>4, <2>8, NotMore
  <2>10. d \in Directions
    BY <1>1, <2>9, DirectionType
  <2> QED  BY <2>4, <2>6, <2>9, <2>10, NodeOperationSound
<1>3. CASE spare = {} /\ total > MaxShardsPerNode * new
  <2>1. o = Noop
    BY <1>3 DEF ScaleDown
  <2> QED  BY <2>1, NoopSound
<1>4. CASE spare = {} /\ ~(total > MaxShardsPerNode * new)
  <2>1. o = Operation(ScalingDirection(Current, new), new, NoChange)
    BY <1>4 DEF ScaleDown, NodeOperation
  <2>2. NewShards(NoChange) = total /\ IndexChange(NoChange)
    <3>1. copies = [i \in Indices |-> copies[i]]
      BY DEF TypeOK
    <3> QED  BY <3>1, NoChangeIs
  <2>3. fewer \in Nat \ {0} /\ fewer <= Current
    <3>1. fewer \in 1 .. Current
      BY <1>1, Decreased
    <3> QED  BY <1>1, <3>1
  <2>4. new \in Nat \ {0}
    BY <2>3, Bounds
  <2>5. NewShards(NoChange) <= MaxShardsPerNode * new
    <3> HIDE DEF total, new
    <3>1. MaxShardsPerNode * new \in Nat
      BY <1>1, <2>4
    <3> QED  BY <1>1, <1>4, <2>2, <3>1
  <2> DEFINE d == ScalingDirection(Current, new)
  <2>6. NodesSound(d, new, NoChange)
    <3> HIDE DEF d, fewer
    <3> QED  BY <2>2, <2>3, <2>5, NotMore
  <2>7. d \in Directions
    BY <1>1, <2>4, DirectionType
  <2> QED  BY <2>1, <2>2, <2>4, <2>6, <2>7, NodeOperationSound
<1> QED  BY <1>2, <1>3, <1>4

(* The operation is sound in every case, and so is what the safety checks  *)
(* make of it.                                                             *)
LEMMA ScaleUpOrDownSound ==
    ASSUME TypeOK, ValidSettings, Accepted, indices # {},
           NEW o \in ScaleUpOrDown(Current)
    PROVE  Sound(o)
<1> DEFINE total == Shards(copies)
<1>1. Current \in Nat /\ total \in Nat \ {0}
      /\ MaxShardsPerNode * Current \in Nat
  BY CurrentType, TotalType, ScalingAssumption
<1>2. CASE total > MaxShardsPerNode * Current
  <2>1. o = NodeOperation(Current, EnsureBounds(CeilDiv(total, MaxShardsPerNode)))
    BY <1>2 DEF ScaleUpOrDown, NodesForShards, Accepted
  <2> QED  BY <1>2, <2>1, OverloadSound
<1>3. CASE total <= MaxShardsPerNode * Current /\ OutOfBounds # {}
  <2>1. o \in FixIndices
    BY <1>1, <1>3 DEF ScaleUpOrDown
  <2> QED  BY <2>1, FixIndicesSound
<1>4. CASE total <= MaxShardsPerNode * Current /\ OutOfBounds = {}
  <2>1. o \in CASE Hint = "UP" -> ScaleUp(Current, total)
                [] Hint = "DOWN" -> ScaleDown(Current, total)
                [] OTHER -> {NodeOperation(Current, EnsureBounds(Current))}
    BY <1>1, <1>4 DEF ScaleUpOrDown
  <2>2. CASE Hint = "UP"
    <3>1. o \in ScaleUp(Current, total)
      BY <2>1, <2>2
    <3> QED  BY <1>4, <2>2, <3>1, ScaleUpSound
  <2>3. CASE Hint = "DOWN"
    <3>1. o \in ScaleDown(Current, total)
      BY <2>1, <2>3
    <3> QED  BY <1>4, <2>3, <3>1, ScaleDownSound
  <2>4. CASE Hint # "UP" /\ Hint # "DOWN"
    <3>1. o = NodeOperation(Current, EnsureBounds(Current))
      BY <2>1, <2>4
    <3>2. Current \in Nat \ {0} /\ Current >= Current
      BY <1>4, CurrentPositive
    <3> QED  BY <3>1, <3>2, NotFewerOperation
  <2> QED  BY <2>2, <2>3, <2>4
<1> QED
  <2>1. total > MaxShardsPerNode * Current \/ total <= MaxShardsPerNode * Current
    <3> HIDE DEF total
    <3> QED  BY <1>1
  <2> QED  BY <1>2, <1>3, <1>4, <2>1

(* Whatever is decided, with full disks or not, is sound if the EDS can be *)
(* written, and only decided with valid settings.                          *)
LEMMA DecideSound ==
    ASSUME TypeOK, Accepted, NEW diskFull, NEW o \in Decide(diskFull)
    PROVE  Sound(o) /\ ValidSettings
<1>1. ValidSettings /\ o.direction # "NONE" /\ o \in ScalingOperations(diskFull)
  BY DEF Decide
<1>2. o # Noop
  BY <1>1, Fields DEF Noop
<1>3. indices # {} /\ o \in ScaleUpOrDown(Current)
  BY <1>1, <1>2 DEF ScalingOperations, ManagedIndices
<1> QED  BY <1>1, <1>3, ScaleUpOrDownSound

-----------------------------------------------------------------------------
(* The inductive invariant: the operation that is pending keeps the bounds *)
(* of the indices, and a cool-down that is over for the autoscaler is over *)
(* for the nodes too.                                                      *)

CooldownInv == sinceUp <= upAgo /\ sinceDown <= downAgo

AutoscalerInv == TypeOK /\ IndexChange(op.change) /\ CooldownInv

(* A new operation is one the autoscaler decided on, and spec.replicas is  *)
(* written with it.                                                        *)
Decided ==
    Accepted /\ \E diskFull \in BOOLEAN : \E o \in Decide(diskFull) :
       op' = o /\ replicas' = Target(o)

(* No other step than Autoscale writes a new operation.                    *)
LEMMA NewOperation ==
    ASSUME Next, op' # op, op'.direction # "NONE"
    PROVE  Decided
<1>1. Noop.direction = "NONE"
  BY Fields DEF Noop
<1>2. \E diskFull \in BOOLEAN : Autoscale(diskFull)
  BY <1>1 DEF Next, Scale, Operate, Disturb, Panic, StampOnly, Grow, Shrink,
     Apply, ApplyUntilGone, Tick, AutoscaleFails, ApplyPartly, SetReplicas,
     DeleteIndex, SetIndexReplicas, Load
<1> QED  BY <1>2 DEF Autoscale, Decided, Target

(* What is decided, in terms of what is written to the EDS.                *)
LEMMA DecidedSound ==
    ASSUME TypeOK, Decided
    PROVE  /\ ValidSettings /\ NodesSound(op'.direction, replicas', op'.change)
           /\ IndexChange(op'.change) /\ op'.direction \in Directions
           /\ op'.nodes \in (Nat \ {0}) \cup {Nil} /\ replicas' \in Nat
<1>1. PICK diskFull \in BOOLEAN : \E o \in Decide(diskFull) :
         op' = o /\ replicas' = Target(o)
  BY DEF Decided
<1>2. PICK o \in Decide(diskFull) : op' = o /\ replicas' = Target(o)
  BY <1>1
<1>3. Sound(o) /\ ValidSettings
  BY DecideSound DEF Decided
<1>4. Target(o) \in Nat
  BY <1>3, CurrentType DEF Sound, Target
<1> QED  BY <1>2, <1>3, <1>4 DEF Sound

(* A change within the bounds of the indices is a change of natural        *)
(* numbers.                                                                *)
LEMMA ChangeType ==
    ASSUME NEW change, IndexChange(change)
    PROVE  /\ \E S \in SUBSET Indices : change \in [S -> Nat]
           /\ \A i \in DOMAIN change :
                 change[i] \in MinIndexReplicas .. MaxIndexReplicas
                 /\ change[i] \in Nat
<1>1. PICK S \in SUBSET Indices : change \in [S -> MinIndexReplicas .. MaxIndexReplicas]
  BY DEF IndexChange
<1>2. \A n \in MinIndexReplicas .. MaxIndexReplicas : n \in Nat
  BY ScalingAssumption
<1>3. change \in [S -> Nat]
  BY <1>1, <1>2
<1> QED  BY <1>1, <1>2, <1>3

(* The fields of an operation that was removed.                            *)
LEMMA NoopType ==
    /\ Noop.direction \in Directions /\ Noop.nodes \in (Nat \ {0}) \cup {Nil}
    /\ IndexChange(Noop.change)
BY Fields, NoChangeIs DEF Noop, Directions

(* Writes of index settings set copies the operation asks for.             *)
LEMMA CopiesSet ==
    ASSUME AutoscalerInv, NEW S, S \subseteq DOMAIN op.change, SetCopies(S)
    PROVE  /\ copies' \in [Indices -> Nat]
           /\ \A i \in Indices : copies'[i] # copies[i]
                 => copies'[i] \in MinIndexReplicas .. MaxIndexReplicas
<1>1. copies \in [Indices -> Nat]
  BY DEF AutoscalerInv, TypeOK
<1>2. \A i \in S : op.change[i] \in MinIndexReplicas .. MaxIndexReplicas
                   /\ op.change[i] \in Nat
  BY ChangeType DEF AutoscalerInv
<1> DEFINE change == op.change
<1>3. copies' = [i \in Indices |-> IF i \in S THEN change[i] ELSE copies[i]]
  BY DEF SetCopies
<1>4. \A i \in S : change[i] \in MinIndexReplicas .. MaxIndexReplicas
                   /\ change[i] \in Nat
  BY <1>2
<1> HIDE DEF change
<1> QED  BY <1>1, <1>3, <1>4

(* The invariant holds in the beginning.                                   *)
LEMMA InitInv ==
    Init => AutoscalerInv
<1> SUFFICES ASSUME Init PROVE AutoscalerInv
  OBVIOUS
<1>1. /\ replicas \in Nat \cup {Nil} /\ size \in Nat
      /\ copies \in [Indices -> Nat]
  BY UserAssumption DEF Init
<1>2. IndexChange(op.change) /\ op.direction \in Directions
      /\ op.nodes \in (Nat \ {0}) \cup {Nil}
  BY NoopType DEF Init
<1>3. \E S \in SUBSET Indices : op.change \in [S -> Nat]
  BY <1>2, ChangeType
<1>4. sinceUp \in 0 .. UpCooldown /\ sinceDown \in 0 .. DownCooldown
      /\ upAgo \in 0 .. UpCooldown /\ downAgo \in 0 .. DownCooldown
      /\ CooldownInv
  BY ScalingAssumption DEF Init, CooldownInv
<1> QED  BY <1>1, <1>2, <1>3, <1>4 DEF Init, AutoscalerInv, TypeOK

(* The clocks, however they are stamped.                                   *)
ClocksOK ==
    /\ sinceUp \in 0 .. UpCooldown /\ sinceDown \in 0 .. DownCooldown
    /\ upAgo \in 0 .. UpCooldown /\ downAgo \in 0 .. DownCooldown
    /\ CooldownInv

(* Every step keeps the clocks in their range, and the times in the status *)
(* no longer ago than the changes of nodes.                                *)
LEMMA ClocksStep ==
    ASSUME ClocksOK, Next \/ UNCHANGED vars
    PROVE  ClocksOK'
<1>1. CASE UNCHANGED clocks
  BY <1>1 DEF ClocksOK, CooldownInv, clocks, history
<1>2. ASSUME NEW o, Stamp(o), UNCHANGED history PROVE ClocksOK'
  BY <1>2, ScalingAssumption DEF Stamp, history, ClocksOK, CooldownInv
<1>3. ASSUME NEW diskFull, Autoscale(diskFull) PROVE ClocksOK'
  <2>1. PICK o \in Decide(diskFull) : Stamp(o) /\ replicas' = Target(o)
    BY <1>3 DEF Autoscale, Target
  <2>2. upAgo' = (IF Target(o) > Current THEN 0 ELSE upAgo)
        /\ downAgo' = (IF Target(o) < Current THEN 0 ELSE downAgo)
    BY <1>3, <2>1 DEF Autoscale
  <2>3. sinceUp' = (IF Target(o) > Current THEN 0 ELSE sinceUp)
        /\ sinceDown' = (IF Target(o) < Current THEN 0 ELSE sinceDown)
    BY <2>1 DEF Stamp, Target
  <2> QED  BY <2>2, <2>3, ScalingAssumption DEF ClocksOK, CooldownInv
<1>4. CASE Tick
  <2>1. \A a, b \in Nat : Min({a + 1, b}) = IF a + 1 <= b THEN a + 1 ELSE b
    BY MinOfTwo
  <2>2. sinceUp \in Nat /\ sinceDown \in Nat /\ upAgo \in Nat /\ downAgo \in Nat
    BY ScalingAssumption DEF ClocksOK
  <2>3. /\ sinceUp' = IF sinceUp + 1 <= UpCooldown THEN sinceUp + 1 ELSE UpCooldown
        /\ upAgo' = IF upAgo + 1 <= UpCooldown THEN upAgo + 1 ELSE UpCooldown
        /\ sinceDown' = IF sinceDown + 1 <= DownCooldown THEN sinceDown + 1
                        ELSE DownCooldown
        /\ downAgo' = IF downAgo + 1 <= DownCooldown THEN downAgo + 1
                      ELSE DownCooldown
    BY <1>4, <2>1, <2>2, ScalingAssumption DEF Tick
  <2> QED  BY <2>2, <2>3, ScalingAssumption DEF ClocksOK, CooldownInv
<1>5. CASE Panic \/ AutoscaleFails
  BY <1>2, <1>5 DEF Panic, AutoscaleFails, StampOnly
<1> QED
  BY <1>1, <1>3, <1>4, <1>5 DEF Next, Scale, Operate, Disturb, Grow, Shrink,
     Apply, ApplyUntilGone, ApplyPartly, SetReplicas, DeleteIndex,
     SetIndexReplicas, Load, vars

(* The operation and the numbers of replicas.                              *)
OperationOK ==
    /\ op.direction \in Directions /\ op.nodes \in (Nat \ {0}) \cup {Nil}
    /\ IndexChange(op.change)

(* Every step leaves a pending operation that keeps the bounds of the      *)
(* indices.                                                                *)
LEMMA OperationStep ==
    ASSUME AutoscalerInv, Next \/ UNCHANGED vars
    PROVE  OperationOK' /\ replicas' \in Nat \cup {Nil}
<1>1. OperationOK /\ TypeOK /\ replicas \in Nat \cup {Nil}
  BY DEF AutoscalerInv, OperationOK, TypeOK
<1>2. ASSUME Decided PROVE OperationOK'
  BY <1>1, <1>2, DecidedSound DEF OperationOK, IndexChange
<1>3. ASSUME op' = op \/ op' = Noop PROVE OperationOK'
  BY <1>1, <1>3, NoopType DEF OperationOK, IndexChange
<1>4. op' = op \/ op' = Noop \/ Decided
  BY DEF Next, Scale, Operate, Disturb, Panic, StampOnly, Grow, Shrink,
     Apply, ApplyUntilGone, Tick, AutoscaleFails, ApplyPartly, SetReplicas,
     DeleteIndex, SetIndexReplicas, Load, vars, Autoscale, Decided, Target
<1>5. Decided \/ replicas' = replicas \/ replicas' \in UserReplicas
  BY DEF Next, Scale, Operate, Disturb, Panic, StampOnly, Grow, Shrink,
     Apply, ApplyUntilGone, Tick, AutoscaleFails, ApplyPartly, SetReplicas,
     DeleteIndex, SetIndexReplicas, Load, vars, Autoscale, Decided, Target
<1>6. replicas' \in Nat \cup {Nil}
  BY <1>1, <1>5, DecidedSound, UserAssumption
<1> QED  BY <1>2, <1>3, <1>4, <1>6

(* The cluster: the nodes and the copies of the indices.                   *)
LEMMA ClusterStep ==
    ASSUME AutoscalerInv, Next \/ UNCHANGED vars
    PROVE  /\ size' \in Nat /\ indices' \in SUBSET Indices
           /\ copies' \in [Indices -> Nat]
           /\ cpu' \in {"low", "medium", "high"} /\ annotated' \in BOOLEAN
<1>1. /\ size \in Nat /\ indices \in SUBSET Indices
      /\ replicas \in Nat \cup {Nil}
      /\ copies \in [Indices -> Nat]
      /\ cpu \in {"low", "medium", "high"} /\ annotated \in BOOLEAN
  BY DEF AutoscalerInv, TypeOK
<1>2. size' \in Nat
  <2>1. CASE Grow
    BY <1>1, <2>1, ScalingAssumption DEF Grow, Current
  <2>2. CASE Shrink
    BY <1>1, <2>2, ScalingAssumption DEF Shrink, Current
  <2> QED
    BY <1>1, <2>1, <2>2 DEF Next, Scale, Operate, Disturb, Panic, StampOnly,
       Apply, ApplyUntilGone, Tick, AutoscaleFails, ApplyPartly, SetReplicas,
       DeleteIndex, SetIndexReplicas, Load, vars, Autoscale
<1>3. copies' \in [Indices -> Nat]
  <2>1. CASE Apply
    BY <2>1, CopiesSet DEF Apply
  <2>2. CASE ApplyUntilGone \/ ApplyPartly
    BY <2>2, CopiesSet DEF ApplyUntilGone, ApplyPartly
  <2>3. ASSUME NEW i \in Indices, DeleteIndex(i) PROVE copies' \in [Indices -> Nat]
    BY <1>1, <2>3 DEF DeleteIndex
  <2>4. ASSUME NEW i \in Indices, NEW n \in UserIndexReplicas, SetIndexReplicas(i, n)
        PROVE  copies' \in [Indices -> Nat]
    BY <1>1, <2>4, UserAssumption DEF SetIndexReplicas
  <2> QED
    BY <1>1, <2>1, <2>2, <2>3, <2>4 DEF Next, Scale, Operate, Disturb, Panic,
       StampOnly, Grow, Shrink, Tick, AutoscaleFails, SetReplicas, Load, vars,
       Autoscale
<1>4. /\ indices' \in SUBSET Indices
      /\ cpu' \in {"low", "medium", "high"} /\ annotated' \in BOOLEAN
  BY <1>1 DEF Next, Scale, Operate, Disturb, Panic, StampOnly, Grow, Shrink,
     Apply, ApplyUntilGone, Tick, AutoscaleFails, ApplyPartly, SetReplicas,
     DeleteIndex, SetIndexReplicas, Load, vars, Autoscale
<1> QED  BY <1>2, <1>3, <1>4

(* Every step keeps the invariant.                                         *)
LEMMA StepInv ==
    AutoscalerInv /\ [Next]_vars => AutoscalerInv'
<1> SUFFICES ASSUME AutoscalerInv, Next \/ UNCHANGED vars PROVE AutoscalerInv'
  OBVIOUS
<1>1. ClocksOK'
  BY ClocksStep DEF AutoscalerInv, TypeOK, ClocksOK
<1>2. OperationOK' /\ replicas' \in Nat \cup {Nil}
  BY OperationStep
<1>3. \E S \in SUBSET Indices : op'.change \in [S -> Nat]
  BY <1>2, ChangeType DEF OperationOK, IndexChange
<1> QED  BY <1>1, <1>2, <1>3, ClusterStep
         DEF AutoscalerInv, TypeOK, ClocksOK, OperationOK

(* The invariant holds at all times.                                       *)
LEMMA InvCorrect == Spec => []AutoscalerInv
BY InitInv, StepInv, PTL DEF Spec

-----------------------------------------------------------------------------
(* Theorems.                                                               *)

(* Every variable keeps its type for any settings, whatever users set, 0   *)
(* nodes included: no scaling operation asks for 0 nodes, and no number of *)
(* replicas that is written to an EDS or an index is negative.             *)
THEOREM TypeCorrect == Spec => []TypeOK
<1>1. AutoscalerInv => TypeOK
  BY DEF AutoscalerInv
<1> QED  BY <1>1, InvCorrect, PTL

(* scaleEDS changes spec.replicas only to a value between minReplicas and  *)
(* maxReplicas, for any settings validateScalingSettings accepts.          *)
THEOREM ReplicasBounded == Spec => ReplicasInBounds
<1> DEFINE A == op' # op /\ op'.direction # "NONE" /\ replicas' # Current
                  => replicas' \in MinReplicas .. MaxReplicas
<1>1. AutoscalerInv /\ [Next]_vars => [A]_vars
  <2> SUFFICES ASSUME AutoscalerInv, Next, op' # op, op'.direction # "NONE",
                      replicas' # Current
               PROVE  replicas' \in MinReplicas .. MaxReplicas
    OBVIOUS
  <2>1. NodesSound(op'.direction, replicas', op'.change)
    BY NewOperation, DecidedSound DEF AutoscalerInv
  <2> QED  BY <2>1 DEF NodesSound
<1> QED  BY <1>1, InvCorrect, PTL DEF Spec, ReplicasInBounds

(* updateIndexSettings of a scaling operation leaves an index that it      *)
(* changes between minIndexReplicas and maxIndexReplicas, also when it     *)
(* ends early, is repeated or works on an operation that was computed from *)
(* numbers that have changed since.                                        *)
THEOREM IndexReplicasBounded == Spec => IndexReplicasInBounds
<1> DEFINE A == Apply \/ ApplyPartly \/ ApplyUntilGone =>
                  \A i \in Indices : copies'[i] # copies[i]
                    => copies'[i] \in MinIndexReplicas .. MaxIndexReplicas
<1>1. AutoscalerInv => [A]_vars
  <2> SUFFICES ASSUME AutoscalerInv, Apply \/ ApplyPartly \/ ApplyUntilGone
               PROVE  \A i \in Indices : copies'[i] # copies[i]
                         => copies'[i] \in MinIndexReplicas .. MaxIndexReplicas
    OBVIOUS
  <2>1. \E S : S \subseteq DOMAIN op.change /\ SetCopies(S)
    BY DEF Apply, ApplyPartly, ApplyUntilGone
  <2> QED  BY <2>1, CopiesSet
<1> QED  BY <1>1, InvCorrect, PTL DEF Spec, IndexReplicasInBounds

(* An operation that removes nodes leaves at most maxShardsPerNode shards  *)
(* per node, however calculateNodesWithSameShardToNodeRatio is rounded and *)
(* whichever indices lose a replica.                                       *)
THEOREM DownIsBounded == Spec => DownKeepsShardsPerNode
<1> DEFINE A == op' # op /\ op'.direction = "DOWN"
                  /\ replicas' < Current /\ Current <= MaxReplicas
                  => NewShards(op'.change) <= MaxShardsPerNode * replicas'
<1>1. AutoscalerInv /\ [Next]_vars => [A]_vars
  <2> SUFFICES ASSUME AutoscalerInv, Next, op' # op, op'.direction = "DOWN",
                      replicas' < Current, Current <= MaxReplicas
               PROVE  NewShards(op'.change) <= MaxShardsPerNode * replicas'
    OBVIOUS
  <2>1. op'.direction # "NONE"
    OBVIOUS
  <2>2. NodesSound(op'.direction, replicas', op'.change)
    BY <2>1, NewOperation, DecidedSound DEF AutoscalerInv
  <2> QED  BY <2>2 DEF NodesSound
<1> QED  BY <1>1, InvCorrect, PTL DEF Spec, DownKeepsShardsPerNode

(* Changes of the number of nodes for the load, and not for a bound, wait  *)
(* for the cool-down of their direction, although the time is recorded in  *)
(* the status before the Update that may be refused.                       *)
THEOREM CooldownIsRespected == Spec => CooldownRespected
<1> DEFINE A == op' # op /\ op'.direction # "NONE" /\ ByHint
                  => /\ replicas' > Current => upAgo = UpCooldown
                     /\ replicas' < Current => downAgo = DownCooldown
<1>1. AutoscalerInv /\ [Next]_vars => [A]_vars
  <2> SUFFICES ASSUME AutoscalerInv, Next, op' # op, op'.direction # "NONE",
                      ByHint
               PROVE  /\ replicas' > Current => upAgo = UpCooldown
                      /\ replicas' < Current => downAgo = DownCooldown
    OBVIOUS
  <2>1. NodesSound(op'.direction, replicas', op'.change)
    BY NewOperation, DecidedSound DEF AutoscalerInv
  <2>2. /\ replicas' > Current => Hint = "UP"
        /\ replicas' < Current => Hint = "DOWN"
    BY <2>1 DEF NodesSound
  <2>3. /\ Hint = "UP" => sinceUp = UpCooldown
        /\ Hint = "DOWN" => sinceDown = DownCooldown
    BY DEF Hint
  <2>4. /\ sinceUp = UpCooldown => upAgo = UpCooldown
        /\ sinceDown = DownCooldown => downAgo = DownCooldown
    BY ScalingAssumption DEF AutoscalerInv, TypeOK, CooldownInv
  <2> QED  BY <2>2, <2>3, <2>4
<1> QED  BY <1>1, InvCorrect, PTL DEF Spec, CooldownRespected
=============================================================================
