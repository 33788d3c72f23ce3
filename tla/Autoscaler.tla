----------------------------- MODULE Autoscaler -----------------------------
(***************************************************************************)
(* The autoscaler of one ElasticsearchDataSet (EDS): the hint it takes     *)
(* from CPU samples and cool-down times, the scaling operation it computes *)
(* from the shards per node, how it writes the operation to the EDS, and   *)
(* what the operating loop (module Operator) makes of it: the number of    *)
(* nodes and the number of replicas of the indices.                        *)
(*                                                                         *)
(* Time is counted in runs of the autoscaler.                              *)
(***************************************************************************)
EXTENDS Integers, FiniteSetsExt

CONSTANTS
    Indices,            \* indices with shards on the nodes of this EDS
    Primaries,          \* their number of primary shards
    MinReplicas, MaxReplicas,               \* spec.scaling
    MinIndexReplicas, MaxIndexReplicas,
    MinShardsPerNode, MaxShardsPerNode,
    UpCooldown, DownCooldown,
    UserReplicas,       \* what a user may set spec.replicas to
    UserIndexReplicas,  \* what a user may set number_of_replicas to
    Nil,                \* not set
    Disturbances        \* what users and failures do, see below

ASSUME ScalingAssumption ==     \* fields that are not set are 0
    /\ MinReplicas \in Nat /\ MaxReplicas \in Nat
    /\ MinIndexReplicas \in Nat /\ MaxIndexReplicas \in Nat
    /\ MinShardsPerNode \in Nat /\ MaxShardsPerNode \in Nat
    /\ UpCooldown \in Nat /\ DownCooldown \in Nat
ASSUME IndicesAssumption ==
    IsFiniteSet(Indices) /\ Primaries \in [Indices -> Nat \ {0}]
ASSUME UserAssumption ==
    /\ UserReplicas # {} /\ UserReplicas \subseteq Nat \cup {Nil}
    /\ UserIndexReplicas # {} /\ UserIndexReplicas \subseteq Nat
    /\ Nil \notin Int
ASSUME AutoscalerDisturbancesAssumption ==
    Disturbances \subseteq {"replicas", "indexReplicas", "deleteIndex", "fail"}

VARIABLES
    replicas,   \* spec.replicas
    size,       \* the StatefulSet's replicas, as reported in status.replicas
    indices,    \* the indices that exist
    copies,     \* number_of_replicas of each index
    op,         \* the annotation current-scaling-operation
    sinceUp,    \* runs since lastScaleUpStarted, up to the cool-down time
    sinceDown,  \* runs since lastScaleDownStarted
    cpu,        \* the samples of the threshold durations
    annotated,  \* the EDS has annotations, whichever they are
    upAgo,      \* history: runs since the autoscaler last added nodes
    downAgo     \* history: runs since it last removed nodes

history == <<upAgo, downAgo>>
clocks == <<sinceUp, sinceDown, history>>
vars == <<replicas, size, indices, copies, op, clocks, cpu, annotated>>

-----------------------------------------------------------------------------

Directions == {"UP", "DOWN", "NONE"}
NoChange == [i \in {} |-> 0]
Operation(direction, nodes, change) ==
    [direction |-> direction, nodes |-> nodes, change |-> change]
Noop == Operation("NONE", Nil, NoChange)

TypeOK ==
    /\ replicas \in Nat \cup {Nil} /\ size \in Nat
    /\ indices \in SUBSET Indices /\ copies \in [Indices -> Nat]
    /\ op.direction \in Directions
    /\ op.nodes \in (Nat \ {0}) \cup {Nil}
    /\ \E S \in SUBSET Indices : op.change \in [S -> Nat]
    /\ sinceUp \in 0 .. UpCooldown /\ sinceDown \in 0 .. DownCooldown
    /\ cpu \in {"low", "medium", "high"} /\ annotated \in BOOLEAN
    /\ upAgo \in 0 .. UpCooldown /\ downAgo \in 0 .. DownCooldown

-----------------------------------------------------------------------------
(* What the autoscaler reads.                                              *)

(* validateScalingSettings.                                                *)
ValidSettings ==
    /\ MinReplicas >= 1 /\ MinReplicas <= MaxReplicas
    /\ MinIndexReplicas <= MaxIndexReplicas
    /\ MinShardsPerNode <= MaxShardsPerNode
    /\ MinReplicas >= MinIndexReplicas + 1
    /\ MaxReplicas >= MaxIndexReplicas + 1

(* The CRD asks for at least 1 where these fields are present.  Users may  *)
(* leave them out; an Update of the EDS by the operator writes them as 0   *)
(* and is refused.                                                         *)
Accepted == MinShardsPerNode >= 1 /\ MaxShardsPerNode >= 1

(* edsReplicas, with scaling enabled and minReplicas at least 1.           *)
Current ==
    IF replicas # Nil THEN replicas
    ELSE IF size > MinReplicas THEN size ELSE MinReplicas

(* scalingHint: all samples below or above the boundary, and the cool-down *)
(* of the direction is over.                                               *)
Hint ==
    CASE cpu = "low" /\ sinceDown = DownCooldown -> "DOWN"
      [] cpu = "high" /\ sinceUp = UpCooldown -> "UP"
      [] OTHER -> "NONE"

(* getManagedIndices: those with shards on the pods, if there are any.     *)
ManagedIndices == IF size = 0 THEN {} ELSE indices

Shards(c) == MapThenSumSet(LAMBDA i : Primaries[i] * (c[i] + 1), indices)
NewShards(change) ==
    Shards([i \in Indices |->
              IF i \in DOMAIN change THEN change[i] ELSE copies[i]])

-----------------------------------------------------------------------------
(* Numbers of nodes.  Ratios are compared by multiplication.               *)

CeilDiv(a, b) == (a + b - 1) \div b

EnsureBoundsAbove(n) ==                 \* mutant: minReplicas not enforced
    IF n < 1 THEN 1
    ELSE IF MaxReplicas > 0 /\ MaxReplicas < n THEN MaxReplicas
    ELSE n
EnsureBounds(n) ==
    IF n < 1 THEN 1
    ELSE IF MaxReplicas > 0 /\ MaxReplicas < n THEN MaxReplicas
    ELSE IF MinReplicas > n THEN MinReplicas
    ELSE n

ScalingDirection(old, new) ==
    CASE new > old -> "UP" [] new < old -> "DOWN" [] OTHER -> "NONE"

(* Nodes for at most maxShardsPerNode shards each.  For 0 the quotient is  *)
(* infinite, and its conversion to int32 is either end of the range.       *)
NodesForShards(total) ==
    IF MaxShardsPerNode = 0 THEN {0, MaxReplicas + 1}
    ELSE {CeilDiv(total, MaxShardsPerNode)}

(* calculateNodesWithSameShardToNodeRatio.  A quotient that is a whole     *)
(* number may be a little larger in floating point, and is then rounded up *)
(* to the next one.                                                        *)
NodesWithSameRatio(nodes, total, newTotal) ==
    IF total <= nodes THEN {newTotal}
    ELSE LET exact == CeilDiv(newTotal * nodes, total)
         IN  {exact} \cup (IF (newTotal * nodes) % total = 0 THEN {exact + 1}
                           ELSE {})

(* One more shard per node, and at least one node less.                    *)
DecreasedNodes(nodes, total) ==
    LET fewer == Min({nodes - 1, CeilDiv(total, total \div nodes + 1)})
    IN  IF fewer <= 1 THEN 1 ELSE fewer

(* One shard per node less.                                                *)
IncreasedNodes(nodes, total) ==
    IF total <= nodes THEN total
    ELSE CeilDiv(total, CeilDiv(total, nodes) - 1)

-----------------------------------------------------------------------------
(* scaleUpOrDown: the set of operations it may return.  With 0 nodes the   *)
(* shards per node are infinite, and above any maxShardsPerNode.           *)

NodeOperation(nodes, new) ==
    Operation(ScalingDirection(nodes, new), new, NoChange)

(* Indices below minIndexReplicas or above maxIndexReplicas.  The          *)
(* direction is that of the index the loop over the map saw last.          *)
OutOfBounds ==
    {i \in indices : copies[i] \notin MinIndexReplicas .. MaxIndexReplicas}
FixIndices ==
    LET change == [i \in OutOfBounds |-> IF copies[i] < MinIndexReplicas
                                         THEN MinIndexReplicas
                                         ELSE MaxIndexReplicas]
    IN  {Operation(IF copies[i] < MinIndexReplicas THEN "UP" ELSE "DOWN",
                   Nil, change) : i \in OutOfBounds}

(* At minShardsPerNode index replicas are added, otherwise nodes.          *)
ScaleUpUnlimited(nodes, total) ==       \* mutant: maxIndexReplicas ignored
    LET change == [i \in indices |-> copies[i] + 1]
    IN  IF total > MinShardsPerNode * nodes
        THEN {NodeOperation(nodes, EnsureBounds(IncreasedNodes(nodes, total)))}
        ELSE {Operation("UP", EnsureBounds(n), change) :
                 n \in NodesWithSameRatio(nodes, total, NewShards(change))}
ScaleUp(nodes, total) ==
    LET change == [i \in indices |-> copies[i] + 1]
        newTotal == NewShards(change)
    IN  IF total > MinShardsPerNode * nodes
        THEN {NodeOperation(nodes, EnsureBounds(IncreasedNodes(nodes, total)))}
        ELSE IF \E i \in indices : copies[i] >= MaxIndexReplicas THEN {Noop}
        ELSE IF newTotal < MinShardsPerNode * nodes
             THEN {Operation("UP", nodes, change)}
             ELSE {Operation("UP", EnsureBounds(n), change) :
                      n \in NodesWithSameRatio(nodes, total, newTotal)}

(* Index replicas are removed as long as there are any to spare.           *)
ScaleDownUnchecked(nodes, total) ==     \* mutant: maxShardsPerNode ignored
    LET spare == {i \in indices : copies[i] > MinIndexReplicas}
        change == [i \in spare |-> copies[i] - 1]
    IN  IF spare # {}
        THEN {LET new == EnsureBounds(n)
              IN  Operation(ScalingDirection(nodes, new), new, change) :
                n \in NodesWithSameRatio(nodes, total, NewShards(change))}
        ELSE {NodeOperation(nodes, EnsureBounds(DecreasedNodes(nodes, total)))}
ScaleDownAll(nodes, total) ==           \* mutant: minIndexReplicas ignored
    LET change == [i \in indices |-> copies[i] - 1]
    IN  {LET same == EnsureBounds(n)
         IN  Operation(ScalingDirection(nodes, same), same, change) :
           n \in NodesWithSameRatio(nodes, total, NewShards(change))}
ScaleDown(nodes, total) ==
    LET spare == {i \in indices : copies[i] > MinIndexReplicas}
        change == [i \in spare |-> copies[i] - 1]
        new == EnsureBounds(DecreasedNodes(nodes, total))
    IN  IF spare # {}
        THEN {LET same == EnsureBounds(n)
              IN  Operation(ScalingDirection(nodes, same), same, change) :
                n \in NodesWithSameRatio(nodes, total, NewShards(change))}
        ELSE IF total > MaxShardsPerNode * new THEN {Noop}
        ELSE {NodeOperation(nodes, new)}

ScaleByHint(nodes) ==                   \* mutant: maxShardsPerNode is not first
    LET total == Shards(copies)
    IN  IF nodes = 0 THEN {NodeOperation(nodes, MinReplicas)}
        ELSE IF OutOfBounds # {} THEN FixIndices
        ELSE CASE Hint = "UP" -> ScaleUp(nodes, total)
               [] Hint = "DOWN" -> ScaleDown(nodes, total)
               [] OTHER -> {NodeOperation(nodes, EnsureBounds(nodes))}
ScaleUpOrDown(nodes) ==
    LET total == Shards(copies)
    IN  IF total > MaxShardsPerNode * nodes
        THEN {NodeOperation(nodes, EnsureBounds(n)) :
                 n \in NodesForShards(total)}
        ELSE IF OutOfBounds # {} THEN FixIndices
        ELSE CASE Hint = "UP" -> ScaleUp(nodes, total)
               [] Hint = "DOWN" -> ScaleDown(nodes, total)
               [] OTHER -> {NodeOperation(nodes, EnsureBounds(nodes))}

(* calculateScalingOperation: the safety checks on the result.             *)
ScalingOperations(diskFull) ==
    IF ManagedIndices = {} THEN {Noop}
    ELSE {IF \/ o.nodes # Nil /\ o.nodes < MinIndexReplicas + 1
             \/ o.direction = "DOWN" /\ diskFull
          THEN Noop ELSE o : o \in ScaleUpOrDown(Current)}

-----------------------------------------------------------------------------
(* scaleEDS and updateScalingOperation.                                    *)

(* UpdateStatus records the time if the number of nodes changes.           *)
StampSwapped(o) ==                      \* mutant: the wrong cool-down starts
    LET n == IF o.nodes = Nil THEN Current ELSE o.nodes
    IN  /\ sinceUp' = IF n < Current THEN 0 ELSE sinceUp
        /\ sinceDown' = IF n > Current THEN 0 ELSE sinceDown
Stamp(o) ==
    LET n == IF o.nodes = Nil THEN Current ELSE o.nodes
    IN  /\ sinceUp' = IF n > Current THEN 0 ELSE sinceUp
        /\ sinceDown' = IF n < Current THEN 0 ELSE sinceDown

(* Nothing is computed while an operation is pending.  spec.replicas and   *)
(* annotation are written together.                                        *)
Decide(diskFull) ==
    {o \in ScalingOperations(diskFull) :
        ValidSettings /\ op.direction = "NONE" /\ o.direction # "NONE"}

Autoscale(diskFull) ==
    /\ annotated /\ Accepted
    /\ \E o \in Decide(diskFull) :
          /\ Stamp(o)
          /\ replicas' = IF o.nodes = Nil THEN Current ELSE o.nodes
          /\ op' = o
    /\ upAgo' = IF replicas' > Current THEN 0 ELSE upAgo
    /\ downAgo' = IF replicas' < Current THEN 0 ELSE downAgo
    /\ UNCHANGED <<size, indices, copies, cpu, annotated>>

(* The status is written, the Update that follows is refused; or there is  *)
(* no map to put the annotation in and the process panics and is started   *)
(* again.  (Full disks only take operations away.)                         *)
StampOnly ==
    /\ \E o \in Decide(FALSE) : Stamp(o)
    /\ UNCHANGED <<replicas, size, indices, copies, op, cpu, annotated>>
    /\ UNCHANGED history

AutoscaleFails ==
    /\ annotated
    /\ "fail" \in Disturbances \/ ~Accepted
    /\ StampOnly

Panic == ~annotated /\ StampOnly

(* The next run of the autoscaler.                                         *)
Tick ==
    /\ clocks # <<UpCooldown, DownCooldown, <<UpCooldown, DownCooldown>>>>
    /\ sinceUp' = Min({sinceUp + 1, UpCooldown})
    /\ sinceDown' = Min({sinceDown + 1, DownCooldown})
    /\ upAgo' = Min({upAgo + 1, UpCooldown})
    /\ downAgo' = Min({downAgo + 1, DownCooldown})
    /\ UNCHANGED <<replicas, size, indices, copies, op, cpu, annotated>>

-----------------------------------------------------------------------------
(* The operating loop: nodes are added before index replicas are, index    *)
(* replicas are removed before nodes are.                                  *)

(* ensureGreenClusterState: every copy of a shard has a node of its own.   *)
Green == \A i \in indices : copies[i] < size

Grow ==
    /\ size < Current
    /\ size' = Current
    /\ UNCHANGED <<replicas, indices, copies, op, clocks, cpu, annotated>>

Shrink ==
    /\ size > Current /\ op.direction = "NONE" /\ Green
    /\ size' = size - 1
    /\ UNCHANGED <<replicas, indices, copies, op, clocks, cpu, annotated>>

(* The hooks run before a scale-down and when the StatefulSet is stable.   *)
HookRuns ==
    /\ op.direction # "NONE" /\ size >= Current
    /\ op.change # NoChange => Green

(* UpdateIndexSettings of some of the operation's indices.                 *)
SetCopies(S) ==
    copies' = [i \in Indices |-> IF i \in S THEN op.change[i] ELSE copies[i]]

ApplyNothing ==                         \* mutant: the annotation only
    /\ HookRuns /\ DOMAIN op.change \subseteq indices
    /\ op' = Noop
    /\ UNCHANGED <<replicas, size, indices, copies, clocks, cpu, annotated>>
Apply ==
    /\ HookRuns /\ DOMAIN op.change \subseteq indices
    /\ SetCopies(DOMAIN op.change)
    /\ op' = Noop
    /\ UNCHANGED <<replicas, size, indices, clocks, cpu, annotated>>

(* An error for one index ends the loop, the annotation stays.             *)
ApplyPartly ==
    /\ "fail" \in Disturbances
    /\ HookRuns
    /\ \E S \in SUBSET (DOMAIN op.change \cap indices) : SetCopies(S)
    /\ UNCHANGED <<replicas, size, indices, op, clocks, cpu, annotated>>

(* An index that is gone (404) ends the loop too, without an error.        *)
ApplyUntilGone ==
    /\ HookRuns /\ ~(DOMAIN op.change \subseteq indices)
    /\ \E S \in SUBSET (DOMAIN op.change \cap indices) : SetCopies(S)
    /\ op' = Noop
    /\ UNCHANGED <<replicas, size, indices, clocks, cpu, annotated>>

-----------------------------------------------------------------------------
(* Users and load.                                                         *)

SetReplicas(n) ==
    /\ "replicas" \in Disturbances
    /\ replicas' = n /\ n # replicas
    /\ UNCHANGED <<size, indices, copies, op, clocks, cpu, annotated>>

SetIndexReplicas(i, n) ==
    /\ "indexReplicas" \in Disturbances
    /\ i \in indices /\ copies[i] # n
    /\ copies' = [copies EXCEPT ![i] = n]
    /\ UNCHANGED <<replicas, size, indices, op, clocks, cpu, annotated>>

DeleteIndex(i) ==
    /\ "deleteIndex" \in Disturbances
    /\ i \in indices
    /\ indices' = indices \ {i}
    /\ copies' = [copies EXCEPT ![i] = 0]
    /\ UNCHANGED <<replicas, size, op, clocks, cpu, annotated>>

Load(level) ==
    /\ cpu # level
    /\ cpu' = level
    /\ UNCHANGED <<replicas, size, indices, copies, op, clocks, annotated>>

-----------------------------------------------------------------------------

Init ==
    /\ replicas \in UserReplicas
    /\ size \in UserReplicas \ {Nil}
    /\ indices = Indices /\ copies \in [Indices -> UserIndexReplicas]
    /\ op = Noop
    /\ sinceUp = UpCooldown /\ sinceDown = DownCooldown
    /\ upAgo = UpCooldown /\ downAgo = DownCooldown
    /\ cpu = "medium" /\ annotated \in BOOLEAN

Scale == Panic \/ \E diskFull \in BOOLEAN : Autoscale(diskFull)
Operate == Grow \/ Shrink \/ Apply \/ ApplyUntilGone

Disturb ==
    \/ AutoscaleFails
    \/ ApplyPartly
    \/ \E n \in UserReplicas : SetReplicas(n)
    \/ \E i \in Indices : DeleteIndex(i) \/ \E n \in UserIndexReplicas :
                                                SetIndexReplicas(i, n)
    \/ \E level \in {"low", "medium", "high"} : Load(level)

Next == Scale \/ Operate \/ Tick \/ Disturb

Spec == Init /\ [][Next]_vars

(* The autoscaler, if only with full disks, and the operating loop run     *)
(* again and again; users, failures and changes of the load end some time. *)
CalmSpec ==
    /\ Spec
    /\ WF_vars(Autoscale(TRUE)) /\ WF_vars(Operate) /\ WF_vars(Tick)
    /\ <>[][~Disturb]_vars

-----------------------------------------------------------------------------
(* Properties.                                                             *)

(* Whatever users set spec.replicas and number_of_replicas to, and however *)
(* the quotients are rounded: the autoscaler changes spec.replicas only to *)
(* a value between minReplicas and maxReplicas.                            *)
ReplicasInBounds ==
    [][op' # op /\ op'.direction # "NONE" /\ replicas' # Current
         => replicas' \in MinReplicas .. MaxReplicas]_vars

(* Scaling operations never take an index out of minIndexReplicas ..       *)
(* maxIndexReplicas, and bring it back when it is outside, even if some of *)
(* the updates fail, are repeated or skipped.                              *)
IndexReplicasInBounds ==
    [][Apply \/ ApplyPartly \/ ApplyUntilGone =>
         \A i \in Indices : copies'[i] # copies[i]
            => copies'[i] \in MinIndexReplicas .. MaxIndexReplicas]_vars

(* README, maxShardsPerNode: "Boundary for scaling down".  An operation    *)
(* that removes nodes leaves no more shards per node than that, counting   *)
(* the index replicas it removes, as long as the number of nodes was in    *)
(* its bounds before.                                                      *)
DownKeepsShardsPerNode ==
    [][op' # op /\ op'.direction = "DOWN"
         /\ replicas' < Current /\ Current <= MaxReplicas
           => NewShards(op'.change) <= MaxShardsPerNode * replicas']_vars

(* Two changes of the number of nodes in the same direction that follow    *)
(* from the load are a cool-down apart, with refused writes and operations *)
(* for other reasons in between.                                           *)
ByHint ==
    /\ Shards(copies) <= MaxShardsPerNode * Current
    /\ OutOfBounds = {} /\ EnsureBounds(Current) = Current
CooldownRespected ==
    [][op' # op /\ op'.direction # "NONE" /\ ByHint
         => /\ replicas' > Current => upAgo = UpCooldown
            /\ replicas' < Current => downAgo = DownCooldown]_vars

(* Once load and users are quiet the autoscaler stops scaling: no sequence *)
(* of operations goes round in circles, and the last one is completed.     *)
(* There is one exception: users asked for more copies of an index than    *)
(* there are nodes, and no hook runs until the cluster is green again.     *)
Settles == <>[](op.direction = "NONE" /\ size = Current) \/ <>[]~Green

(* More shards per node than maxShardsPerNode do not last while there may  *)
(* be more nodes, whatever the load and the cool-down times are, with the  *)
(* exception above: it also stands for an EDS that users took down to 0    *)
(* nodes, where the autoscaler sees no index.  An EDS without annotations  *)
(* never gets there: each attempt ends in a panic.                         *)
Overloaded ==
    annotated /\ Shards(copies) > MaxShardsPerNode * size /\ size < MaxReplicas
OverloadEnds == <>[](Overloaded => ~Green)
=============================================================================
