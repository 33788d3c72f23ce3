--------------------------- MODULE OperatorProofs ---------------------------
(***************************************************************************)
(* Theorems about Operator, for every number of pods, every set of desired *)
(* replicas and every mix of disturbances.                                 *)
(***************************************************************************)
EXTENDS Operator, FiniteSetTheorems, TLAPS

(* What the assumptions on the constants say about the derived sets.       *)
LEMMA ConstantsLemma ==
    /\ 0 \in Ord /\ 1 \in Rev /\ Ord \subseteq Nat /\ Rev \subseteq Nat
    /\ IsFiniteSet(Ord)
<1>1. 0 \in Ord /\ 1 \in Rev /\ Ord \subseteq Nat /\ Rev \subseteq Nat
  BY MaxPodsAssumption, MaxEditsAssumption DEF Ord, Rev
<1>2. IsFiniteSet(Ord)
  BY MaxPodsAssumption, FS_Interval DEF Ord
<1> QED  BY <1>1, <1>2

(* edsReplicas returns a number of replicas or nil.                        *)
LEMMA EdsReplicasType ==
    TypeOK => EdsReplicas(eds) \in Replicas
BY DesiredAssumption, MinReplicasAssumption, FlagsAssumption
   DEF TypeOK, DataSets, EdsReplicas, Replicas, Larger

(* The listed pods are pods, and their phases are the three drain uses.    *)
LEMMA ListedType ==
    ASSUME TypeOK
    PROVE  /\ ListedPods \subseteq Ord
           /\ \A o \in Ord : /\ Listed(o) \in Views
                            /\ ListedPhase(o) \in {"none", "pending", "running"}
<1>1. \A o \in Ord : View(o) \in Views
  BY DEF TypeOK, View, Views, Pods
<1>2. \A o \in Ord : Listed(o) \in Views
  BY <1>1 DEF TypeOK, Listed
<1>3. \A o \in Ord : ListedPhase(o) \in {"none", "pending", "running"}
  BY <1>2 DEF ListedPhase, Views
<1> QED  BY <1>2, <1>3 DEF ListedPods

(* The number of ready pods is a natural number.                           *)
LEMMA ReadyPodsType == ReadyPods \in Nat
<1>1. IsFiniteSet({o \in Ord : pod[o].phase = "ready"})
  BY ConstantsLemma, FS_Subset
<1> QED  BY <1>1, FS_CardinalityType DEF ReadyPods

(* A write of the EDS by somebody else.                                    *)
LEMMA WriteEDSType ==
    ASSUME TypeOK, NEW new \in DataSets, WriteEDS(new)
    PROVE  TypeOK'
<1>1. sts' \in StatefulSets
  BY DEF TypeOK, WriteEDS, StatefulSets, DataSets
<1>2. sr' \in Resources /\ rs' \in Rescalings
  BY DEF TypeOK, WriteEDS, Resources, Rescalings
<1>3. eds' \in DataSets
  BY DEF WriteEDS, DataSets
<1>4. event' \in BOOLEAN
  BY DEF TypeOK, WriteEDS, Notify
<1> QED
  BY <1>1, <1>2, <1>3, <1>4 DEF TypeOK, WriteEDS, LeavePass, local, history

(* Index settings, written for some indices of an operation.               *)
LEMMA SetIndicesType ==
    ASSUME TypeOK, NEW op \in Changes, NEW S \in SUBSET Exists(op),
           SetIndices(op, S)
    PROVE  index' \in [Indices -> Nat \cup {Nil}]
<1>1. \A i \in S : op[i] \in Nat
  BY ChangesAssumption DEF Exists
<1> QED  BY <1>1 DEF SetIndices, TypeOK
LEMMA UpdateIndexSettingsType ==
    ASSUME TypeOK, NEW op \in Changes, UpdateIndexSettings(op)
    PROVE  index' \in [Indices -> Nat \cup {Nil}]
BY SetIndicesType DEF UpdateIndexSettings

(* The steps that move a pod to another phase.                             *)
MovesPod(o) == SchedulePod(o) \/ StartPod(o) \/ ScaledDown(o) \/ EvictPod(o)
LEMMA MovesPodStep ==
    ASSUME TypeOK, NEW o \in Ord, MovesPod(o)
    PROVE  /\ pod[o].phase # "absent"
           /\ \E ph \in Phases \ {"absent"} :
                 pod' = [pod EXCEPT ![o].phase = ph]
           /\ LeavePass
           /\ UNCHANGED <<eds, sts, seen, outside, copy, sr, rs, gone,
                           drained>>
BY DEF MovesPod, SchedulePod, StartPod, ScaledDown, EvictPod, SetPhase, Phases

(* Every variable keeps its type, in every step of everybody.              *)
LEMMA TypeStep == TypeOK /\ [Next]_vars => TypeOK'
<1> SUFFICES ASSUME TypeOK, [Next]_vars PROVE TypeOK'
  OBVIOUS
<1> USE DEF TypeOK, local, history, outside
<1>1. CASE Operate
  BY <1>1 DEF Operate, NoSr, Resources, Locations, Replicas, Operations
<1>2. CASE Restart \/ HandleEvent
  BY <1>2 DEF Restart, HandleEvent
<1>3. CASE Refused
  BY <1>3, ConstantsLemma DEF Refused, EndPass, Forget, NoCopy, NoSr, NoRs,
     NoSnap, Copies, Resources, Rescalings, Locations, Replicas, Operations,
     NoRev
<1>4. CASE Fail
  BY <1>4, ConstantsLemma DEF Fail, EndPass, Forget, NoCopy, NoSr, NoRs,
     NoSnap, Copies, Resources, Rescalings, Locations, Replicas, Operations,
     NoRev
<1>5. CASE Cancel
  BY <1>5 DEF Cancel
<1>6. CASE CreateStatefulSet
  BY <1>6, EdsReplicasType DEF CreateStatefulSet, DataSets, StatefulSets,
     Copies, Locations, Replicas, NoRev
<1>7. CASE Reconcile
  BY <1>7 DEF Reconcile, DataSets, StatefulSets, Copies, Locations
<1>8. CASE UpdateStatus
  BY <1>8 DEF UpdateStatus, Notify, DataSets, Copies, Locations
<1>9. CASE OperatePods
  BY <1>9, EdsReplicasType DEF OperatePods, DataSets, Resources, Locations
<1>10. CASE PickNone
  BY <1>10 DEF PickNone, Copies, Resources, Locations, Replicas, NoRev
<1>11. CASE \E o \in Ord : Pick(o)
  BY <1>11, ListedType, ConstantsLemma DEF Pick, Copies, Resources, NoSnap,
     Views, Locations, Replicas, NoRev
<1>12. CASE Surge
  BY <1>12 DEF Surge, StatefulSets, Copies, NoCopy, NoRev, Locations
<1>13. CASE Stabilize
  BY <1>13 DEF Stabilize, Locations
<1>14. CASE MarkDraining
  <2>1. [pod[held] EXCEPT !.draining = TRUE] \in Pods
    BY DEF Pods
  <2>2. pod' \in [Ord -> Pods]
    BY <1>14, <2>1 DEF MarkDraining
  <2> QED  BY <1>14, <2>2 DEF MarkDraining, Locations
<1>15. CASE DrainSkipped
  BY <1>15 DEF DrainSkipped, AfterDrain, Locations
<1>16. CASE DisableRebalance
  BY <1>16 DEF DisableRebalance, Locations
<1>17. CASE Exclude
  BY <1>17 DEF Exclude, Pods, Locations
<1>18. CASE DrainDone
  BY <1>18 DEF DrainDone, AfterDrain, Locations
<1>19. CASE DrainCancelled
  BY <1>19 DEF DrainCancelled, AfterDrain, Locations
<1>20. CASE DrainGivesUp
  BY <1>20 DEF DrainGivesUp, AfterDrain, Locations
<1>21. CASE DeletePod
  BY <1>21 DEF DeletePod, Pods, Phases, Locations
<1>22. CASE PodTerminated
  BY <1>22, ConstantsLemma DEF PodTerminated, Forget, NoCopy, NoRs, NoSnap,
     Copies, Rescalings, Locations, Replicas, Operations, NoRev
<1>23. CASE TerminationTimeout
  BY <1>23, ConstantsLemma DEF TerminationTimeout, Forget, NoCopy, NoRs,
     NoSnap, Copies, Rescalings, Locations, Replicas, Operations, NoRev
<1>24. CASE NothingToRescale
  BY <1>24, ConstantsLemma DEF NothingToRescale, AfterRescale, Forget, NoCopy,
     NoRs, NoSnap, Copies, Rescalings, Locations, Replicas, Operations, NoRev
<1>25. CASE Rescale
  BY <1>25, EdsReplicasType, NilAssumption DEF Rescale, ScaleTarget, DataSets,
     Copies, Rescalings, Locations, Replicas
<1>26. CASE PreScaleDown
  <2>1. index' \in [Indices -> Nat \cup {Nil}]
    BY <1>26, UpdateIndexSettingsType
       DEF PreScaleDown, Rescalings, Operations
  <2> QED  BY <1>26, <2>1 DEF PreScaleDown, Locations
<1>27. CASE PreUnannotate
  BY <1>27 DEF PreUnannotate, Notify, DataSets, Resources, Rescalings,
     Operations, Locations
<1>28. CASE ListPods
  BY <1>28, ListedType DEF ListPods, PodsBeyond, Locations
<1>29. CASE DrainedAll
  BY <1>29 DEF DrainedAll, Locations
<1>30. CASE AbortScaleDown
  BY <1>30 DEF AbortScaleDown, Locations
<1>31. CASE \E o \in Ord : DrainNext(o)
  BY <1>31 DEF DrainNext, Locations
<1>32. CASE Resize
  BY <1>32, ConstantsLemma DEF Resize, StatefulSets, Forget, NoCopy, NoRs,
     NoSnap, Copies, Rescalings, Locations, Replicas, Operations, NoRev
<1>33. CASE AwaitResize
  BY <1>33 DEF AwaitResize, AfterRescale, Locations
<1>34. CASE Settle
  BY <1>34 DEF Settle, Locations
<1>35. CASE ApplyScalingOperation
  <2>1. index' \in [Indices -> Nat \cup {Nil}]
    BY <1>35, UpdateIndexSettingsType
       DEF ApplyScalingOperation, Resources, Operations
  <2> QED  BY <1>35, <2>1 DEF ApplyScalingOperation, Locations
<1>36. CASE Unannotate
  BY <1>36 DEF Unannotate, Notify, DataSets, Resources, Operations, Locations
<1>37. CASE Cleanup
  BY <1>37, ConstantsLemma DEF Cleanup, EndPass, Forget, NoCopy, NoSr, NoRs,
     NoSnap, Copies, Resources, Rescalings, Locations, Replicas, Operations,
     NoRev
<1>38. CASE ReportStatus
  BY <1>38, ReadyPodsType DEF ReportStatus, StatefulSets, Copies, LeavePass
<1>39. CASE \E o \in Ord : CreatePod(o)
  <2>1. [NoPod EXCEPT !.phase = "unscheduled", !.rev = sts.rev] \in Pods
    BY ConstantsLemma DEF StatefulSets, NoPod, Pods, Phases
  <2> QED  BY <1>39, <2>1 DEF CreatePod, LeavePass
<1>40. CASE \E o \in Ord : MovesPod(o)
  <2>1. PICK o \in Ord : MovesPod(o)
    BY <1>40
  <2>2. PICK ph \in Phases : pod' = [pod EXCEPT ![o].phase = ph]
    BY <2>1, MovesPodStep
  <2>3. [pod[o] EXCEPT !.phase = ph] \in Pods
    BY DEF Pods
  <2>4. pod' \in [Ord -> Pods]
    BY <2>2, <2>3
  <2> QED  BY <2>1, <2>4, MovesPodStep DEF LeavePass
<1>41. CASE \E o \in Ord : PodGone(o)
  <2>1. NoPod \in Pods
    BY ConstantsLemma DEF NoPod, Pods, Phases
  <2>2. pod' \in [Ord -> Pods]
    BY <1>41, <2>1 DEF PodGone
  <2>3. \A o \in Ord :
           [seen[o] EXCEPT !.same = (seen[o].phase = "absent")] \in Views
    BY DEF Views
  <2>4. seen' \in [Ord -> Views]
    BY <1>41, <2>3 DEF PodGone
  <2> QED  BY <1>41, <2>2, <2>4 DEF PodGone, LeavePass
<1>42. CASE \E o \in Ord : Observe(o)
  BY <1>42 DEF Observe, LeavePass, View, Views, Pods
<1>43. CASE \E o \in Ord : Allocate(o)
  <2>1. PICK o \in Ord : Allocate(o)
    BY <1>43
  <2>2. [pod[o] EXCEPT !.data = TRUE] \in Pods
    BY DEF Pods
  <2>3. pod' \in [Ord -> Pods]
    BY <2>1, <2>2 DEF Allocate
  <2> QED  BY <2>1, <2>3 DEF Allocate, LeavePass
<1>44. CASE \E o, p \in Ord : Relocate(o, p)
  <2>1. PICK o \in Ord, p \in Ord : Relocate(o, p)
    BY <1>44
  <2>2. o # p
    BY <2>1 DEF Relocate, Usable
  <2>3. [pod[o] EXCEPT !.data = FALSE] \in Pods
    BY DEF Pods
  <2>4. [pod[p] EXCEPT !.data = TRUE] \in Pods
    BY DEF Pods
  <2>5. pod' = [q \in Ord |-> IF q = p THEN [pod[p] EXCEPT !.data = TRUE]
                  ELSE IF q = o THEN [pod[o] EXCEPT !.data = FALSE]
                  ELSE pod[q]]
    BY <2>1, <2>2 DEF Relocate
  <2>6. pod' \in [Ord -> Pods]
    BY <2>3, <2>4, <2>5
  <2> QED  BY <2>1, <2>6 DEF Relocate, LeavePass
<1>45. CASE \E o \in Ord, r \in NodeReasons : CordonNode(o, r)
  BY <1>45 DEF CordonNode, LeavePass, Pods
<1>46. CASE \E d \in Desired : SetReplicas(d)
  <2>1. \A d \in Desired : [eds EXCEPT !.replicas = d] \in DataSets
    BY DEF DataSets
  <2> QED  BY <1>46, <2>1, WriteEDSType DEF SetReplicas
<1>47. CASE EditTemplate
  <2>1. eds.rev <= MaxEdits => [eds EXCEPT !.rev = @ + 1] \in DataSets
    BY MaxEditsAssumption DEF DataSets, Rev
  <2> QED  BY <1>47, <2>1, WriteEDSType DEF EditTemplate
<1>48. CASE \E d \in Desired, c \in Changes : RequestScaling(d, c)
  <2>1. \A d \in Desired, c \in Changes :
           [eds EXCEPT !.replicas = d, !.op = c] \in DataSets
    BY DEF DataSets, Operations
  <2> QED  BY <1>48, <2>1, WriteEDSType DEF RequestScaling
<1>48a. CASE IndexSettingsFail
  <2>1. index' \in [Indices -> Nat \cup {Nil}]
    BY <1>48a, SetIndicesType
       DEF IndexSettingsFail, Resources, Rescalings, Operations
  <2> QED  BY <1>48a, <2>1, ConstantsLemma DEF IndexSettingsFail, EndPass,
     Forget, NoCopy, NoSr, NoRs, NoSnap, Copies, Resources, Rescalings,
     Locations, Replicas, Operations, NoRev
<1>48b. CASE \E i \in Indices : DeleteIndex(i)
  BY <1>48b DEF DeleteIndex, LeavePass
<1>49. CASE UNCHANGED vars
  BY <1>49 DEF vars
<1> QED
  BY <1>1, <1>2, <1>3, <1>4, <1>5, <1>6, <1>7, <1>8, <1>9, <1>10, <1>11,
     <1>12, <1>13, <1>14, <1>15, <1>16, <1>17, <1>18, <1>19, <1>20, <1>21,
     <1>22, <1>23, <1>24, <1>25, <1>26, <1>27, <1>28, <1>29, <1>30, <1>31,
     <1>32, <1>33, <1>34, <1>35, <1>36, <1>37, <1>38, <1>39, <1>40, <1>41,
     <1>42, <1>43, <1>44, <1>45, <1>46, <1>47, <1>48, <1>48a, <1>48b, <1>49
     DEF MovesPod, Next, Step,
     Fault, Platform, Disturbance

(* The type invariant of the operating loop.                               *)
THEOREM TypeCorrect == Spec => []TypeOK
<1>1. ASSUME Init PROVE TypeOK
  <2>1. NoPod \in Pods /\ NoView \in Views
    BY ConstantsLemma DEF NoPod, NoView, Pods, Views, Phases
  <2>2. eds \in DataSets /\ sts \in StatefulSets
    BY <1>1, ConstantsLemma DEF Init, DataSets, StatefulSets, Operations, NoRev
  <2>3. NoCopy \in Copies /\ NoSr \in Resources /\ NoRs \in Rescalings
    BY DEF NoCopy, NoSr, NoRs, Copies, Resources, Rescalings, Replicas,
           Operations, NoRev
  <2> QED  BY <1>1, <2>1, <2>2, <2>3, ConstantsLemma
              DEF Init, TypeOK, NoSnap, Operations, Locations
<1> QED  BY <1>1, TypeStep, PTL DEF Spec

-----------------------------------------------------------------------------
(* Draining.  A drained pod stays empty because its address stays on the   *)
(* exclude list as long as the incarnation lives; that the address is the  *)
(* right one follows from the snapshot being current, which only PodGone   *)
(* can end.                                                                *)

(* Nothing is left of a pod that is absent, and current snapshots and      *)
(* cache entries are of pods that exist.                                   *)
SnapshotInv ==
    /\ \A o \in Ord : pod[o].phase = "absent" => ~pod[o].excl
    /\ \A o \in Ord : snap[o] # "none" /\ o \notin gone
                         => pod[o].phase # "absent"
    /\ \A o \in Ord : seen[o].phase # "absent" /\ seen[o].same
                         => pod[o].phase # "absent"

(* The wait is for an excluded pod, the deletion of a drained one.         *)
DrainInv ==
    /\ SnapshotInv
    /\ DrainedPodsStayEmpty
    /\ pc = "drainWait" /\ HeldIsCurrent => pod[held].excl
    /\ pc = "delete" /\ ~ctxDone /\ ~SkipDraining /\ ~gaveUp
         /\ HeldIsCurrent => held \in drained

(* Snapshots and cache entries stay current until the pod is gone.         *)
LEMMA SnapshotStep == TypeOK /\ SnapshotInv /\ [Next]_vars => SnapshotInv'
<1> SUFFICES ASSUME TypeOK, SnapshotInv, [Next]_vars PROVE SnapshotInv'
  OBVIOUS
<1> USE DEF TypeOK, SnapshotInv, local, history, outside
<1>1. CASE Operate \/ Restart \/ HandleEvent \/ Cancel \/
          CreateStatefulSet \/ Reconcile \/
          UpdateStatus \/ OperatePods \/ PickNone \/ Surge \/ Stabilize \/
          DrainSkipped \/ DisableRebalance \/ DrainDone \/ DrainCancelled \/
          DrainGivesUp \/ Rescale \/ PreScaleDown \/ PreUnannotate \/
          DrainedAll \/ AbortScaleDown \/ (\E o \in Ord : DrainNext(o)) \/
          AwaitResize \/ Settle \/ ApplyScalingOperation \/ Unannotate \/
          ReportStatus \/ (\E d \in Desired : SetReplicas(d)) \/ EditTemplate
          \/ (\E i \in Indices : DeleteIndex(i))
          \/ (\E d \in Desired, c \in Changes : RequestScaling(d, c))
          \/ UNCHANGED vars
  BY <1>1 DEF Operate, Restart, HandleEvent, Cancel, CreateStatefulSet,
     Reconcile,
     UpdateStatus, OperatePods, PickNone, Surge, Stabilize, DrainSkipped,
     DisableRebalance, DrainDone, DrainCancelled, DrainGivesUp, Rescale,
     PreScaleDown, PreUnannotate, DrainedAll, AbortScaleDown, DrainNext,
     AwaitResize, Settle, ApplyScalingOperation, Unannotate, ReportStatus,
     SetReplicas, EditTemplate, DeleteIndex, RequestScaling, WriteEDS,
     LeavePass, vars
<1>2. CASE Refused \/ Fail \/ IndexSettingsFail \/ Cleanup \/ PodTerminated
          \/ TerminationTimeout
          \/ NothingToRescale \/ Resize
  BY <1>2 DEF Refused, Fail, IndexSettingsFail, Cleanup, PodTerminated,
     TerminationTimeout,
     NothingToRescale, Resize, EndPass, Forget, NoSnap
<1>3. CASE \E o \in Ord : Pick(o)
  BY <1>3 DEF Pick, NoSnap, ListedPhase, Listed, View
<1>4. CASE ListPods
  BY <1>4 DEF ListPods, ListedPods, ListedPhase, Listed, View
<1>5. CASE MarkDraining
  <2>1. \A o \in Ord : /\ pod'[o].phase = pod[o].phase
                       /\ pod'[o].excl = pod[o].excl
    BY <1>5 DEF MarkDraining, Pods
  <2> QED  BY <1>5, <2>1 DEF MarkDraining
<1>6. CASE Exclude
  BY <1>6 DEF Exclude, HeldIsCurrent, Pods
<1>7. CASE DeletePod
  BY <1>7 DEF DeletePod, Pods
<1>8. CASE \E o \in Ord : CreatePod(o)
  BY <1>8 DEF CreatePod, LeavePass, NoPod
<1>9. CASE \E o \in Ord : MovesPod(o)
  <2>1. PICK o \in Ord : MovesPod(o)
    BY <1>9
  <2>2. PICK ph \in Phases \ {"absent"} : pod' = [pod EXCEPT ![o].phase = ph]
    BY <2>1, MovesPodStep
  <2>3. \A q \in Ord : /\ pod'[q].excl = pod[q].excl
                       /\ pod'[q].phase = "absent" <=> pod[q].phase = "absent"
    BY <2>1, <2>2, MovesPodStep DEF Pods
  <2>4. UNCHANGED <<seen, snap, gone>>
    BY <2>1, MovesPodStep DEF LeavePass
  <2> QED  BY <2>3, <2>4
<1>10. CASE \E o \in Ord : PodGone(o)
  <2>1. PICK o \in Ord : PodGone(o)
    BY <1>10
  <2>2. /\ ~pod'[o].excl
        /\ \A q \in Ord \ {o} : pod'[q] = pod[q] /\ seen'[q] = seen[q]
    BY <2>1 DEF PodGone, NoPod
  <2>3. seen'[o].phase = "absent" \/ ~seen'[o].same
    BY <2>1 DEF PodGone, Views
  <2>4. /\ snap' = snap /\ gone \subseteq gone'
        /\ snap[o] = "none" \/ o \in gone'
    BY <2>1 DEF PodGone, LeavePass
  <2> QED  BY <2>2, <2>3, <2>4
<1>11. CASE \E o \in Ord : Observe(o)
  BY <1>11 DEF Observe, LeavePass, View
<1>12. CASE \E o \in Ord : Allocate(o)
  BY <1>12 DEF Allocate, LeavePass, Pods
<1>13. CASE \E o, p \in Ord : Relocate(o, p)
  <2>1. \A o \in Ord : /\ pod'[o].phase = pod[o].phase
                       /\ pod'[o].excl = pod[o].excl
    BY <1>13 DEF Relocate, Pods
  <2>2. UNCHANGED <<seen, snap, gone>>
    BY <1>13 DEF Relocate, LeavePass
  <2> QED  BY <2>1, <2>2
<1>14. CASE \E o \in Ord, r \in NodeReasons : CordonNode(o, r)
  BY <1>14 DEF CordonNode, LeavePass, Pods
<1> QED
  BY <1>1, <1>2, <1>3, <1>4, <1>5, <1>6, <1>7, <1>8, <1>9, <1>10, <1>11,
     <1>12, <1>13, <1>14 DEF MovesPod, Next, Step, Fault, Platform,
     Disturbance

(* Nothing that anybody does brings shards back to a drained pod.          *)
LEMMA DrainStep ==
    TypeOK /\ DrainInv /\ SnapshotInv' /\ [Next]_vars => DrainInv'
<1> SUFFICES ASSUME TypeOK, DrainInv, SnapshotInv', [Next]_vars PROVE DrainInv'
  OBVIOUS
<1> USE DEF TypeOK, DrainInv, DrainedPodsStayEmpty, HeldIsCurrent, local,
   history, outside
<1>1. CASE Operate \/ Restart \/ HandleEvent \/ Cancel \/ CreateStatefulSet
          \/ Reconcile \/ UpdateStatus \/ OperatePods \/ PickNone \/ Surge
          \/ Stabilize \/ DisableRebalance
  BY <1>1 DEF Operate, Restart, HandleEvent, Cancel, CreateStatefulSet,
     Reconcile, UpdateStatus, OperatePods, PickNone, Surge, Stabilize,
     DisableRebalance
<1>1a. CASE Rescale \/ PreScaleDown \/ PreUnannotate \/ DrainedAll
          \/ AbortScaleDown \/ (\E o \in Ord : DrainNext(o)) \/ AwaitResize
          \/ Settle \/ ApplyScalingOperation \/ Unannotate
  BY <1>1a DEF Rescale, PreScaleDown, PreUnannotate, DrainedAll,
     AbortScaleDown, DrainNext, AwaitResize, Settle, ApplyScalingOperation,
     Unannotate, AfterRescale
<1>1b. CASE ReportStatus \/ (\E d \in Desired : SetReplicas(d)) \/ EditTemplate
          \/ (\E i \in Indices : DeleteIndex(i))
          \/ (\E d \in Desired, c \in Changes : RequestScaling(d, c))
          \/ UNCHANGED vars
  <2>1. UNCHANGED <<pod, gone, drained>> /\ LeavePass
    BY <1>1b DEF ReportStatus, SetReplicas, EditTemplate, DeleteIndex,
       RequestScaling, WriteEDS, LeavePass, vars
  <2> QED  BY <2>1 DEF LeavePass
<1>2. CASE DrainSkipped
  BY <1>2 DEF DrainSkipped, AfterDrain
<1>3. CASE DrainDone
  BY <1>3 DEF DrainDone, AfterDrain
<1>4. CASE DrainCancelled
  BY <1>4 DEF DrainCancelled, AfterDrain
<1>5. CASE DrainGivesUp
  BY <1>5 DEF DrainGivesUp, AfterDrain
<1>6. CASE Refused \/ Fail \/ IndexSettingsFail \/ Cleanup \/ PodTerminated
          \/ TerminationTimeout
          \/ NothingToRescale \/ Resize
  BY <1>6 DEF Refused, Fail, IndexSettingsFail, Cleanup, PodTerminated,
     TerminationTimeout,
     NothingToRescale, Resize, EndPass, Forget, AfterRescale
<1>7. CASE \E o \in Ord : Pick(o)
  BY <1>7 DEF Pick
<1>8. CASE ListPods
  BY <1>8 DEF ListPods
<1>9. CASE MarkDraining
  BY <1>9 DEF MarkDraining, Pods
<1>10. CASE Exclude
  BY <1>10 DEF Exclude, Pods
<1>11. CASE DeletePod
  BY <1>11 DEF DeletePod, Pods
<1>12. CASE \E o \in Ord : CreatePod(o)
  BY <1>12 DEF SnapshotInv, CreatePod, LeavePass
<1>13. CASE \E o \in Ord : MovesPod(o)
  <2>1. PICK o \in Ord : MovesPod(o)
    BY <1>13
  <2>2. PICK ph \in Phases \ {"absent"} : pod' = [pod EXCEPT ![o].phase = ph]
    BY <2>1, MovesPodStep
  <2>3. \A q \in Ord : pod'[q].excl = pod[q].excl /\ pod'[q].data = pod[q].data
    BY <2>2 DEF Pods
  <2>4. UNCHANGED <<pc, ctxDone, held, snap, gone, drained, gaveUp>>
    BY <2>1, MovesPodStep DEF LeavePass
  <2> QED  BY <2>3, <2>4
<1>14. CASE \E o \in Ord : PodGone(o)
  BY <1>14 DEF PodGone, LeavePass
<1>15. CASE \E o \in Ord : Observe(o)
  BY <1>15 DEF Observe, LeavePass
<1>16. CASE \E o \in Ord : Allocate(o)
  BY <1>16 DEF Allocate, Usable, LeavePass, Pods
<1>17. CASE \E o, p \in Ord : Relocate(o, p)
  BY <1>17 DEF Relocate, Usable, LeavePass, Pods
<1>18. CASE \E o \in Ord, r \in NodeReasons : CordonNode(o, r)
  BY <1>18 DEF CordonNode, LeavePass, Pods
<1> QED
  BY <1>1, <1>1a, <1>1b, <1>2, <1>3, <1>4, <1>5, <1>6, <1>7, <1>8, <1>9,
     <1>10, <1>11, <1>12, <1>13, <1>14, <1>15, <1>16, <1>17, <1>18
     DEF MovesPod, Next, Step, Fault, Platform, Disturbance

(* A pod found free of shards stays so until its incarnation is gone, and  *)
(* what operatePods deletes outside the windows left open by the code is   *)
(* such a pod.                                                             *)
LEMMA DrainCorrect == Spec => []DrainInv
<1>1. Init => DrainInv
  BY DEF Init, DrainInv, SnapshotInv, DrainedPodsStayEmpty, HeldIsCurrent,
         NoPod, NoView, NoSnap
<1>2. DrainInv => SnapshotInv
  BY DEF DrainInv
<1> QED  BY <1>1, <1>2, TypeCorrect, SnapshotStep, DrainStep, PTL DEF Spec

(* For every number of pods and whatever else happens: a pod this pass     *)
(* found free of shards (waitForEmptyEsNode) stays excluded and empty      *)
(* until its incarnation is gone.                                          *)
THEOREM DrainedStayEmpty == Spec => []DrainedPodsStayEmpty
<1>1. DrainInv => DrainedPodsStayEmpty
  BY DEF DrainInv
<1> QED  BY <1>1, DrainCorrect, PTL

(* For every number of pods: outside the windows named in the property the *)
(* pod that operatePods deletes holds no shard, also when the context is   *)
(* cancelled during its drain.                                             *)
THEOREM DeleteIsSafe == Spec => DeletedPodIsEmpty
<1>1. DrainInv /\ [Next]_vars =>
         [Deletes /\ ~SkipDraining /\ ~gaveUp /\ HeldIsCurrent
            => ~pod[held].data]_vars
  <2> SUFFICES ASSUME DrainInv, Next, Deletes, ~SkipDraining, ~gaveUp,
                      HeldIsCurrent
               PROVE  ~pod[held].data
    OBVIOUS
  <2>1. ~ctxDone
    <3>1. CASE DeletePod
      BY <3>1 DEF DeletePod
    <3>2. CASE Platform \/ Disturbance
      <4>1. pc' = pc
        BY <3>2 DEF Platform, Disturbance, ReportStatus, CreatePod,
           SchedulePod, StartPod, ScaledDown, EvictPod, SetPhase, PodGone,
           Observe, Allocate, Relocate, CordonNode, SetReplicas, EditTemplate,
           RequestScaling, WriteEDS, DeleteIndex, LeavePass
      <4> QED  BY <4>1 DEF Deletes
    <3>3. CASE Fault
      BY <3>3 DEF Deletes, Fault, Fail, IndexSettingsFail, Cancel,
         DrainGivesUp, EndPass
    <3> QED
      BY <3>1, <3>2, <3>3 DEF Deletes, Next, Step, Operate, HandleEvent,
         Restart, Refused, EndPass, CreateStatefulSet, Reconcile,
         UpdateStatus, OperatePods, PickNone, Pick, Surge, Stabilize,
         MarkDraining, DrainSkipped, DisableRebalance, Exclude, DrainDone,
         DrainCancelled, PodTerminated, TerminationTimeout, NothingToRescale,
         Rescale, PreScaleDown, PreUnannotate, ListPods, DrainedAll,
         AbortScaleDown, DrainNext, Resize, AwaitResize, Settle,
         ApplyScalingOperation, Unannotate, Cleanup
  <2> QED  BY <2>1 DEF Deletes, DrainInv, DrainedPodsStayEmpty
<1> QED  BY <1>1, DrainCorrect, PTL DEF Spec, DeletedPodIsEmpty

(* Scaling down: every pod Kubernetes will remove is still to be drained,  *)
(* being drained, or drained, as long as none of the exceptions happened.  *)
InHand == IF pc \in {"stabilize", "drain", "exclude", "drainWait"}
          THEN {held} ELSE {}
OrderlyScaleDown ==
    /\ pc \in {"drainNext", "stabilize", "drain", "exclude", "drainWait",
               "resize"}
    /\ caller # "update" /\ rs.target < copy.replicas
    /\ ~ctxDone /\ ~SkipDraining /\ ~gaveUp /\ ~aborted
    /\ CompleteList /\ gone = {}
ScaleDownInv ==
    /\ pc \in {"rescale", "preScaleDown", "preUnannotate", "list",
               "drainNext", "resize"} => caller # "update"
    /\ pc \in {"surge", "mark"} => caller = "update"
    /\ pc = "resize" => todo = {}
    /\ OrderlyScaleDown =>
          \A o \in Ord : o >= rs.target /\ o < copy.replicas
                           => o \in drained \cup todo \cup InHand

(* What the others do leaves the pass alone, up to the freshness of its    *)
(* copies; only PodGone makes a snapshot a former pod's.                   *)
OthersButPodGone ==
    \/ ReportStatus
    \/ \E o \in Ord :
          \/ CreatePod(o) \/ SchedulePod(o) \/ StartPod(o) \/ ScaledDown(o)
          \/ EvictPod(o) \/ Observe(o) \/ Allocate(o)
          \/ \E p \in Ord : Relocate(o, p)
          \/ \E r \in NodeReasons : CordonNode(o, r)
    \/ \E d \in Desired : SetReplicas(d)
    \/ EditTemplate
    \/ \E d \in Desired, c \in Changes : RequestScaling(d, c)
    \/ \E i \in Indices : DeleteIndex(i)

(* Such a step leaves the local variables of operatePods as they are.      *)
LEMMA OthersStep ==
    ASSUME TypeOK, OthersButPodGone \/ UNCHANGED vars
    PROVE  /\ LeavePass /\ UNCHANGED <<gone, drained>>
           /\ copy'.replicas = copy.replicas
           /\ rs'.target = rs.target
<1>1. CASE ReportStatus
  BY <1>1 DEF ReportStatus, TypeOK, Copies
<1>2. CASE \E o \in Ord : \/ CreatePod(o) \/ SchedulePod(o) \/ StartPod(o)
                          \/ ScaledDown(o) \/ EvictPod(o) \/ Observe(o)
                          \/ Allocate(o) \/ \E p \in Ord : Relocate(o, p)
                          \/ \E r \in NodeReasons : CordonNode(o, r)
  BY <1>2 DEF CreatePod, SchedulePod, StartPod, ScaledDown, EvictPod,
     SetPhase, Observe, Allocate, Relocate, CordonNode
<1>3. ASSUME NEW new, WriteEDS(new)
      PROVE  /\ LeavePass /\ UNCHANGED <<gone, drained>>
             /\ copy'.replicas = copy.replicas
             /\ rs'.target = rs.target
  BY <1>3 DEF WriteEDS, TypeOK, Rescalings
<1>4. CASE \/ \E d \in Desired : SetReplicas(d)
           \/ EditTemplate
           \/ \E d \in Desired, c \in Changes : RequestScaling(d, c)
  BY <1>3, <1>4 DEF SetReplicas, EditTemplate, RequestScaling
<1>5. CASE UNCHANGED vars \/ \E i \in Indices : DeleteIndex(i)
  BY <1>5 DEF vars, local, history, LeavePass, DeleteIndex
<1> QED  BY <1>1, <1>2, <1>4, <1>5 DEF OthersButPodGone

(* When all pods below the target are listed, the positional slice of the  *)
(* sorted list has every listed pod from the target on.                    *)
LEMMA TailIsScaledDown ==
    ASSUME NEW S \in SUBSET Ord, NEW target \in Nat, NEW o \in S, o >= target,
           \A q \in Ord : q < target => q \in S
    PROVE  o \in PodsBeyond(S, target)
<1> DEFINE B == {p \in S : p < o}
<1>1. IsFiniteSet(B)
  BY ConstantsLemma, FS_Subset
<1>2. 0 .. target - 1 \subseteq B
  BY ConstantsLemma, MaxPodsAssumption DEF Ord
<1>3. Cardinality(0 .. target - 1) = target
  BY FS_Interval
<1>4. Cardinality(0 .. target - 1) <= Cardinality(B)
  BY <1>1, <1>2, FS_Subset
<1>5. Cardinality(B) >= target
  BY <1>1, <1>3, <1>4, FS_CardinalityType
<1> QED  BY <1>5 DEF PodsBeyond

(* A step keeps track of the pods that are still to be drained.            *)
LEMMA ScaleDownStep == TypeOK /\ ScaleDownInv /\ [Next]_vars => ScaleDownInv'
<1> SUFFICES ASSUME TypeOK, ScaleDownInv, [Next]_vars PROVE ScaleDownInv'
  OBVIOUS
<1> USE DEF ScaleDownInv, OrderlyScaleDown, CompleteList, InHand, local,
   history, outside
<1>1. CASE Refused \/ Fail \/ IndexSettingsFail \/ Cleanup \/ PodTerminated
          \/ TerminationTimeout
          \/ NothingToRescale \/ Resize
  BY <1>1 DEF Refused, Fail, IndexSettingsFail, Cleanup, PodTerminated,
     TerminationTimeout,
     NothingToRescale, Resize, EndPass, Forget, AfterRescale
<1>2. CASE \/ Operate \/ Restart \/ HandleEvent \/ Cancel
           \/ CreateStatefulSet \/ Reconcile
           \/ UpdateStatus \/ OperatePods \/ PickNone
           \/ Rescale \/ PreScaleDown \/ PreUnannotate
           \/ AwaitResize \/ Settle \/ ApplyScalingOperation \/ Unannotate
  BY <1>2 DEF Operate, Restart, HandleEvent, Cancel, CreateStatefulSet,
     Reconcile,
     UpdateStatus, OperatePods, PickNone, Rescale, PreScaleDown,
     PreUnannotate, AwaitResize, Settle, ApplyScalingOperation, Unannotate,
     AfterRescale
<1>2a. CASE (\E o \in Ord : Pick(o)) \/ Surge \/ MarkDraining \/ DeletePod
  BY <1>2a DEF Pick, Surge, MarkDraining, DeletePod
<1>3. CASE Stabilize
  BY <1>3 DEF Stabilize
<1>4. CASE DrainSkipped
  BY <1>4 DEF DrainSkipped, AfterDrain
<1>5. CASE DisableRebalance
  BY <1>5 DEF DisableRebalance
<1>6. CASE Exclude
  BY <1>6 DEF Exclude
<1>7. CASE DrainDone
  BY <1>7 DEF DrainDone, AfterDrain, HeldIsCurrent, TypeOK
<1>8. CASE DrainCancelled
  BY <1>8 DEF DrainCancelled, AfterDrain
<1>9. CASE DrainGivesUp
  BY <1>9 DEF DrainGivesUp, AfterDrain
<1>10. CASE ListPods
  <2> SUFFICES ASSUME OrderlyScaleDown', NEW o \in Ord,
                      o >= rs.target, o < copy.replicas
               PROVE  o \in todo'
    BY <1>10 DEF ListPods
  <2>1. \A q \in Ord : q < copy.replicas => q \in ListedPods
    BY <1>10, ListedType DEF ListPods, ListedPhase, ListedPods
  <2>2. rs.target \in Nat /\ copy.replicas \in Nat /\ rs.target < copy.replicas
    BY <1>10 DEF ListPods, TypeOK, Rescalings, Copies
  <2>3. o \in PodsBeyond(ListedPods, rs.target)
    BY <2>1, <2>2, TailIsScaledDown, ListedType, ConstantsLemma
  <2> QED  BY <1>10, <2>3 DEF ListPods
<1>11. CASE DrainedAll
  BY <1>11 DEF DrainedAll
<1>12. CASE AbortScaleDown
  BY <1>12 DEF AbortScaleDown
<1>13. CASE \E o \in Ord : DrainNext(o)
  BY <1>13 DEF DrainNext
<1>14. CASE \E o \in Ord : PodGone(o)
  BY <1>14 DEF PodGone, LeavePass
<1>15. CASE OthersButPodGone \/ UNCHANGED vars
  BY <1>15, OthersStep DEF LeavePass
<1> QED
  BY <1>1, <1>2, <1>2a, <1>3, <1>4, <1>5, <1>6, <1>7, <1>8, <1>9, <1>10, <1>11,
     <1>12, <1>13, <1>14, <1>15 DEF Next, Step, Fault, Platform, Disturbance,
     OthersButPodGone

(* For every number of pods: an orderly scale-down, over a complete list,  *)
(* removes pods without shards only.                                       *)
THEOREM ShrinkIsSafe == Spec => []ShrinkRemovesEmptyPods
<1>1. Init => ScaleDownInv
  BY DEF Init, ScaleDownInv, OrderlyScaleDown
<1>2. DrainInv /\ ScaleDownInv => ShrinkRemovesEmptyPods
  BY DEF DrainInv, DrainedPodsStayEmpty, ScaleDownInv, OrderlyScaleDown,
     InHand, ShrinkRemovesEmptyPods
<1> QED  BY <1>1, <1>2, TypeCorrect, DrainCorrect, ScaleDownStep, PTL DEF Spec

(* Replicas: what the pass is about to write lies in the same range.       *)
InRange(n) ==
    /\ \E d \in Wanted : d <= n
    /\ Nil \notin Desired => \E d \in Desired : n <= d + 1
HasCopy == \/ pc \in {"status", "pods", "pick", "surge", "rescale",
                      "preScaleDown", "preUnannotate", "list", "drainNext",
                      "resize"}
           \/ pc \in {"stabilize", "drain", "exclude", "drainWait"}
                /\ caller # "update"
HasTarget == \/ pc \in {"preScaleDown", "preUnannotate", "list", "drainNext",
                        "resize"}
             \/ pc \in {"stabilize", "drain", "exclude", "drainWait"}
                  /\ caller # "update"
ReplicasInv ==
    /\ sts.exists => InRange(sts.replicas)
    /\ HasCopy => InRange(copy.replicas)
    /\ HasTarget => InRange(rs.target)
    /\ Nil \notin Desired =>
          /\ pc = "pick" => sr.desired \in Desired
          /\ pc = "surge" => copy.replicas \in Desired
    /\ pc \notin {"idle", "reconcile"} => sts.exists

(* What edsReplicas returns is in the range; if it returns nil the default *)
(* of Kubernetes, one replica, is.                                         *)
LEMMA EdsReplicasWanted ==
    ASSUME TypeOK
    PROVE  /\ Nil \notin Desired =>
                EdsReplicas(eds) \in Desired /\ EdsReplicas(eds) \in Nat
           /\ EdsReplicas(eds) # Nil =>
                EdsReplicas(eds) \in Nat /\ InRange(EdsReplicas(eds))
           /\ EdsReplicas(eds) = Nil => InRange(1)
<1>1. eds.replicas \in Desired /\ eds.status \in Nat
  BY DEF TypeOK, DataSets
<1>2. CASE eds.replicas # Nil
  <2>1. EdsReplicas(eds) = eds.replicas /\ eds.replicas \in Nat
    BY <1>1, <1>2, DesiredAssumption DEF EdsReplicas
  <2>2. eds.replicas \in Wanted
    BY <1>1, <1>2 DEF Wanted
  <2>3. InRange(eds.replicas)
    BY <1>1, <2>1, <2>2 DEF InRange
  <2> QED  BY <1>1, <1>2, <2>1, <2>3
<1>3. CASE eds.replicas = Nil
  <2>1. Nil \in Desired
    BY <1>1, <1>3
  <2>2. CASE ScalingEnabled /\ MinReplicas > 0
    <3>1. MinReplicas \in Wanted
      BY <2>1, <2>2 DEF Wanted
    <3>2. /\ EdsReplicas(eds) \in Nat /\ MinReplicas <= EdsReplicas(eds)
          /\ EdsReplicas(eds) # Nil
      BY <1>1, <1>3, <2>2, MinReplicasAssumption, NilAssumption
         DEF EdsReplicas, Larger
    <3> QED  BY <2>1, <3>1, <3>2 DEF InRange
  <2>3. CASE ~(ScalingEnabled /\ MinReplicas > 0)
    <3>1. 1 \in Wanted
      BY <2>1, <2>3 DEF Wanted
    <3>2. EdsReplicas(eds) = Nil
      BY <1>3, <2>3, MinReplicasAssumption DEF EdsReplicas
    <3> QED  BY <2>1, <3>1, <3>2 DEF InRange
  <2> QED  BY <2>2, <2>3
<1> QED  BY <1>2, <1>3

(* The members of Wanted are numbers.                                      *)
LEMMA WantedType == Wanted \subseteq Nat
<1> SUFFICES ASSUME NEW w \in Wanted PROVE w \in Nat
  OBVIOUS
<1>1. PICK d \in Desired :
         w = IF d # Nil THEN d
             ELSE IF ScalingEnabled /\ MinReplicas > 0 THEN MinReplicas ELSE 1
  BY DEF Wanted
<1> QED  BY <1>1, DesiredAssumption, MinReplicasAssumption

(* Surge, scale-up and scale-down stay in the range of what was asked for. *)
LEMMA ReplicasStep ==
    TypeOK /\ ScaleDownInv /\ ReplicasInv /\ [Next]_vars => ReplicasInv'
<1> SUFFICES ASSUME TypeOK, ScaleDownInv, ReplicasInv, [Next]_vars
             PROVE  ReplicasInv'
  OBVIOUS
<1> USE DEF ReplicasInv, HasCopy, HasTarget, local, history, outside
<1>1. CASE \/ Refused \/ Fail \/ IndexSettingsFail \/ Cleanup \/ PodTerminated
           \/ TerminationTimeout \/ NothingToRescale
  BY <1>1 DEF Refused, Fail, IndexSettingsFail, Cleanup, PodTerminated,
     TerminationTimeout,
     NothingToRescale, EndPass, Forget, AfterRescale
<1>2. CASE \/ Operate \/ Restart \/ HandleEvent \/ Cancel
           \/ UpdateStatus \/ DrainSkipped
           \/ DisableRebalance \/ Exclude \/ DrainDone \/ DrainCancelled
           \/ DrainGivesUp \/ DeletePod \/ PreScaleDown \/ ListPods
           \/ DrainedAll \/ AbortScaleDown \/ (\E o \in Ord : DrainNext(o))
           \/ AwaitResize \/ Settle \/ ApplyScalingOperation \/ Unannotate
           \/ Stabilize \/ MarkDraining
  BY <1>2 DEF Operate, Restart, HandleEvent, Cancel, UpdateStatus,
     DrainSkipped,
     DisableRebalance, Exclude, DrainDone, DrainCancelled, DrainGivesUp,
     DeletePod, PreScaleDown, ListPods, DrainedAll, AbortScaleDown, DrainNext,
     AwaitResize, Settle, ApplyScalingOperation, Unannotate, Stabilize,
     MarkDraining, AfterDrain, AfterRescale, ScaleDownInv
<1>3. CASE CreateStatefulSet
  BY <1>3, EdsReplicasWanted DEF CreateStatefulSet
<1>4. CASE Reconcile
  BY <1>4 DEF Reconcile, TypeOK, StatefulSets
<1>5. CASE OperatePods
  BY <1>5, EdsReplicasWanted DEF OperatePods
<1>6. CASE PickNone
  BY <1>6 DEF PickNone, TypeOK, Copies
<1>7. CASE \E o \in Ord : Pick(o)
  BY <1>7 DEF Pick, NeedsSurge, TypeOK, Copies
<1>8. CASE Surge
  <2>1. InRange(copy.replicas + 1)
    BY <1>8, WantedType DEF Surge, InRange, TypeOK, Copies
  <2> QED  BY <1>8, <2>1 DEF Surge, TypeOK, StatefulSets, ScaleDownInv
<1>9. CASE Rescale
  <2>1. EdsReplicas(eds) \in Nat /\ InRange(EdsReplicas(eds))
    BY <1>9, EdsReplicasWanted DEF Rescale
  <2>2. EdsReplicas(eds) < copy.replicas => InRange(copy.replicas - 1)
    BY <1>9, <2>1, WantedType, DesiredAssumption
       DEF Rescale, InRange, TypeOK, Copies
  <2> QED  BY <1>9, <2>1, <2>2
              DEF Rescale, ScaleTarget, TypeOK, Copies, Rescalings
<1>10. CASE PreUnannotate
  BY <1>10 DEF PreUnannotate, TypeOK, Rescalings
<1>11. CASE Resize
  BY <1>11 DEF Resize, Forget, TypeOK, StatefulSets
<1>12. CASE \E o \in Ord : PodGone(o)
  BY <1>12 DEF PodGone, LeavePass
<1>13. CASE OthersButPodGone \/ UNCHANGED vars
  <2>1. sts'.exists = sts.exists /\ sts'.replicas = sts.replicas
    BY <1>13 DEF OthersButPodGone, ReportStatus, CreatePod, SchedulePod,
       StartPod, ScaledDown, EvictPod, SetPhase, Observe, Allocate, Relocate,
       CordonNode, SetReplicas, EditTemplate, RequestScaling, WriteEDS,
       DeleteIndex, vars,
       TypeOK, StatefulSets
  <2>2. sr'.desired = sr.desired
    BY <1>13 DEF OthersButPodGone, ReportStatus, CreatePod, SchedulePod,
       StartPod, ScaledDown, EvictPod, SetPhase, Observe, Allocate, Relocate,
       CordonNode, SetReplicas, EditTemplate, RequestScaling, WriteEDS,
       DeleteIndex, vars,
       TypeOK, Resources
  <2> QED  BY <1>13, <2>1, <2>2, OthersStep DEF LeavePass
<1> QED
  BY <1>1, <1>2, <1>3, <1>4, <1>5, <1>6, <1>7, <1>8, <1>9, <1>10, <1>11,
     <1>12, <1>13 DEF Next, Step, Fault, Platform, Disturbance,
     OthersButPodGone

(* For every set of desired replicas: the StatefulSet stays within it, up  *)
(* to the one replica of the surge.                                        *)
THEOREM ReplicasBounded == Spec => []ReplicasInRange
<1>1. Init => ReplicasInv /\ ScaleDownInv
  BY DEF Init, ReplicasInv, HasCopy, HasTarget, ScaleDownInv, OrderlyScaleDown
<1>2. ReplicasInv => ReplicasInRange
  BY DEF ReplicasInv, ReplicasInRange, InRange
<1> QED  BY <1>1, <1>2, TypeCorrect, ScaleDownStep, ReplicasStep, PTL DEF Spec

(* The index settings of an operation were written, or one of its indices  *)
(* does not exist.                                                         *)
Applied(op) ==
    \/ \A i \in DOMAIN op : index[i] = op[i]
    \/ \E i \in DOMAIN op : index[i] = Nil

(* Scaling operations: a fresh copy has the operation the EDS has, and the *)
(* annotation is about to be removed only of an operation that was applied.*)
OperationInv ==
    /\ rs.fresh => rs.op = eds.op
    /\ sr.fresh /\ pc \notin {"reconcile", "status", "pods"}
         => sr.op = eds.op
    /\ pc = "preUnannotate" => rs.op \in Changes /\ Applied(rs.op)
    /\ pc = "unannotate" => sr.op \in Changes /\ Applied(sr.op)
    /\ pc \in {"idle", "resizeWait", "settle", "hook",
              "unannotate"} => ~rs.fresh

(* UpdateIndexSettings without an error applies an operation, as far as    *)
(* its indices exist; nobody but the hooks writes index settings.          *)
LEMMA IndexSettingsApply ==
    ASSUME TypeOK, NEW op \in Changes, UpdateIndexSettings(op)
    PROVE  Applied(op)'
<1>1. DOMAIN op \subseteq Indices /\ Exists(op) \subseteq DOMAIN op
  BY ChangesAssumption DEF Exists
<1>2. PICK S \in SUBSET Exists(op) :
         /\ Exists(op) = DOMAIN op => S = DOMAIN op
         /\ SetIndices(op, S)
  BY DEF UpdateIndexSettings
<1>3. \A i \in Indices : index'[i] = IF i \in S THEN op[i] ELSE index[i]
  BY <1>2 DEF SetIndices
<1>4. CASE Exists(op) = DOMAIN op
  BY <1>1, <1>2, <1>3, <1>4 DEF Applied
<1>5. CASE Exists(op) # DOMAIN op
  <2>1. PICK i \in DOMAIN op : i \notin Exists(op)
    BY <1>1, <1>5
  <2>2. index'[i] = Nil
    BY <1>1, <1>2, <1>3, <2>1 DEF Exists
  <2> QED  BY <2>1, <2>2 DEF Applied
<1> QED  BY <1>4, <1>5
LEMMA AppliedUnchanged ==
    ASSUME UNCHANGED index, NEW op PROVE Applied(op)' <=> Applied(op)
BY DEF Applied
LEMMA DeletionKeepsApplied ==
    ASSUME TypeOK, NEW op \in Changes, NEW i \in Indices, DeleteIndex(i),
           Applied(op)
    PROVE  Applied(op)'
<1>1. DOMAIN op \subseteq Indices
  BY ChangesAssumption
<1>2. \A j \in Indices : index'[j] = IF j = i THEN Nil ELSE index[j]
  BY DEF DeleteIndex, TypeOK
<1> QED  BY <1>1, <1>2 DEF Applied

(* The freshness of a copy and the operation it holds.                     *)
LEMMA OperationStep ==
    TypeOK /\ OperationInv /\ [Next]_vars => OperationInv'
<1> SUFFICES ASSUME TypeOK, OperationInv, [Next]_vars PROVE OperationInv'
  OBVIOUS
<1> USE DEF OperationInv, local, history, outside
<1>1. CASE \/ Refused \/ Fail \/ IndexSettingsFail \/ Cleanup \/ PodTerminated
           \/ TerminationTimeout \/ NothingToRescale \/ Resize
  BY <1>1 DEF Refused, Fail, IndexSettingsFail, Cleanup, PodTerminated,
     TerminationTimeout,
     NothingToRescale, Resize, EndPass, Forget, NoSr, NoRs, AfterRescale
<1>2. CASE \/ Operate \/ Restart \/ HandleEvent \/ Cancel \/ DrainSkipped
           \/ DisableRebalance \/ Exclude \/ DrainDone \/ DrainCancelled
           \/ DrainGivesUp \/ DeletePod \/ ListPods \/ CreateStatefulSet
           \/ DrainedAll \/ AbortScaleDown \/ (\E o \in Ord : DrainNext(o))
           \/ AwaitResize \/ Settle \/ Stabilize \/ MarkDraining \/ Reconcile
           \/ Surge
  <2>1. CASE \/ Operate \/ Restart \/ HandleEvent \/ Cancel
             \/ CreateStatefulSet \/ Reconcile
    BY <2>1, AppliedUnchanged DEF Operate, Restart, HandleEvent, Cancel,
       CreateStatefulSet, Reconcile, NoSr
  <2>2. CASE DrainSkipped \/ DrainDone \/ DrainCancelled \/ DrainGivesUp
    BY <2>2 DEF DrainSkipped, DrainDone, DrainCancelled, DrainGivesUp,
       AfterDrain
  <2>3. CASE DisableRebalance \/ Exclude \/ ListPods \/ DrainedAll
             \/ AbortScaleDown \/ Stabilize \/ MarkDraining
    BY <2>3 DEF DisableRebalance, Exclude, ListPods, DrainedAll,
       AbortScaleDown, Stabilize, MarkDraining
  <2>4. CASE AwaitResize \/ Settle
    BY <2>4 DEF AwaitResize, Settle, AfterRescale
  <2>5. CASE DeletePod
    BY <2>5 DEF DeletePod, Forget, NoRs
  <2>6. CASE Surge
    BY <2>6 DEF Surge
  <2>7. CASE \E o \in Ord : DrainNext(o)
    BY <2>7 DEF DrainNext
  <2> QED  BY <1>2, <2>1, <2>2, <2>3, <2>4, <2>5, <2>6, <2>7
<1>3. CASE UpdateStatus
  BY <1>3 DEF UpdateStatus, TypeOK, DataSets
<1>4. CASE OperatePods
  BY <1>4 DEF OperatePods
<1>4a. CASE \E i \in Indices : DeleteIndex(i)
  <2>1. \A op \in Changes : Applied(op) => Applied(op)'
    BY <1>4a, DeletionKeepsApplied
  <2>2. UNCHANGED <<eds, sr, rs, pc>>
    BY <1>4a DEF DeleteIndex, LeavePass
  <2> QED  BY <2>1, <2>2
<1>5. CASE PickNone \/ \E o \in Ord : Pick(o)
  BY <1>5 DEF PickNone, Pick, TypeOK, Resources
<1>6. CASE Rescale
  BY <1>6 DEF Rescale
<1>7. CASE PreScaleDown
  <2>1. rs.op # Nil => rs.op \in Changes
    BY DEF TypeOK, Rescalings, Operations
  <2> QED  BY <1>7, <2>1, IndexSettingsApply DEF PreScaleDown
<1>8. CASE PreUnannotate
  BY <1>8 DEF PreUnannotate, TypeOK, Resources, Rescalings
<1>9. CASE ApplyScalingOperation
  <2>1. sr.op # Nil => sr.op \in Changes
    BY DEF TypeOK, Resources, Operations
  <2> QED  BY <1>9, <2>1, IndexSettingsApply DEF ApplyScalingOperation
<1>10. CASE Unannotate
  BY <1>10 DEF Unannotate, TypeOK, Resources
<1>11. CASE \E o \in Ord : PodGone(o)
  BY <1>11, AppliedUnchanged DEF PodGone, LeavePass
<1>12. ASSUME NEW new, WriteEDS(new) PROVE OperationInv'
  BY <1>12, AppliedUnchanged DEF WriteEDS, LeavePass, TypeOK, Resources,
     Rescalings
<1>13. CASE OthersButPodGone \/ UNCHANGED vars
  <2>1. CASE \/ ReportStatus \/ UNCHANGED vars
             \/ \E o \in Ord : Observe(o)
    BY <2>1, AppliedUnchanged DEF ReportStatus, Observe, LeavePass, vars
  <2>2. CASE \E o \in Ord : CreatePod(o) \/ MovesPod(o) \/ Allocate(o)
    <3>1. LeavePass /\ UNCHANGED <<eds, index, sr, rs>>
      BY <2>2, MovesPodStep DEF CreatePod, Allocate, outside
    <3> QED  BY <3>1, AppliedUnchanged DEF LeavePass
  <2>3. CASE \E o \in Ord : \/ \E p \in Ord : Relocate(o, p)
                            \/ \E r \in NodeReasons : CordonNode(o, r)
    BY <2>3, AppliedUnchanged DEF Relocate, CordonNode, LeavePass
  <2>4. CASE \/ \E d \in Desired : SetReplicas(d)
             \/ EditTemplate
             \/ \E d \in Desired, c \in Changes : RequestScaling(d, c)
    BY <1>12, <2>4 DEF SetReplicas, EditTemplate, RequestScaling
  <2> QED
    BY <1>13, <1>4a, <2>1, <2>2, <2>3, <2>4 DEF OthersButPodGone, MovesPod
<1> QED
  BY <1>1, <1>2, <1>3, <1>4, <1>5, <1>6, <1>7, <1>8, <1>9, <1>10, <1>11,
     <1>13 DEF Next, Step, Fault, Platform, Disturbance, OthersButPodGone

(* No hook removes a scaling operation somebody else wrote meanwhile, or   *)
(* one that was not applied to all its indices while they all exist.       *)
THEOREM OperationIsApplied == Spec => OperationApplied
<1>1. Init => OperationInv
  BY DEF Init, OperationInv, NoSr, NoRs
<1>2. TypeOK /\ OperationInv /\ [Next]_vars =>
         [eds.op # Nil /\ eds'.op # eds.op
            => \/ \A i \in DOMAIN eds.op : index[i] = eds.op[i]
               \/ \E i \in DOMAIN eds.op : index[i] = Nil]_vars
  <2> SUFFICES ASSUME TypeOK, OperationInv, Next, eds.op # Nil,
                      eds'.op # eds.op
               PROVE  Applied(eds.op)
    BY DEF Applied
  <2>1. CASE PreUnannotate \/ Unannotate
    BY <2>1 DEF PreUnannotate, Unannotate, OperationInv
  <2>2. CASE UpdateStatus
    BY <2>2 DEF UpdateStatus, TypeOK, DataSets
  <2>3. CASE (\E d \in Desired : SetReplicas(d)) \/ EditTemplate
    BY <2>3 DEF SetReplicas, EditTemplate, WriteEDS, TypeOK, DataSets
  <2>4. CASE \E d \in Desired, c \in Changes : RequestScaling(d, c)
    BY <2>4 DEF RequestScaling
  <2>5. CASE UNCHANGED eds
    BY <2>5
  <2> QED
    BY <2>1, <2>2, <2>3, <2>4, <2>5 DEF Next, Step, Fault, Platform,
       Disturbance, Operate, HandleEvent, Restart, Refused, Fail,
       IndexSettingsFail, Cancel, CreateStatefulSet, Reconcile, OperatePods,
       PickNone, Pick, Surge, Stabilize, MarkDraining, DrainSkipped,
       DisableRebalance, Exclude, DrainDone, DrainCancelled, DrainGivesUp,
       DeletePod, PodTerminated, TerminationTimeout, NothingToRescale,
       Rescale, PreScaleDown, ListPods, DrainedAll, AbortScaleDown, DrainNext,
       Resize, AwaitResize, Settle, ApplyScalingOperation, Cleanup,
       ReportStatus, CreatePod, SchedulePod, StartPod, ScaledDown, EvictPod,
       SetPhase, PodGone, Observe, Allocate, Relocate, CordonNode, DeleteIndex
<1> QED  BY <1>1, <1>2, TypeCorrect, OperationStep, PTL
            DEF Spec, OperationApplied
=============================================================================
