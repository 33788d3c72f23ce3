------------------------------ MODULE Operator ------------------------------
(***************************************************************************)
(* The operating loop of one ElasticsearchDataSet (EDS): the goroutine     *)
(* that operator.go starts in Run, with the StatefulSet and pods it works  *)
(* on, the part of Elasticsearch that a drain touches, and everybody else  *)
(* who writes the same objects.                                            *)
(*                                                                         *)
(* One action stands for one call that can interleave with other writers:  *)
(* an API request, a read of the informer's cache, a poll of a wait loop.  *)
(* A copy of an API object is represented by the fields the code uses and  *)
(* by `fresh': nobody wrote the object since, so an Update with this copy  *)
(* is not refused with a conflict.  Calls that commute with everything     *)
(* others do in between are one action: reconcileStatefulset, where an EDS *)
(* written meanwhile is the same as one written afterwards and a           *)
(* StatefulSet written meanwhile is a conflict (Fail), and the loop of     *)
(* UpdateIndexSettings.                                                    *)
(*                                                                         *)
(* Pod identity: a StatefulSet re-creates pods under their old name, with  *)
(* a new UID and IP.  An incarnation is not numbered; instead `gone' holds *)
(* the names whose snapshot in this pass refers to a former incarnation.   *)
(***************************************************************************)
EXTENDS Integers, FiniteSets

CONSTANTS
    MaxPods,        \* bound on the StatefulSet's size; pod names are ordinals
    Desired,        \* what spec.replicas may be set to; Nil when it is unset
    Nil,
    ScalingEnabled, \* spec.scaling.enabled
    MinReplicas,    \* spec.scaling.minReplicas
    SkipDraining,   \* spec.skipDraining
    InformerLag,    \* the pod informer may be behind the API server
    Indices,        \* indices that scaling operations are about
    Changes,        \* the index replicas a scaling operation may ask for
    Disturbances,   \* what else happens to the objects, see below
    MaxEdits        \* bound on the number of pod template changes

ASSUME MaxPodsAssumption == MaxPods \in Nat \ {0}
ASSUME NilAssumption == Nil \notin Int /\ Nil \notin Changes
ASSUME DesiredAssumption == Desired # {} /\ Desired \subseteq (Nat \cup {Nil})
ASSUME MinReplicasAssumption == MinReplicas \in Nat
ASSUME FlagsAssumption ==
    /\ ScalingEnabled \in BOOLEAN
    /\ SkipDraining \in BOOLEAN
    /\ InformerLag \in BOOLEAN
ASSUME ChangesAssumption ==
    \A c \in Changes : DOMAIN c \subseteq Indices /\ c \in [DOMAIN c -> Nat]
ASSUME DisturbancesAssumption ==
    Disturbances \subseteq {"evict", "cancel", "events", "autoscaler",
                            "deleteIndex", "unschedulable", "offSelector"}
ASSUME MaxEditsAssumption == MaxEdits \in Nat

Ord == 0 .. MaxPods - 1
Rev == 1 .. MaxEdits + 1
NoRev == 0                      \* status.updateRevision before it is first set

VARIABLES
    eds,        \* the EDS: spec.replicas, template, the index replicas of the
                \* scaling operation in the annotation, status.replicas, and
                \* whether status.observedGeneration is the generation
    sts,        \* the StatefulSet, with the status its controller reports
    pod,        \* the pods and what Elasticsearch has on them
    seen,       \* the informer's cache of the pods
    index,      \* number_of_replicas of each index, Nil when it is deleted
    rebalance,  \* cluster.routing.rebalance.enable
    event,      \* an event for the EDS is on its way to the handlers
    pc,         \* where the goroutine is
    ctxDone,    \* its context has been cancelled
    copy,       \* sts, as returned by reconcileStatefulset
    sr,         \* the StatefulResource of operatePods
    rs,         \* the StatefulResource of rescaleStatefulSet, and its target
    caller,     \* which branch of operatePods is being executed
    held,       \* ordinal of the pod being drained
    marked,     \* the held pod's snapshot carried the draining annotation
    snap,       \* phase of the listed pods at the time of listing
    gone,       \* snapshots whose incarnation has been removed since
    todo,       \* pods still to be drained by drainPodsForScaleDown
    drained,    \* history: pods this pass saw free of shards
    gaveUp,     \* history: a drain of this pass ran out of retries
    aborted     \* history: drainPodsForScaleDown left its loop early

local == <<copy, sr, rs, caller, held, marked, snap, gone, todo>>
history == <<drained, gaveUp, aborted>>
outside == <<index, rebalance, event>>
vars == <<eds, sts, pod, seen, outside, pc, ctxDone, local, history>>

-----------------------------------------------------------------------------
(* What the variables may hold.                                            *)

Operations == Changes \cup {Nil}         \* Nil: no annotation
Replicas == Nat \cup {Nil}
Phases == {"absent", "unscheduled", "pending", "ready", "terminating"}
NodeReasons == {"unschedulable", "offSelector"}

DataSets == [replicas : Desired, rev : Rev, op : Operations,
             status : Nat, observed : BOOLEAN]
StatefulSets == [exists : BOOLEAN, replicas : Nat, rev : Rev,
                 synced : BOOLEAN, ready : Nat, upd : Rev \cup {NoRev}]
Pods == [phase : Phases, rev : Rev, draining : BOOLEAN,
         node : SUBSET NodeReasons, excl : BOOLEAN, data : BOOLEAN]
Views == [phase : Phases, rev : Rev, draining : BOOLEAN,
          node : SUBSET NodeReasons, same : BOOLEAN]
Copies == [replicas : Nat, upd : Rev \cup {NoRev}, fresh : BOOLEAN]
Resources == [desired : Replicas, op : Operations, fresh : BOOLEAN]
Rescalings == [desired : Replicas, op : Operations, fresh : BOOLEAN,
               target : Nat]

NoPod == [phase |-> "absent", rev |-> 1, draining |-> FALSE,
          node |-> {}, excl |-> FALSE, data |-> FALSE]
NoView == [phase |-> "absent", rev |-> 1, draining |-> FALSE,
           node |-> {}, same |-> TRUE]
NoCopy == [replicas |-> 0, upd |-> NoRev, fresh |-> FALSE]
NoSr == [desired |-> Nil, op |-> Nil, fresh |-> FALSE]
NoRs == [desired |-> Nil, op |-> Nil, fresh |-> FALSE, target |-> 0]
NoSnap == [o \in Ord |-> "none"]

Locations == {"idle", "reconcile", "status", "pods", "pick", "surge",
    "stabilize", "mark", "drain", "exclude", "drainWait", "delete",
    "terminate", "rescale", "preScaleDown", "preUnannotate", "list",
    "drainNext", "resize", "resizeWait", "settle", "hook", "unannotate",
    "cleanup"}

TypeOK ==
    /\ eds \in DataSets /\ sts \in StatefulSets
    /\ pod \in [Ord -> Pods] /\ seen \in [Ord -> Views]
    /\ index \in [Indices -> Nat \cup {Nil}]
    /\ rebalance \in {"all", "none"} /\ event \in BOOLEAN
    /\ pc \in Locations /\ ctxDone \in BOOLEAN
    /\ copy \in Copies /\ sr \in Resources /\ rs \in Rescalings
    /\ caller \in {"none", "scaleUp", "noPod", "update"}
    /\ held \in Ord /\ marked \in BOOLEAN
    /\ snap \in [Ord -> {"none", "pending", "running"}]
    /\ gone \in SUBSET Ord /\ todo \in SUBSET Ord /\ drained \in SUBSET Ord
    /\ gaveUp \in BOOLEAN /\ aborted \in BOOLEAN

(* The EDS has just been created; the goroutine has just been started.     *)
Init ==
    /\ \E d \in Desired :
          eds = [replicas |-> d, rev |-> 1, op |-> Nil,
                 status |-> 0, observed |-> FALSE]
    /\ sts = [exists |-> FALSE, replicas |-> 0, rev |-> 1, synced |-> FALSE,
              ready |-> 0, upd |-> NoRev]
    /\ pod = [o \in Ord |-> NoPod] /\ seen = [o \in Ord |-> NoView]
    /\ index = [i \in Indices |-> 0]
    /\ rebalance = "all" /\ event = FALSE
    /\ pc = "idle" /\ ctxDone = FALSE
    /\ copy = NoCopy /\ sr = NoSr /\ rs = NoRs /\ caller = "none"
    /\ held = 0 /\ marked = FALSE
    /\ snap = NoSnap /\ gone = {} /\ todo = {}
    /\ drained = {} /\ gaveUp = FALSE /\ aborted = FALSE

-----------------------------------------------------------------------------
(* Reading the objects.                                                    *)

Larger(a, b) == IF a >= b THEN a ELSE b

(* edsReplicas: the number of replicas wanted, Nil for "don't touch".      *)
EdsReplicas(e) ==
    IF ~ScalingEnabled \/ e.replicas # Nil THEN e.replicas
    ELSE IF MinReplicas <= 0 THEN Nil
    ELSE Larger(MinReplicas, e.status)

(* The pod lister returns what the informer has seen.                      *)
View(o) == [phase |-> pod[o].phase, rev |-> pod[o].rev,
            draining |-> pod[o].draining, node |-> pod[o].node, same |-> TRUE]
Listed(o) == IF InformerLag THEN seen[o] ELSE View(o)
ListedPods == {o \in Ord : Listed(o).phase # "absent"}
ListedPhaseRaw(o) == Listed(o).phase                \* mutant: no conversion
ListedPhase(o) ==
    CASE Listed(o).phase = "absent" -> "none"
      [] Listed(o).phase \in {"unscheduled", "pending"} -> "pending"
      [] OTHER -> "running"

(* The score of prioritizePodsForUpdate.                                   *)
PriorityWithoutNodes(o) ==                          \* mutant: nodes ignored
      (IF Listed(o).draining THEN 16 ELSE 0)
    + (IF Listed(o).rev # copy.upd THEN 2 ELSE 0)
PriorityWithoutMark(o) ==                           \* mutant: marks ignored
      (IF "unschedulable" \in Listed(o).node THEN 8 ELSE 0)
    + (IF "offSelector" \in Listed(o).node THEN 4 ELSE 0)
    + (IF Listed(o).rev # copy.upd THEN 2 ELSE 0)
Priority(o) ==
      (IF Listed(o).draining THEN 16 ELSE 0)
    + (IF "unschedulable" \in Listed(o).node THEN 8 ELSE 0)
    + (IF "offSelector" \in Listed(o).node THEN 4 ELSE 0)
    + (IF Listed(o).rev # copy.upd THEN 2 ELSE 0)
    + (IF sr.desired # Nil /\ sr.desired # copy.replicas THEN 1 ELSE 0)

(* Pods without a node are skipped, priority 1 alone is no reason.         *)
PodsToUpdate ==
    {o \in ListedPods : Listed(o).phase # "unscheduled" /\ Priority(o) > 1}

(* First of the pods sorted by descending priority, ascending ordinal.     *)
IsPodToUpdate(o) ==
    /\ o \in PodsToUpdate
    /\ \A p \in PodsToUpdate :
          \/ Priority(p) < Priority(o)
          \/ Priority(p) = Priority(o) /\ o <= p

(* pods[replicas:] of the listed pods sorted by ordinal: a position in the *)
(* list, not an ordinal.                                                   *)
PodsAfter(listed, replicas) ==                      \* mutant: off by one
    {o \in listed : Cardinality({p \in listed : p < o}) > replicas}
PodsBeyond(listed, replicas) ==
    {o \in listed : Cardinality({p \in listed : p < o}) >= replicas}

(* The test of waitForStableStatefulSet, on the reported status.           *)
Stable == sts.replicas = sts.ready

(* Scale out only when no replica is to spare for the update.              *)
NeedsSurgeAlways == sr.desired # Nil    \* mutant: the surge is not recognised
NeedsSurge == sr.desired # Nil /\ sr.desired = copy.replicas

(* srScaleTarget: up to the desired number at once, down by one.           *)
ScaleTarget(d) == IF d > copy.replicas THEN d ELSE copy.replicas - 1

(* The held snapshot is of the pod that has the name now, with its IP.     *)
HeldIsCurrent == snap[held] = "running" /\ held \notin gone

-----------------------------------------------------------------------------
(* The start and the end of a pass.                                        *)

(* After this point of operatePods nothing but sr and caller is read: the  *)
(* other variables go back to their initial values.                        *)
Forget ==
    /\ copy' = NoCopy /\ rs' = NoRs
    /\ held' = 0 /\ marked' = FALSE
    /\ snap' = NoSnap /\ gone' = {} /\ todo' = {}
    /\ drained' = {} /\ gaveUp' = FALSE /\ aborted' = FALSE

(* A returned error only logs.                                             *)
EndPass ==
    /\ pc' = "idle"
    /\ sr' = NoSr /\ caller' = "none"
    /\ Forget

(* The interval has passed: operate refreshes the EDS.                     *)
Operate ==
    /\ pc = "idle" /\ ~ctxDone
    /\ sr' = [NoSr EXCEPT !.fresh = TRUE]
    /\ pc' = "reconcile"
    /\ UNCHANGED <<eds, sts, pod, seen, outside, ctxDone, copy, rs, caller,
                   held, marked, snap, gone, todo, history>>

(* The test of UpdateStatus.                                               *)
StatusDiffers == eds.status # copy.replicas \/ ~eds.observed

(* Calls the API server refuses: an Update with a stale copy, a write to a *)
(* pod that does not exist, anything under a cancelled context; and the    *)
(* refusal to create a StatefulSet without pods.                           *)
UsesContext ==
    \/ pc \in {"reconcile", "status", "pods", "surge", "stabilize", "delete",
               "rescale", "preUnannotate", "resize", "resizeWait", "settle",
               "unannotate"}
    \/ pc = "mark" /\ ~marked
    \/ pc = "drainNext" /\ todo # {}
Refused ==
    /\ \/ UsesContext /\ ctxDone
       \/ pc = "reconcile" /\ ~sts.exists /\ EdsReplicas(eds) = 0
       \/ pc = "status" /\ StatusDiffers /\ ~sr.fresh
       \/ pc \in {"surge", "resize"} /\ ~copy.fresh
       \/ pc \in {"mark", "delete"} /\ ~marked /\ pod[held].phase = "absent"
       \/ pc = "preUnannotate" /\ ~rs.fresh
       \/ pc = "unannotate" /\ ~sr.fresh
    /\ EndPass
    /\ UNCHANGED <<eds, sts, pod, seen, outside, ctxDone>>

(* Any other error of a call of the pass, or a wait that times out.        *)
Fail ==
    /\ pc # "idle"
    /\ EndPass
    /\ UNCHANGED <<eds, sts, pod, seen, outside, ctxDone>>

(* Every write of the EDS, also one of this goroutine, is an event for it, *)
(* and its handler cancels the operation.  (Events are only followed up in *)
(* instances that ask for it.)                                             *)
Notify == event' = (event \/ "events" \in Disturbances)

HandleEvent ==
    /\ event /\ ~ctxDone
    /\ event' = FALSE
    /\ ctxDone' = (pc # "idle")
    /\ UNCHANGED <<eds, sts, pod, seen, index, rebalance, pc, local, history>>

(* The same for any other event: of a field not modelled, or by a relist.  *)
Cancel ==
    /\ "cancel" \in Disturbances
    /\ pc # "idle" /\ ~ctxDone
    /\ ctxDone' = TRUE
    /\ UNCHANGED <<eds, sts, pod, seen, outside, pc, local, history>>

(* The cancelled goroutine has left its loop, its successor starts.        *)
Restart ==
    /\ pc = "idle" /\ ctxDone
    /\ ctxDone' = FALSE
    /\ UNCHANGED <<eds, sts, pod, seen, outside, pc, local, history>>

-----------------------------------------------------------------------------
(* operate: reconcileStatefulset and UpdateStatus.                         *)

(* No StatefulSet yet.  Unset replicas are defaulted to 1 by Kubernetes.   *)
CreateStatefulSet ==
    /\ pc = "reconcile" /\ ~ctxDone /\ ~sts.exists
    /\ LET d == EdsReplicas(eds) IN
       /\ d # Nil => d >= 1
       /\ sts' = [exists |-> TRUE, replicas |-> IF d = Nil THEN 1 ELSE d,
                  rev |-> eds.rev, synced |-> TRUE,
                  ready |-> 0, upd |-> NoRev]
       /\ copy' = [replicas |-> IF d = Nil THEN 1 ELSE d,
                   upd |-> NoRev, fresh |-> TRUE]
    /\ pc' = "status"
    /\ UNCHANGED <<eds, pod, seen, outside, ctxDone, sr, rs, caller, held,
                   marked, snap, gone, todo, history>>

(* The template is written when the EDS has a new generation; replicas are *)
(* not.                                                                    *)
Reconcile ==
    /\ pc = "reconcile" /\ ~ctxDone /\ sts.exists
    /\ sts' = IF sts.synced THEN sts
              ELSE [sts EXCEPT !.rev = eds.rev, !.synced = TRUE]
    /\ copy' = [replicas |-> sts.replicas, upd |-> sts.upd, fresh |-> TRUE]
    /\ pc' = "status"
    /\ UNCHANGED <<eds, pod, seen, outside, ctxDone, sr, rs, caller, held,
                   marked, snap, gone, todo, history>>

(* Replicas and generation are reported, when they differ from what was    *)
(* read.  (A copy read before a change of the spec may have shown none.)   *)
UpdateStatus ==
    /\ pc = "status" /\ ~ctxDone
    /\ \/ /\ eds.status = copy.replicas /\ (eds.observed \/ ~sr.fresh)
          /\ UNCHANGED <<eds, event>>
       \/ /\ StatusDiffers /\ sr.fresh
          /\ eds' = [eds EXCEPT !.status = copy.replicas, !.observed = TRUE]
          /\ Notify
    /\ pc' = "pods"
    /\ UNCHANGED <<sts, pod, seen, index, rebalance, ctxDone, local, history>>

-----------------------------------------------------------------------------
(* operatePods.                                                            *)

(* The EDS is read again; scaling up comes before everything else.         *)
OperatePods ==
    /\ pc = "pods" /\ ~ctxDone
    /\ LET d == EdsReplicas(eds)
           up == d # Nil /\ copy.replicas < d
       IN /\ sr' = [desired |-> d, op |-> eds.op, fresh |-> TRUE]
          /\ caller' = IF up THEN "scaleUp" ELSE "none"
          /\ pc' = IF up THEN "rescale" ELSE "pick"
    /\ UNCHANGED <<eds, sts, pod, seen, outside, ctxDone, copy, rs, held,
                   marked, snap, gone, todo, history>>

PickNone ==
    /\ pc = "pick" /\ PodsToUpdate = {}
    /\ caller' = "noPod"
    /\ copy' = [copy EXCEPT !.upd = NoRev]      \* read by Priority only
    /\ sr' = [sr EXCEPT !.desired = Nil]
    /\ pc' = "rescale"
    /\ UNCHANGED <<eds, sts, pod, seen, outside, ctxDone, rs, held,
                   marked, snap, gone, todo, history>>

Pick(o) ==
    /\ pc = "pick" /\ IsPodToUpdate(o)
    /\ caller' = "update"
    /\ held' = o
    /\ marked' = Listed(o).draining
    /\ snap' = [NoSnap EXCEPT ![o] = ListedPhase(o)]
    /\ gone' = IF Listed(o).same THEN {} ELSE {o}
    /\ pc' = IF NeedsSurge THEN "surge" ELSE "stabilize"
    /\ copy' = [copy EXCEPT !.upd = NoRev]      \* read by Priority only
    /\ sr' = [sr EXCEPT !.desired = Nil]
    /\ UNCHANGED <<eds, sts, pod, seen, outside, ctxDone, rs, todo, history>>

(* Scale out by one to perform the update.  (MaxPods bounds the model.)    *)
Surge ==
    /\ pc = "surge" /\ ~ctxDone /\ copy.fresh
    /\ copy.replicas < MaxPods
    /\ sts' = [sts EXCEPT !.replicas = copy.replicas + 1]
    /\ copy' = NoCopy                           \* not used again
    /\ pc' = "stabilize"
    /\ UNCHANGED <<eds, pod, seen, outside, ctxDone, sr, rs, caller, held,
                   marked, snap, gone, todo, history>>

(* waitForStableStatefulSet, before an update and before each drain of a   *)
(* scale-down.                                                             *)
Stabilize ==
    /\ pc = "stabilize" /\ ~ctxDone /\ Stable
    /\ pc' = IF caller = "update" THEN "mark" ELSE "drain"
    /\ UNCHANGED <<eds, sts, pod, seen, outside, ctxDone, local, history>>

(* annotatePod patches by name, and only if the snapshot was not marked.   *)
MarkDraining ==
    /\ pc = "mark"
    /\ \/ marked /\ pod' = pod
       \/ /\ ~marked /\ ~ctxDone /\ pod[held].phase # "absent"
          /\ pod' = [pod EXCEPT ![held].draining = TRUE]
    /\ marked' = FALSE
    /\ pc' = "drain"
    /\ UNCHANGED <<eds, sts, seen, outside, ctxDone, copy, sr, rs, caller,
                   held, snap, gone, todo, history>>

-----------------------------------------------------------------------------
(* Drain, shared by the update of a pod and by scaling down.  Calls to     *)
(* Elasticsearch do not look at the context.                               *)

AfterDrain == IF caller = "update" THEN "delete" ELSE "drainNext"

DrainSkipped ==
    /\ pc = "drain" /\ SkipDraining
    /\ pc' = AfterDrain
    /\ UNCHANGED <<eds, sts, pod, seen, outside, ctxDone, local, history>>

DisableRebalance ==
    /\ pc = "drain" /\ ~SkipDraining
    /\ rebalance' = "none"
    /\ pc' = "exclude"
    /\ UNCHANGED <<eds, sts, pod, seen, index, event, ctxDone, local, history>>

(* excludePodIP puts the snapshot's IP on the exclude list: the IP of the  *)
(* pod that has the name now only if the snapshot is current.              *)
ExcludeNothing ==                       \* mutant: the list is not written
    /\ pc = "exclude"
    /\ pc' = "drainWait"
    /\ UNCHANGED <<eds, sts, pod, seen, outside, ctxDone, local, history>>
Exclude ==
    /\ pc = "exclude"
    /\ pod' = IF HeldIsCurrent THEN [pod EXCEPT ![held].excl = TRUE] ELSE pod
    /\ pc' = "drainWait"
    /\ UNCHANGED <<eds, sts, seen, outside, ctxDone, local, history>>

(* waitForEmptyEsNode finds no shard with the snapshot's IP.  (A pod that  *)
(* was pending has none: the code then waits for the shards that are not   *)
(* assigned to any node.)                                                  *)
DrainUnchecked ==                       \* mutant: shards are not counted
    /\ pc = "drainWait"
    /\ pc' = AfterDrain
    /\ UNCHANGED <<eds, sts, pod, seen, outside, ctxDone, local, history>>
DrainDone ==
    /\ pc = "drainWait"
    /\ HeldIsCurrent => ~pod[held].data
    /\ drained' = IF HeldIsCurrent THEN drained \cup {held} ELSE drained
    /\ pc' = AfterDrain
    /\ UNCHANGED <<eds, sts, pod, seen, outside, ctxDone, local, gaveUp,
                   aborted>>

(* The last retry still found shards: resty returns the response, Drain    *)
(* returns nil.                                                            *)
DrainGivesUp ==
    /\ pc = "drainWait" /\ HeldIsCurrent /\ pod[held].data
    /\ gaveUp' = TRUE
    /\ pc' = AfterDrain
    /\ UNCHANGED <<eds, sts, pod, seen, outside, ctxDone, local, drained,
                   aborted>>

(* A cancelled context stops the retries; again Drain returns nil.         *)
DrainCancelled ==
    /\ pc = "drainWait" /\ ctxDone
    /\ pc' = AfterDrain
    /\ UNCHANGED <<eds, sts, pod, seen, outside, ctxDone, local, history>>

(* Delete is by name.                                                      *)
DeleteAnyway ==                         \* mutant: a context of its own
    /\ pc = "delete" /\ pod[held].phase # "absent"
    /\ pod' = [pod EXCEPT ![held].phase = "terminating"]
    /\ pc' = "terminate"
    /\ UNCHANGED <<eds, sts, seen, outside, ctxDone, local, history>>
DeletePod ==
    /\ pc = "delete" /\ ~ctxDone /\ pod[held].phase # "absent"
    /\ pod' = [pod EXCEPT ![held].phase = "terminating"]
    /\ pc' = "terminate"
    /\ UNCHANGED <<eds, sts, seen, outside, ctxDone, local, history>>

(* waitForPodTermination: another UID, or no pod, under the name.          *)
PodTerminated ==
    /\ pc = "terminate" /\ ~ctxDone /\ held \in gone
    /\ pc' = "hook"
    /\ Forget
    /\ UNCHANGED <<eds, sts, pod, seen, outside, ctxDone, sr, caller>>

(* The grace period is over, or none is set: a warning at most.            *)
TerminationTimeout ==
    /\ pc = "terminate"
    /\ pc' = "hook"
    /\ Forget
    /\ UNCHANGED <<eds, sts, pod, seen, outside, ctxDone, sr, caller>>

-----------------------------------------------------------------------------
(* rescaleStatefulSet.                                                     *)

AfterRescale == IF caller = "scaleUp" THEN "hook" ELSE "settle"

NothingToRescale ==
    /\ pc = "rescale" /\ ~ctxDone
    /\ EdsReplicas(eds) \in {Nil, copy.replicas}
    /\ pc' = AfterRescale
    /\ Forget
    /\ UNCHANGED <<eds, sts, pod, seen, outside, ctxDone, sr, caller>>

(* The EDS is read a third time; its replicas may have changed.            *)
RescaleAlways ==                        \* mutant: no check of replicaDiff = 0
    /\ pc = "rescale" /\ ~ctxDone
    /\ LET d == EdsReplicas(eds) IN
       /\ d # Nil
       /\ rs' = [desired |-> d, op |-> eds.op, fresh |-> TRUE,
                 target |-> ScaleTarget(d)]
       /\ pc' = IF d > copy.replicas THEN "list" ELSE "preScaleDown"
    /\ UNCHANGED <<eds, sts, pod, seen, outside, ctxDone, copy, sr, caller,
                   held, marked, snap, gone, todo, history>>
Rescale ==
    /\ pc = "rescale" /\ ~ctxDone
    /\ LET d == EdsReplicas(eds) IN
       /\ d \notin {Nil, copy.replicas}
       /\ rs' = [desired |-> d, op |-> eds.op, fresh |-> TRUE,
                 target |-> ScaleTarget(d)]
       /\ pc' = IF d > copy.replicas THEN "list" ELSE "preScaleDown"
    /\ UNCHANGED <<eds, sts, pod, seen, outside, ctxDone, copy, sr, caller,
                   held, marked, snap, gone, todo, history>>

(* UpdateIndexSettings, with the operation's indices in any order: an      *)
(* index that is gone (404) ends the loop, without an error.               *)
SetIndices(op, S) ==
    index' = [i \in Indices |-> IF i \in S THEN op[i] ELSE index[i]]
Exists(op) == {i \in DOMAIN op : index[i] # Nil}
UpdateIndexSettings(op) ==
    \E S \in SUBSET Exists(op) :
        /\ Exists(op) = DOMAIN op => S = DOMAIN op
        /\ SetIndices(op, S)

(* PreScaleDownHook: the index settings first, then the annotation.        *)
PreScaleDown ==
    /\ pc = "preScaleDown"
    /\ \/ rs.op = Nil /\ index' = index /\ pc' = "list"
       \/ rs.op # Nil /\ UpdateIndexSettings(rs.op) /\ pc' = "preUnannotate"
    /\ UNCHANGED <<eds, sts, pod, seen, rebalance, event, ctxDone, local,
                   history>>

PreUnannotate ==
    /\ pc = "preUnannotate" /\ ~ctxDone /\ rs.fresh
    /\ eds' = [eds EXCEPT !.op = Nil]
    /\ Notify
    /\ sr' = [sr EXCEPT !.fresh = FALSE]
    /\ rs' = [rs EXCEPT !.op = Nil, !.fresh = FALSE]
    /\ pc' = "list"
    /\ UNCHANGED <<sts, pod, seen, index, rebalance, ctxDone, copy, caller,
                   held, marked, snap, gone, todo, history>>

ListPods ==
    /\ pc = "list"
    /\ snap' = [o \in Ord |-> ListedPhase(o)]
    /\ gone' = {o \in ListedPods : ~Listed(o).same}
    /\ todo' = PodsBeyond(ListedPods, rs.target)
    /\ pc' = "drainNext"
    /\ UNCHANGED <<eds, sts, pod, seen, outside, ctxDone, copy, sr, rs,
                   caller, held, marked, history>>

DrainedAll ==
    /\ pc = "drainNext" /\ todo = {}
    /\ pc' = "resize"
    /\ UNCHANGED <<eds, sts, pod, seen, outside, ctxDone, local, history>>

(* The EDS now wants more replicas, or none in particular: "aborting".     *)
AbortScaleDown ==
    /\ pc = "drainNext" /\ ~ctxDone /\ todo # {}
    /\ LET d == EdsReplicas(eds) IN d = Nil \/ d > rs.desired
    /\ todo' = {}
    /\ aborted' = TRUE
    /\ pc' = "resize"
    /\ UNCHANGED <<eds, sts, pod, seen, outside, ctxDone, copy, sr, rs,
                   caller, held, marked, snap, gone, drained, gaveUp>>

(* Otherwise the next pod in ordinal order; a pending one is skipped.      *)
DrainNext(o) ==
    /\ pc = "drainNext" /\ ~ctxDone
    /\ o \in todo /\ \A p \in todo : o <= p
    /\ LET d == EdsReplicas(eds) IN d # Nil /\ d <= rs.desired
    /\ todo' = todo \ {o}
    /\ held' = o
    /\ pc' = IF snap[o] = "pending" THEN "drainNext" ELSE "stabilize"
    /\ UNCHANGED <<eds, sts, pod, seen, outside, ctxDone, copy, sr, rs,
                   caller, marked, snap, gone, history>>

(* updateStatefulSetReplicas runs however the drain loop ended.            *)
Resize ==
    /\ pc = "resize" /\ ~ctxDone /\ copy.fresh
    /\ sts' = [sts EXCEPT !.replicas = rs.target]
    /\ pc' = "resizeWait"
    /\ Forget
    /\ UNCHANGED <<eds, pod, seen, outside, ctxDone, sr, caller>>

AwaitResize ==
    /\ pc = "resizeWait" /\ ~ctxDone /\ Stable
    /\ pc' = AfterRescale
    /\ UNCHANGED <<eds, sts, pod, seen, outside, ctxDone, local, history>>

Settle ==
    /\ pc = "settle" /\ ~ctxDone /\ Stable
    /\ pc' = "hook"
    /\ UNCHANGED <<eds, sts, pod, seen, outside, ctxDone, local, history>>

-----------------------------------------------------------------------------
(* OnStableReplicasHook, with the StatefulResource of operatePods.         *)

ApplyScalingOperation ==
    /\ pc = "hook"
    /\ \/ sr.op = Nil /\ index' = index /\ pc' = "cleanup"
       \/ sr.op # Nil /\ UpdateIndexSettings(sr.op) /\ pc' = "unannotate"
    /\ UNCHANGED <<eds, sts, pod, seen, rebalance, event, ctxDone, local,
                   history>>

(* Any other answer than 404 ends the loop, the hook and the pass.         *)
IndexSettingsFail ==
    /\ \/ pc = "preScaleDown" /\ rs.op # Nil
          /\ \E S \in SUBSET Exists(rs.op) : SetIndices(rs.op, S)
       \/ pc = "hook" /\ sr.op # Nil
          /\ \E S \in SUBSET Exists(sr.op) : SetIndices(sr.op, S)
    /\ EndPass
    /\ UNCHANGED <<eds, sts, pod, seen, rebalance, event, ctxDone>>

UnannotateForced ==                     \* mutant: conflicts are overwritten
    /\ pc = "unannotate" /\ ~ctxDone
    /\ eds' = [eds EXCEPT !.op = Nil]
    /\ Notify
    /\ sr' = [sr EXCEPT !.op = Nil, !.fresh = FALSE]
    /\ pc' = "cleanup"
    /\ UNCHANGED <<sts, pod, seen, index, rebalance, ctxDone, copy, rs,
                   caller, held, marked, snap, gone, todo, history>>
Unannotate ==
    /\ pc = "unannotate" /\ ~ctxDone /\ sr.fresh
    /\ eds' = [eds EXCEPT !.op = Nil]
    /\ Notify
    /\ sr' = [sr EXCEPT !.op = Nil, !.fresh = FALSE]
    /\ pc' = "cleanup"
    /\ UNCHANGED <<sts, pod, seen, index, rebalance, ctxDone, copy, rs,
                   caller, held, marked, snap, gone, todo, history>>

(* Cleanup drops the addresses of former pods from the exclude list, never *)
(* the address of a running one, and turns rebalancing on.                 *)
Cleanup ==
    /\ pc = "cleanup"
    /\ rebalance' = "all"
    /\ EndPass
    /\ UNCHANGED <<eds, sts, pod, seen, index, event, ctxDone>>

-----------------------------------------------------------------------------
(* Everybody else: the StatefulSet controller, the kubelets, the informer, *)
(* Elasticsearch, the autoscaler and the user.  None of it is in this      *)
(* repository, except the autoscaler's write of the EDS.                   *)

LeavePass == UNCHANGED <<pc, ctxDone, caller, held, marked, snap, todo,
                         gaveUp, aborted>>

SetPhase(o, from, to) ==
    /\ pod[o].phase \in from
    /\ pod' = [pod EXCEPT ![o].phase = to]
    /\ UNCHANGED <<eds, sts, seen, outside, copy, sr, rs, gone, drained>>
    /\ LeavePass

CreatePod(o) ==
    /\ sts.exists /\ o < sts.replicas /\ pod[o].phase = "absent"
    /\ pod' = [pod EXCEPT ![o] = [NoPod EXCEPT !.phase = "unscheduled",
                                               !.rev = sts.rev]]
    /\ UNCHANGED <<eds, sts, seen, outside, copy, sr, rs, gone, drained>>
    /\ LeavePass

SchedulePod(o) == SetPhase(o, {"unscheduled"}, "pending")

StartPod(o) == SetPhase(o, {"pending"}, "ready")

ScaledDown(o) ==
    /\ o >= sts.replicas
    /\ SetPhase(o, {"unscheduled", "pending", "ready"}, "terminating")

EvictPod(o) ==
    /\ "evict" \in Disturbances
    /\ SetPhase(o, {"pending", "ready"}, "terminating")

(* The incarnation is gone: every snapshot of it refers to a former pod.   *)
PodGone(o) ==
    /\ pod[o].phase = "terminating"
    /\ pod' = [pod EXCEPT ![o] = NoPod]
    /\ seen' = [seen EXCEPT ![o].same = (seen[o].phase = "absent")]
    /\ gone' = IF snap[o] = "none" THEN gone ELSE gone \cup {o}
    /\ drained' = drained \ {o}
    /\ UNCHANGED <<eds, sts, outside, copy, sr, rs>>
    /\ LeavePass

(* The StatefulSet controller's status update changes the object's version. *)
ReadyPods == Cardinality({o \in Ord : pod[o].phase = "ready"})
ReportStatus ==
    /\ sts.exists
    /\ sts.ready # ReadyPods \/ sts.upd # sts.rev
    /\ sts' = [sts EXCEPT !.ready = ReadyPods, !.upd = sts.rev]
    /\ copy' = [copy EXCEPT !.fresh = FALSE]
    /\ UNCHANGED <<eds, pod, seen, outside, sr, rs, gone, drained>>
    /\ LeavePass

(* A node is cordoned, or loses the label the operator prefers.            *)
CordonNode(o, reason) ==
    /\ reason \in Disturbances
    /\ pod[o].phase \in {"pending", "ready"} /\ reason \notin pod[o].node
    /\ pod' = [pod EXCEPT ![o].node = @ \cup {reason}]
    /\ UNCHANGED <<eds, sts, seen, outside, copy, sr, rs, gone, drained>>
    /\ LeavePass

Observe(o) ==
    /\ InformerLag /\ seen[o] # View(o)
    /\ seen' = [seen EXCEPT ![o] = View(o)]
    /\ UNCHANGED <<eds, sts, pod, outside, copy, sr, rs, gone, drained>>
    /\ LeavePass

(* Elasticsearch may use every node that is not excluded, and moves shards *)
(* away from the excluded ones.  (Only draining looks at the data.)        *)
Usable(o) == pod[o].phase = "ready" /\ ~pod[o].excl

Allocate(o) ==
    /\ ~SkipDraining /\ Usable(o) /\ ~pod[o].data
    /\ pod' = [pod EXCEPT ![o].data = TRUE]
    /\ UNCHANGED <<eds, sts, seen, outside, copy, sr, rs, gone, drained>>
    /\ LeavePass

Relocate(o, p) ==
    /\ pod[o].phase = "ready" /\ pod[o].excl /\ pod[o].data /\ Usable(p)
    /\ pod' = [pod EXCEPT ![o].data = FALSE, ![p].data = TRUE]
    /\ UNCHANGED <<eds, sts, seen, outside, copy, sr, rs, gone, drained>>
    /\ LeavePass

(* A write of the EDS makes the copies of it stale; a change of its spec   *)
(* is a new generation.                                                    *)
WriteEDS(new) ==
    /\ new # eds
    /\ LET sameSpec == new.replicas = eds.replicas /\ new.rev = eds.rev IN
       /\ eds' = [new EXCEPT !.observed = @ /\ sameSpec]
       /\ sts' = [sts EXCEPT !.synced = @ /\ sameSpec]
    /\ Notify
    /\ sr' = [sr EXCEPT !.fresh = FALSE]
    /\ rs' = [rs EXCEPT !.fresh = FALSE]
    /\ UNCHANGED <<pod, seen, index, rebalance, copy, gone, drained>>
    /\ LeavePass

SetReplicas(d) == WriteEDS([eds EXCEPT !.replicas = d])

EditTemplate ==
    /\ eds.rev <= MaxEdits
    /\ WriteEDS([eds EXCEPT !.rev = @ + 1])

(* scaleEDS and updateScalingOperation: no new operation while one is      *)
(* pending; replicas and annotation are written together.  An operation    *)
(* without a change of the nodes is one of the indices.                    *)
RequestScaling(d, change) ==
    /\ "autoscaler" \in Disturbances /\ ScalingEnabled
    /\ eds.op = Nil /\ d # Nil
    /\ d # EdsReplicas(eds) \/ DOMAIN change # {}
    /\ WriteEDS([eds EXCEPT !.replicas = d, !.op = change])

(* A user deletes an index.                                                *)
DeleteIndex(i) ==
    /\ "deleteIndex" \in Disturbances /\ index[i] # Nil
    /\ index' = [index EXCEPT ![i] = Nil]
    /\ UNCHANGED <<eds, sts, pod, seen, rebalance, event, copy, sr, rs, gone,
                   drained>>
    /\ LeavePass

-----------------------------------------------------------------------------
(* Steps of the goroutine that the code takes by itself.                   *)
Step ==
    \/ Operate \/ HandleEvent \/ Restart \/ Refused
    \/ CreateStatefulSet \/ Reconcile \/ UpdateStatus
    \/ OperatePods \/ PickNone \/ \E o \in Ord : Pick(o)
    \/ Surge \/ Stabilize \/ MarkDraining
    \/ DrainSkipped \/ DisableRebalance \/ Exclude \/ DrainDone
    \/ DrainCancelled \/ DeletePod \/ PodTerminated \/ TerminationTimeout
    \/ NothingToRescale \/ Rescale \/ PreScaleDown \/ PreUnannotate \/ ListPods
    \/ DrainedAll \/ AbortScaleDown \/ \E o \in Ord : DrainNext(o)
    \/ Resize \/ AwaitResize \/ Settle
    \/ ApplyScalingOperation \/ Unannotate \/ Cleanup

(* Errors, time limits and cancellation.                                   *)
Fault == Fail \/ IndexSettingsFail \/ Cancel \/ DrainGivesUp

(* What Kubernetes and Elasticsearch do to reach the declared state.       *)
Platform ==
    \/ ReportStatus
    \/ \E o \in Ord :
          \/ CreatePod(o) \/ SchedulePod(o) \/ StartPod(o) \/ ScaledDown(o)
          \/ PodGone(o) \/ Observe(o) \/ Allocate(o)
          \/ \E p \in Ord : Relocate(o, p)

(* What else happens to the objects.                                       *)
Disturbance ==
    \/ \E o \in Ord : EvictPod(o) \/ \E r \in NodeReasons : CordonNode(o, r)
    \/ \E d \in Desired : SetReplicas(d)
    \/ EditTemplate
    \/ \E d \in Desired, c \in Changes : RequestScaling(d, c)
    \/ \E i \in Indices : DeleteIndex(i)

Next == Step \/ Fault \/ Platform \/ Disturbance

Spec == Init /\ [][Next]_vars

(* The exclude list names every node that could take the shards of the pod *)
(* being drained: an interrupted pass excluded a pod that is still running. *)
NowhereToDrain ==
    /\ pc = "drainWait" /\ HeldIsCurrent /\ pod[held].data
    /\ \A o \in Ord : ~Usable(o)
RetriesUsedUp == NowhereToDrain /\ DrainGivesUp

(* For liveness: the goroutine keeps running, Kubernetes and Elasticsearch *)
(* keep working towards what is declared, a drain that cannot succeed uses *)
(* up its retries, and faults and changes end some time.  No fairness for  *)
(* Allocate: nothing obliges Elasticsearch to use a node.                  *)
Fairness ==
    /\ WF_vars(Step) /\ WF_vars(RetriesUsedUp) /\ WF_vars(ReportStatus)
    /\ \A o \in Ord :
          /\ WF_vars(\/ CreatePod(o) \/ SchedulePod(o) \/ StartPod(o)
                     \/ ScaledDown(o) \/ PodGone(o) \/ Observe(o))
          /\ WF_vars(\E p \in Ord : Relocate(o, p))
CalmSpec == Spec /\ Fairness /\ <>[][Platform \/ RetriesUsedUp \/ Step]_vars

(* The informer may be behind, but in the end not when the pods are listed. *)
ListsPods == PickNone \/ (\E o \in Ord : Pick(o)) \/ ListPods
CaughtUp == \A o \in Ord : Listed(o) = View(o)
LaggingSpec == CalmSpec /\ <>[][ListsPods => CaughtUp]_vars

-----------------------------------------------------------------------------
(* Properties.                                                             *)

(* A pod that this pass found free of shards stays excluded and empty      *)
(* until its incarnation is gone: nothing the operator, Elasticsearch or   *)
(* anybody else does between waitForEmptyEsNode and the removal brings     *)
(* shards back.                                                            *)
DrainedPodsStayEmpty ==
    \A o \in drained : pod[o].excl /\ ~pod[o].data

(* operatePods deletes a pod that holds shards only in the windows the     *)
(* code leaves open: draining is switched off, the drain ran out of        *)
(* retries, or the pod it picked was still pending or has been replaced    *)
(* under its name meanwhile.  A drain that ends because the context is     *)
(* cancelled is not one of them.                                           *)
Deletes == pc = "delete" /\ pc' = "terminate"
DeletedPodIsEmpty ==
    [][Deletes /\ ~SkipDraining /\ ~gaveUp /\ HeldIsCurrent
         => ~pod[held].data]_vars

(* When the lister returned every pod of the StatefulSet, all of them      *)
(* running, and none was replaced since, a scale-down that was not aborted *)
(* and did not give up removes pods without shards only: the positional    *)
(* slice of drainPodsForScaleDown then is the pods Kubernetes removes.     *)
CompleteList == \A o \in Ord : o < copy.replicas => snap[o] = "running"
ShrinkRemovesEmptyPods ==
    pc = "resize" /\ ~ctxDone /\ rs.target < copy.replicas
      /\ ~SkipDraining /\ ~gaveUp /\ ~aborted /\ CompleteList /\ gone = {}
        => \A o \in Ord : o >= rs.target /\ o < copy.replicas => ~pod[o].data

(* The StatefulSet never has fewer replicas than what was asked for at     *)
(* some time, spec.scaling.minReplicas counting where spec.replicas is     *)
(* unset; and, if it is always set, never more than one above: whatever    *)
(* fails, is cancelled or changed between the surge, the update and the    *)
(* scale-down.  (Unset replicas follow status.replicas, and that follows   *)
(* the surge.)                                                             *)
Wanted ==
    {IF d # Nil THEN d
     ELSE IF ScalingEnabled /\ MinReplicas > 0 THEN MinReplicas ELSE 1 :
        d \in Desired}
ReplicasInRange ==
    sts.exists =>
        /\ \E d \in Wanted : d <= sts.replicas
        /\ Nil \notin Desired => \E d \in Desired : sts.replicas <= d + 1

(* A pending scaling operation disappears from the EDS only after each of  *)
(* its indices got its number of replicas, or one of them was deleted:     *)
(* neither hook removes an annotation that somebody else wrote after the   *)
(* hook's copy was read, or one that it applied in part.                   *)
OperationApplied ==
    [][eds.op # Nil /\ eds'.op # eds.op
         => \/ \A i \in DOMAIN eds.op : index[i] = eds.op[i]
            \/ \E i \in DOMAIN eds.op : index[i] = Nil]_vars

(* Once nothing fails and nobody changes the EDS, every pod is brought to  *)
(* the EDS's template on a suitable node, the surge is undone and          *)
(* rebalancing is on again, whatever pods, annotations, exclusions and     *)
(* settings the faults and cancelled passes before left behind.            *)
Converged ==
    /\ sts.exists /\ EdsReplicas(eds) \in {Nil, sts.replicas}
    /\ \A o \in Ord :
          IF o < sts.replicas
          THEN pod[o].phase = "ready" /\ pod[o].rev = eds.rev
                  /\ ~pod[o].draining /\ pod[o].node = {}
          ELSE pod[o].phase = "absent"
    /\ rebalance = "all"
UpdateCompletes == <>[]Converged

-----------------------------------------------------------------------------
(* What comments and log messages say that the code does not do.           *)

(* operator.go:519 logs "aborting scale-down" when the EDS wants more      *)
(* replicas again: after that the StatefulSet is not made smaller.         *)
AbortedScaleDownKeepsPods ==
    [][aborted => sts'.replicas >= sts.replicas]_vars
=============================================================================
