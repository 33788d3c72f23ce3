# A TLA+ model of es-operator

es-operator runs Elasticsearch data nodes on Kubernetes. A user describes a
group of nodes as an `ElasticsearchDataSet` (EDS); the operator keeps a
StatefulSet for it, replaces its pods one by one when the template or the nodes
change, drains shards before a pod goes away, and scales nodes and index
replicas with the load. The data is in the pods: a pod removed at the wrong time
is data lost, and this is what most of the properties are about.

This directory has the specifications, the TLC configurations, the proofs and
`PROJECT.json`, which lists runs, mutants, the lines each definition models,
findings and hazards. Run `tlc -config MCOperator_faults.cfg MCOperator` to check
a run, `tlapm OperatorProofs.tla` to check the proofs about a module.

## Inventory

| Part | State | Operations | Talks to |
|---|---|---|---|
| Operating loop, `operator/operator.go` | one goroutine per EDS; local copies of EDS, StatefulSet and pods | `Run`, `operate`, `reconcileStatefulset`, `operatePods`, `rescaleStatefulSet`, the waits | API server, pod and node informers, `EDSResource` |
| `EDSResource`, `operator/elasticsearch.go` | a copy of the EDS | `Get`, `UpdateStatus`, `Drain`, `PreScaleDownHook`, `OnStableReplicasHook`, `EnsureResources` | API server, `ESClient` |
| Operating table, `operator/elasticsearch.go` | `operating[UID]` with cancel function and channel, under a lock | `add`, `update`, `del`, `operateEDS`, `hasOwnership` | EDS informer, operating loops |
| Autoscaler, `operator/autoscaler.go`, `elasticsearch.go` | annotation `current-scaling-operation`, times of the last scaling, in the EDS | `runAutoscaler`, `scaleEDS`, `updateScalingOperation`, `scaleUpOrDown` | API server, `ESClient`, metrics |
| Elasticsearch client, `operator/es_client.go` | exclude list and rebalancing in the cluster settings, persistent and transient; index settings | `Drain`, `excludePodIP`, `waitForEmptyEsNode`, `Cleanup`, `UpdateIndexSettings` | Elasticsearch, shared with the clients of other EDS |
| Metrics collector, `operator/metrics_collector.go` | a window of CPU medians per EDS, in an `ElasticsearchMetricSet` | `collectMetrics`, `storeMedian`; read by `scalingHint` | metrics API, API server |
| `PodDisruptionBudget` and `Service` | two objects per EDS | `ensurePodDisruptionBudget`, `ensureService` | API server |
| Command line, clientset, recorder, `null`, generated clients, CRD tool, e2e tests | none of interest | | |

What makes the system hard to get right:

* The operating loop reads an object, waits for up to minutes, and acts on what
  it read. Users, the autoscaler, the StatefulSet controller, evictions and the
  handlers of its own writes work on the same objects meanwhile.
* A pass can end anywhere: with an error, a time limit, a cancelled context, a
  restart. What it left (a surge replica, an excluded address, a draining mark,
  rebalancing switched off) has to be found and undone by later passes.
* A StatefulSet's pods have the same names for ever, with new UIDs and addresses.
* A handler waits for a goroutine while it holds the lock.
* The watch may be interrupted, the pod cache may lag.
* Scaling is a protocol of two parties over an annotation: the autoscaler writes
  it, a hook of the operator applies and removes it, either may fail half way.
* Elasticsearch's cluster settings have no version: clients of several EDS, and
  users, read and write them as a whole, and the mutex is per client.
* Objects have the name of their EDS and a reference to its UID: an EDS that is
  deleted and created again meets the objects, samples and loops of its predecessor.
* Samples are required by number and dropped by age, from a timer that may be late.

Correct means, for the operating loop: no pod with shards is removed (except
where draining is off, or in the windows listed under findings), the number of
replicas stays near what was asked for, scaling operations are not lost, and
every update completes. For the table: exactly one loop for every owned EDS, and
no event stays unhandled; and for the objects of an EDS: pods are only worked on
under a budget and a service of the same EDS. For the autoscaler: the configured
limits and cool-down times hold, it comes to rest, and its hints rest on samples
that justify them. For the client: exclusions are not lost, pods are deleted
empty, drains complete.

## Modules

| Module | Models | Used by |
|---|---|---|
| `Operator` | the operating loop with `EDSResource`, draining, the Kubernetes objects, other writers | `MCOperator`, `OperatorProofs` |
| `Lease` | abstract: what the table promises about loops, without events or handlers | `OperatingTable` (refinement) |
| `OperatingTable` | informer events, handlers, table, start and stop of loops | `MCOperatingTable`, `Resources` |
| `Resources` | `operate` up to `operatePods`: budget, service, StatefulSet and status of an EDS; composed with `OperatingTable` | `MCResources` |
| `ESClient` | several clients of one Elasticsearch cluster and its settings | `MCESClient` |
| `Autoscaler` | hint, computation and writing of scaling operations, their application | `MCAutoscaler` |
| `Metrics` | collector, window of samples, what `scalingHint` reads of it | `MCMetrics` |
| `OperatorProofs`, `OperatingTableProofs`, `ResourcesProofs`, `ESClientProofs`, `AutoscalerProofs`, `MetricsProofs` | theorems about the module of that name | |
| `SetLemmas` | largest and smallest members of finite sets, for the proofs | `AutoscalerProofs`, `MetricsProofs` |

The modules meet in these places. `Resources` extends `OperatingTable` and splits
its pass into calls; what comes after them, `operatePods`, is `Operator`, for one
EDS and one client. `ESClient` repeats the drain of `Operator` for several clients,
with the requests for settings apart. `Autoscaler` has the operating loop as four
coarse actions, and `RequestScaling` of `Operator` is its write. `Metrics` computes
the three levels that `Autoscaler` takes as `cpu`.

### Operator

An action is one call that others can interleave with: an API request, a read of
the pod cache, one poll of a wait. Calls that commute with whatever happens in
between are one action. These are the requests of `reconcileStatefulset` (the EDS and
StatefulSet it reads are those it writes, or the write is refused, which is `Fail`)
and the loop of `UpdateIndexSettings`. `pc` says which call comes next:

    idle -> reconcile -> status -> pods -+-> rescale (scale up) ... -> hook
                                         +-> pick -+-> rescale ... settle -> hook
                                                   +-> surge -> stabilize -> mark
                                                       -> drain -> exclude -> drainWait
                                                       -> delete -> terminate -> hook
    rescale -> preScaleDown -> preUnannotate -> list -> drainNext -+-> stabilize -> drain ...
                                                                   +-> resize -> resizeWait
    hook -> unannotate -> cleanup -> idle

`eds`, `sts` and `pod` are the objects on the API server (with `excl` and `data`,
what Elasticsearch has on a pod: on the exclude list, holding shards), `seen` the
pod cache, `copy`, `sr`, `rs`, `held`, `snap`, `todo` the local variables of the
Go functions. The API server's optimistic locking appears as `fresh`: a copy is
fresh until somebody writes the object, and an `Update` with a copy that is not
fresh is refused. `Refused` collects everything the API server refuses, `Fail`
any other error or time limit, at every step; a crash of the process is a `Fail`
too, since a restarted loop begins with the same empty local variables.

Pods have no UIDs: `gone` holds the pods whose snapshot is of an incarnation that
no longer exists. A pod that was listed while pending has no IP: its drain finds no
shard at once (`DrainDone`). `drained`, `gaveUp` and `aborted` are history variables.

The operation in the annotation (`eds.op`) is a number of replicas for each of some
indices. `UpdateIndexSettings` sets any part of them when it meets a deleted index,
which is no error, or another failure, which is (`IndexSettingsFail`). With "events"
every write of the EDS, also the pass's own, sets `event`, and `HandleEvent` cancels the
pass; `eds.observed` says that `status.observedGeneration` is the generation of the
EDS, which decides with `status.replicas` whether `UpdateStatus` writes.

Kubernetes and Elasticsearch are modelled from how the code uses them: pods are
created, scheduled, started, terminated and removed, the status of a StatefulSet
is reported some time later, shards move away from excluded nodes to others that
are ready, and may appear on any node that is not excluded. The cluster is green
whenever `Drain` asks; if not, the call fails, which is `Fail`. With `skipDraining`
nobody looks at the data, and shards are not followed.

Left out here: services, budgets and owner checks (`Resources`); several clients of
one Elasticsearch cluster (`ESClient`); labels; a reused IP address.

### OperatingTable

`api` has the EDS objects, `known` the informer's store, `queue` the events on
their way to the handlers, which the informer calls one after the other;
`waiting` is the event whose handler blocks on `<-entry.doneCh`. `run[u]` is the
goroutine of a UID: idle between passes, busy in one, blocked in its send, or
ended. Both ends of the unbuffered channel meet in `Join`. In
`Resources` the watch also breaks and the informer lists again (`Disconnect`, `Relist`,
`IgnoreTombstone`): it compares by name, so a new UID under an old name is an update,
and what is gone is a tombstone.
With "handover" the operator annotation changes, with "crash" the process is
restarted. A pass is one interval here; what it does is module `Operator`.

`Lease` is what this is for: per name there is at most one holder; a lease is given
to the newest object or to the one that had it last, never to a former one; a
holder works in passes and gives up its lease between them, except in a crash.
`LeaseImplemented` maps the goroutines that have not left their loop to the holders
and the newest UID in the table to the last lease of a name. It says more than
`AtMostOneLoop`: an event that is still on its way does not bring back the loop of
a former EDS. It is checked without an interrupted watch (see the observations).

### Resources

`at[u]` is the next call in the pass of a loop, `eds` and `again` the UIDs its two
reads of the EDS returned, `owner` the UID in the owner reference of the objects of
a name, 0 where there is no object. Look-up and `Create` are two steps, between
which the garbage collector or another loop may act; `Create` of an object that
exists is refused. An object that is found owned is left as it is: the code sets
labels, selector and ports of its copy and does not write it. `UpdateStatus` writes
the EDS and so is an event for the table. All steps of `OperatingTable` happen in
between.

### ESClient

`persistent` and `transient` are the two documents, as exclude list and rebalancing
only; lists are sets, and the one place where their order matters, the comparison
in `Cleanup`, is a choice (`Unsorted`). A client's `doc` is what it read, with
transient settings merged into it, and what it will write: every write sets both
and resets the transient ones. `fresh` (history) says whether anybody wrote since.
A node that was deleted does not come back; its successor has another address.
Users write transient settings at any time.

### Metrics

Time passes in ticks; a sample's age is counted from the newest one, and `idle` is
the age of the newest, so that ages stay bounded. `Collect` is a check of the loop,
which reads EDS and metric set, `StoreMedian` its write, in between which the EDS
may be deleted, re-created, or its metric set be collected. What is measured is any
assignment of usages to containers of a non-empty set of pods, reduced to the
median and, as history, to whether most pods were above or half of them below the
boundaries. `Late` lets time pass while a check is due or under way.

### Autoscaler

The same EDS on a coarser scale: `size` is the StatefulSet's number of replicas,
`copies` the `number_of_replicas` of the indices, `op` the annotation. The
arithmetic is that of the code with integer division: ratios are compared by
multiplication, the correction terms of 0.00001 become exact floors and ceilings,
which is the same for fewer than a hundred thousand nodes. The one quotient
without a correction term, in `calculateNodesWithSameShardToNodeRatio`, may come
out one higher where it is a whole number. `scaleUpOrDown` ranges over a Go map,
in any order; the result depends on the order only in the direction given to
index replicas that are out of bounds, hence a set of operations. The samples
are low, medium or high for as long as the thresholds require; disk usage is a
flag. `sinceUp` and `sinceDown` are the times in the status, `upAgo` and `downAgo`
(history) those of the changes of `spec.replicas` by the autoscaler. An EDS without
annotations has a nil map: the status is written, then the process panics
(`Panic`). The operating loop appears as `Grow`, `Shrink` and the hooks, with the rule
of `srScaleTarget` that the hook comes before a scale-down.

Users may set `spec.replicas` to 0: nothing in the types, the CRD or the validation
keeps them from it. While pods are left the shards per node are infinite, in Go and
here, and the autoscaler adds nodes at once; once the last pod is gone it finds no
index with shards on its pods and does nothing (`ManagedIndices`).
`minShardsPerNode` and `maxShardsPerNode` may be left out, which the validation takes
for 0. The operator then sends 0 with every `Update` of the EDS, the CRD refuses less
than 1, and only the status is written (`Accepted`).

## Runs

Bounds of `Operator`: two pods are enough for an update with a surge, for a pod
before and one after the affected one, and for a scale-down that leaves one; one
template change gives old and new pods. `MaxPods` bounds the StatefulSet and so
stops a surge from two pods in `scaling` and `autoscaling`, whose subject is the
change of `spec.replicas`. In the runs with one desired replica it is not in the way,
and `faults` has room for a second surge on top of the first (three pods).
`MaxEdits = 0` stands for an EDS whose template stays the same: pods are then
replaced because they look outdated (no `updateRevision` is reported yet), because
they are evicted, or because of their node. Scaling operations set the replicas of
two indices or of one of them. Each run adds the disturbances that
its question is about, since all of them together are out of TLC's reach; the
proofs allow any mix. `lag` and `autoscaling` have `skipDraining`: their question is
not about shards.

`OperatingTable`: two EDS, each created twice, give every order of events of two
objects with a re-creation. `MaxQueue` delays writes of EDS objects while two or
three events are undelivered. `Resources` has one name: objects of different names
do not meet, and the table's lock is the subject of `table`; it is also the run with
an interrupted watch. `Autoscaler`: two indices of different size, and
limits chosen so that users' values lie below, inside and above them, 0 included. `ESClient`:
two clients, one node each at the start and a third node that joins; users set an
exclude list or switch rebalancing off. `Metrics`: three pods give odd and even
numbers of them, and three ticks of threshold with an interval of two a window that
holds one sample more or less than required; the usage of a pod
is below the boundaries (0, when no container reports any), at them (both are 50) or
above; the EDS is created twice and the process restarted once.

Deadlock is checked in the runs of `Operator`, `ESClient` and `Metrics`, whose loops
never stop. In the others the system may rest: no EDS is left to create, or nothing
is to be scaled.

| Run | Disturbed by | Shows |
|---|---|---|
| `faults` | evictions, a template change | `TypeOK`, `DrainedPodsStayEmpty`, `DeletedPodIsEmpty`, `ReplicasInRange` (both bounds) |
| `scaling` | users setting and unsetting `spec.replicas` at any time, cancellation, also by the pass's own writes | `ShrinkRemovesEmptyPods`, `DeletedPodIsEmpty` (also when the drain ends because of the cancellation), `ReplicasInRange` (the lower bound) |
| `autoscaling` | users and the autoscaler writing the EDS at any time, deleted indices, failing writes of index settings | `OperationApplied` |
| `lag` | a pod cache that is behind | `UpdateCompletes` |
| `progress` | nodes that become unschedulable, failing passes | `UpdateCompletes` with draining |
| `table` | handover, restarts of the operator | `TypeOK`, `AtMostOneLoop`, `LoopsMatchEDS`, `LeaseImplemented` |
| `resources` | an interrupted watch, restarts, re-created EDS, failing calls | `ResourcesTypeOK`, `PodsAreProtected`, `OwnedAreOperated`, `EventsAreHandled`, `ResourcesComplete` |
| `clients` | users' transient settings, failing calls, each other | `TypeOK`, `ExclusionsKept`, `DeletedNodeIsEmpty`, `DrainsComplete` |
| `limits` | users, deleted indices, failing calls, a missing annotation map | `TypeOK`, `ReplicasInBounds`, `IndexReplicasInBounds`, `DownKeepsShardsPerNode`, `CooldownRespected`, `Settles`, `OverloadEnds` |
| `metrics` | late checks, failing calls, restarts, re-created EDS | `TypeOK`, `HintsAreJustified`, `SamplesTakeTime`, `LoadIsNoticed` |
| `v_abort`, `v_handover` | | what a comment or a log message says and the code does not do, see below |

A cancelled context ends a pass like an error does, so `progress` needs no
cancellation besides the errors. That the operator does not cancel itself for ever is
an argument from `UpdateStatus`, which writes only what differs; no run checks it. A
node of the other kind that `Priority` knows, one without the preferred label, is left
to the proofs: it differs in the score only.

Errors of API calls, time limits and drains that give up are part of every run of
`Operator`.

### Fairness

`CalmSpec` of `Operator`: the goroutine keeps running (the Go scheduler, and the
timer of `Run`), Kubernetes and Elasticsearch keep working towards what is
declared, and there is a last fault and a last change. The retries of a drain are
bounded, so a drain with no node to move shards to gives up; otherwise relocation
is assumed to finish within the retries. Nothing is assumed about where
Elasticsearch puts new shards. `LaggingSpec` adds that in the end the pod cache has
caught up whenever pods are listed: it may lag at any other time, and informers
deliver changes much faster than the minutes between passes. Without it no update
need complete, as the same stale pod can be picked for ever.

`Resources`: handlers and goroutines run, a loop goes on with its passes (a cancelled
one may also end at a request that fails), the informer lists again, garbage is
collected, and EDS objects stop changing and requests failing. Writes of the status
are not required: they end when the EDS no longer changes. `ESClient`: every client
goes on, shards leave excluded nodes, a drain without any usable node uses up its
retries, users and failures are quiet in the end; `DrainsComplete` does not count on
clients taking turns. `Autoscaler`: the autoscaler runs again and again (it is only
assumed to act when the disks allow it), the operating loop and the timer go on,
users, failures and changes of load end. `Metrics`: the collector and the garbage
collector go on and time passes; in the end the collector is on time.

### Findings

Every `v_` run ends with a counterexample to a sentence of the repository:

| Run | What the code does |
|---|---|
| `v_abort` | an "aborted" scale-down only skips the draining; the StatefulSet is made smaller all the same |
| `v_handover` | table entries are never removed; the event after a handover blocks all handlers |

Observations made while modelling, without a run of their own (each is a behaviour
of the modules):

* `es_client.go:358`: a drain that runs out of retries returns no error although shards
  are left, and the pod is deleted (`operator.go:91`: "the method only returns after
  the pod has been drained").
* `operator.go:392`: a pod picked while pending is drained by an empty IP and deleted
  with the shards it has got since; and a pod re-created under its name after the
  picked one was drained is deleted, undrained (the TODO at `operator.go:368`).
* `operator.go:509`: pods are drained by their position in the list and removed by
  ordinal; with one missing from the list another is removed undrained.
* `es_client.go:540`: the first index that was deleted ends the update of the others,
  without an error, and the operation is removed (`elasticsearch.go:584`: the hook
  "ensures that the IndexReplicas is set as defined").
* `elasticsearch.go:848`: without `spec.replicas` the surge is reported in the
  status, taken for the desired number, and stays; the next update adds one more.
* `operator.go:410`: the hook for stable replicas runs right after a deletion.
* `operator.go:191`: only the creation of a StatefulSet is guarded against zero
  replicas.
* `elasticsearch.go:702`: a deletion and re-creation missed by the watch leaves the
  old loop next to the new one. Both find the EDS by name; should the new one belong
  to another operator, the old loop works on it all the same.
* `operator.go:159`: an EDS re-created between the two reads of a pass gets a
  StatefulSet before it has a budget and a service; the next pass makes them.
* `es_client.go:397`: a transient exclude list that a user writes during a drain hides
  the persistent one, and `excludePodIP`, which looks at the merged list, writes
  nothing: the drain ends with its retries.
* `es_client.go:283`: clients of one cluster can take each other's addresses off the
  exclude list. `waitForEmptyEsNode` puts its own back while shards are left, but a
  pod found empty may get shards again before it is deleted.
* `elasticsearch.go:1015`: an EDS without annotations makes the process panic with
  its first scaling operation, again after every restart and cool-down.
* `elasticsearch.go:242`: every process begins with a check, so restarts make samples
  come faster than the interval, and the thresholds shorter.
* `autoscaler.go:92`: a threshold of zero requires no sample: the hint is DOWN as soon
  as there is a metric set.
* `autoscaler.go:88`: the age of the samples is not looked at; after an outage of the
  collector the last load it saw is still in force.
* `metrics_collector.go:106`: a collector that is always late keeps fewer samples than
  required, and there is no hint at all.
* `es_client.go:516`: an operation that needs a green cluster stays pending if users
  asked for more copies of an index than there are nodes.
* `elasticsearch.go:991`: adding index replicas alone starts no cool-down
  (`README.md:87`: "Minimum duration in seconds between two scale up operations").
* `types.go:190`: with `minShardsPerNode` or `maxShardsPerNode` left out the autoscaler
  records scale-ups and scale-downs in the status and never scales.
* `autoscaler.go:206`: an EDS scaled to 0 by a user stays there, `minReplicas` or not.
* `autoscaler.go:351`: index replicas are added although the nodes are capped at
  `maxReplicas`, so `maxShardsPerNode` can be exceeded by a scale-up.
* `es_client.go:207`: `Cleanup` never takes a running pod off the exclude list, so a
  failed scale-down may leave a pod excluded, and a later drain then has nowhere to
  move shards to and gives up.

The windows in `DeletedPodIsEmpty` and `ShrinkRemovesEmptyPods` are that of `v_abort`
and the first three of these observations: outside of them nothing goes wrong. The
exception of `OperationApplied`, a deleted index, is the fourth.
`AtMostOneLoop` and `LeaseImplemented` are checked without an interrupted watch, which
the missed re-creation needs.

## Proofs

Every type invariant, every other invariant, every action property and the
refinement that the runs check is also a theorem, for every value of the constants
that meets their assumptions: any number of pods, data sets, clients, indices,
any settings, any mix of disturbances. The theorems are about `Spec`, without
fairness. Almost none of the properties is inductive; the invariants that are:

`OperatorProofs`

* `TypeCorrect`: one step per action.
* `DrainedStayEmpty`, `DeleteIsSafe`: `DrainInv`. A pod stays empty because it
  stays excluded; it is the pod that was excluded because the snapshot is current
  (`SnapshotInv`: nothing is left of an absent pod, and a current snapshot or
  cache entry is of a pod that exists). `DrainInv` adds that the wait is for an
  excluded pod and that the deletion is of a drained one.
* `ShrinkIsSafe`: `ScaleDownInv`. Each pod from the target upwards is still to do,
  in hand, or drained. The lemma `TailIsScaledDown` is the arithmetic: in a complete
  list position and ordinal agree.
* `ReplicasBounded`: `ReplicasInv`. The StatefulSet, the copy of it and the target
  about to be written are in the range, and a surge starts from a desired number.
  `EdsReplicasWanted` has the cases of `edsReplicas`: what it returns for an unset
  `spec.replicas` is at least `minReplicas`, whatever the status says.
* `OperationIsApplied`: `OperationInv`. A fresh copy holds the operation of the EDS,
  and when the annotation is removed each index of the copy's operation has its
  number of replicas or one of them is gone (`Applied`); nobody but the hooks writes
  index settings, and deletions keep `Applied` (`DeletionKeepsApplied`).

`OperatingTableProofs`. `Pending` is the event that waits and those in the queue.

* `LoopsMatch`: `TableInv`, which holds with an interrupted watch too, and which
  `ResourcesProofs` therefore uses for `OwnedHaveLoops`. The last
  pending event of a name says what the informer knows (`WatchInv`), and a name that
  is not dirty and has no pending event has a live loop exactly when it is owned
  (`MatchInv`).
* `OneLoop` and `ImplementsLease`: `OrderedInv`, without interruptions. An
  event for an EDS that is gone is, or is followed by, its deletion (`GoneInv`); events
  of a name come in the order of UIDs, with the deletion of the older one between
  (`OrderInv`). So events of another UID come after the deletion of the EDS whose loop
  runs (`LoopInv`), and each name has a newest entry with no older event on its way
  (`NewestInv`). For the refinement each handler that ends is a step that
  starts, ends or renews a lease, a crash ends all of them, everything else stutters.

`ResourcesProofs`: `PodsProtected` from `LatestInv` (the EDS that exists is the latest
created), `PassInv` (what a pass read existed, and the second Get read no older EDS
than the first) and `OwnerInv` (after the call for a kind, the object of that kind is
owned by the pass's EDS while that EDS exists). The steps of the table are taken over by `TableSteps`.

`ESClientProofs`: a node found empty is on the list in the settings or somebody else
wrote them since; the copy a client works on is of settings nobody wrote since it was
read (`fresh`), so that writing it back takes nothing away.

`AutoscalerProofs`: everything follows from what one decision may be (`Sound`) and
from `AutoscalerInv`: a pending operation keeps the bounds of the indices until it
is applied, and the time in the status is never longer ago than the change of nodes.
`Sound` is shown branch by branch of `scaleUpOrDown`, from lemmas on the arithmetic:
`CeilDivBounds`, `SameRatio` (the number of nodes for the same ratio goes in the right
direction and does not raise the shards per node, in both roundings), `Decreased`,
`Increased`, `Bounds`. The number of shards is a sum over a set of indices, which the
library defines recursively: `SumsExist` and `SumsAgree` show that the definition
defines something, and `SumsMonotone` what matters of it, by way of a smallest
counterexample (`SmallestSubset`) where one would use induction.

`MetricsProofs`: `NthExists` shows that there is a median for any number of pods, and
`MedianIs` what it says of them. `KeptIs`: samples being in the order of time, what
the loop of `storeMedian` keeps is an end of the list. `SamplesArePaced` needs
`PaceInv`: the timer of the next check together with the age of the last samples.

Proving found three things. `LoopsMatchEDS` was false for an operator without an ID
when an EDS has an empty annotation, a case the instances did not have:
`hasOwnership` takes both for the same, and so does `Owned` now. The arithmetic of
`Autoscaler` needs at least one node; a lemma (`CurrentPositive`) shows that the branches
that divide are only reached with one, whatever `spec.replicas` is. And assumptions
the models made silently are stated: there
are finitely many names, usages and pods. The loop of `storeMedian` is written as a
recursive function, because the provers know nothing of `SelectSeq`.

Only model-checked: liveness (`UpdateCompletes`, `EventsAreHandled`,
`ResourcesComplete`, `DrainsComplete`, `Settles`, `OverloadEnds`, `LoadIsNoticed`),
which is out of the prover's reach.

## Not modelled

The command line, the clientset, the recorder, generated code, the CRD tool and the
end-to-end tests have no state worth a model. Of the modelled files the following
is left out: the contents of pod templates, labels, selectors, ports and volume
claims, which are passed through; `GetShards`, `GetIndices` and `getManagedNodes`,
whose results are state of `Autoscaler`; `CreateIndex` and `DeleteIndex`, used by
tests; the parsing of endpoints and draining settings. A reused IP address (a new
pod with the address of a former one that is still on the exclude list) is not
modelled: it depends on the network plug-in.

## Plan

1. `Operator`, `OperatingTable`, `Autoscaler` with the proofs of `Operator` (done).
2. `ESClient`, `Lease` and the refinement, `Resources`, `Metrics`, and the cool-down
   and the panic in `Autoscaler` (done).
3. Proofs of all safety properties and of the refinement, for any values of the
   constants (done).
4. What is left: lemmas that connect modules proved apart, such as that the drain of
   `Operator` is the one of `ESClient` with a single client, and that `RequestScaling`
   of `Operator` covers the writes of `Autoscaler`.
