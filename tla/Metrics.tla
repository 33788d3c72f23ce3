------------------------------- MODULE Metrics -------------------------------
(***************************************************************************)
(* The metrics collector and what the autoscaler reads from its samples:   *)
(* the loop collectMetrics, the collector of metrics_collector.go that     *)
(* stores the median CPU usage of the pods of an EDS in an                 *)
(* ElasticsearchMetricSet, and scalingHint without its cool-down times     *)
(* (module Autoscaler has those, and takes the result as `cpu').           *)
(*                                                                         *)
(* Time passes in ticks.  A metric set has the name of its EDS and a       *)
(* reference to its UID.                                                   *)
(***************************************************************************)
EXTENDS Integers, Sequences, FiniteSets, FiniteSetsExt

CONSTANTS
    Pods,               \* pods labelled with the name of the EDS
    Usages,             \* CPU usage of a container, in percent of its request
    Interval,           \* metricsInterval
    UpThreshold, DownThreshold,     \* spec.scaling: ...ThresholdDuration,
    UpBoundary, DownBoundary,       \* ...CPUBoundary
    MaxUid,             \* bound on the number of times the EDS is created
    MaxRestarts         \* bound on the number of restarts

ASSUME IntervalAssumption == Interval \in Nat \ {0}
ASSUME ThresholdAssumption == UpThreshold \in Nat /\ DownThreshold \in Nat
ASSUME BoundaryAssumption == UpBoundary \in Nat /\ DownBoundary \in Nat
ASSUME UsagesAssumption ==
    Usages \subseteq Nat /\ IsFiniteSet(Usages) /\ IsFiniteSet(Pods)
ASSUME MetricsBoundsAssumption == MaxUid \in Nat \ {0} /\ MaxRestarts \in Nat

VARIABLES
    uid,        \* UID of the EDS, 0 when there is none
    created,    \* how often it has been created
    owner,      \* UID in the metric set's owner reference, 0: no metric set
    samples,    \* its samples; `before' is the time before the newest one
    idle,       \* time since the newest sample, 0 if there is none
    due,        \* time until the collector's next check
    job,        \* EDS the collector works on, and if it saw a metric set
    restarts,   \* how often the process was started again
    first       \* history: it has not stored a sample yet

process == <<restarts, first>>
vars == <<uid, created, owner, samples, idle, due, job, process>>

-----------------------------------------------------------------------------

(* mostAbove, halfBelow, of and first are history: whether more than half  *)
(* of the measured pods were above UpBoundary, at least half below         *)
(* DownBoundary, the EDS they were measured for, and if this is the first  *)
(* sample of a process.                                                    *)
Samples == [m : [value : Usages \cup {0}, mostAbove : BOOLEAN,
                 halfBelow : BOOLEAN],
            before : Nat, of : 1 .. MaxUid, first : BOOLEAN]
NoJob == [uid |-> 0, found |-> FALSE]

MinThreshold == Min({UpThreshold, DownThreshold})   \* mutant: the smaller one
Threshold == Max({UpThreshold, DownThreshold})

TypeOK ==
    /\ uid \in 0 .. MaxUid /\ created \in 0 .. MaxUid
    /\ owner \in 0 .. MaxUid
    /\ samples \in Seq(Samples) /\ (owner = 0 <=> samples = <<>>)
    /\ idle \in 0 .. Threshold + 1
    /\ due \in 0 .. Interval
    /\ job \in [uid : 0 .. MaxUid, found : BOOLEAN]
    /\ restarts \in 0 .. MaxRestarts /\ first \in BOOLEAN

Init ==
    /\ uid = 1 /\ created = 1
    /\ owner = 0 /\ samples = <<>> /\ idle = 0
    /\ due = 0 /\ job = NoJob /\ restarts = 0 /\ first = TRUE

-----------------------------------------------------------------------------
(* The collector.                                                          *)

(* getCPUUsagePercent: the container that is closest to its request; one   *)
(* without a request is left out.                                          *)
SumOfContainers(containers) ==          \* mutant: all containers together
    MapThenSumSet(LAMBDA u : u, containers)
GetCPUUsagePercent(containers) == Max(containers \cup {0})

(* calculateMedian: the lower one of two in the middle.                    *)
NthOf(usage, k) ==
    CHOOSE v \in {usage[p] : p \in DOMAIN usage} :
        /\ Cardinality({p \in DOMAIN usage : usage[p] < v}) <= k
        /\ Cardinality({p \in DOMAIN usage : usage[p] <= v}) > k
CalculateMedian(usage) ==
    NthOf(usage, (Cardinality(DOMAIN usage) - 1) \div 2)

(* The loop: collectResources finds the metric set by the owner's UID.     *)
CollectAgain ==                         \* mutant: the next check is not set
    /\ job = NoJob /\ due = 0
    /\ job' = [uid |-> uid, found |-> owner = uid /\ uid # 0]
    /\ UNCHANGED <<uid, created, owner, samples, idle, due, process>>
Collect ==
    /\ job = NoJob /\ due = 0
    /\ due' = Interval
    /\ job' = [uid |-> uid, found |-> owner = uid /\ uid # 0]
    /\ UNCHANGED <<uid, created, owner, samples, idle, process>>

(* What is measured and stored, for a set of pods and their containers.    *)
Measure(usage) ==
    LET n == Cardinality(DOMAIN usage)
        above == {p \in DOMAIN usage : usage[p] > UpBoundary}
        below == {p \in DOMAIN usage : usage[p] < DownBoundary}
    IN  [value |-> CalculateMedian(usage),
         mostAbove |-> 2 * Cardinality(above) > n,
         halfBelow |-> 2 * Cardinality(below) >= n]
Measurements ==
    {Measure([p \in DOMAIN c |-> GetCPUUsagePercent(c[p])]) :
        c \in UNION {[S -> SUBSET Usages] : S \in (SUBSET Pods) \ {{}}}}

(* storeMedian: samples older than the longer threshold are dropped.       *)
Aged == [i \in DOMAIN samples |-> [samples[i] EXCEPT !.before = @ + idle]]
Kept ==
    LET loop[n \in 0 .. Len(Aged)] ==
            IF n = 0 THEN <<>>
            ELSE IF Aged[n].before <= Threshold THEN Append(loop[n - 1], Aged[n])
            ELSE loop[n - 1]
    IN  loop[Len(Aged)]

StoreMedian(m) ==
    /\ job.uid # 0
    /\ IF job.found THEN owner = job.uid ELSE owner = 0
    /\ owner' = job.uid
    /\ samples' = Append(IF job.found THEN Kept ELSE <<>>,
                         [m |-> m, before |-> 0, of |-> job.uid,
                          first |-> first])
    /\ idle' = 0 /\ first' = FALSE
    /\ job' = NoJob
    /\ UNCHANGED <<uid, created, due, restarts>>

(* The write is refused: another metric set of that name, none any more.   *)
StoreRefused ==
    /\ job.uid # 0
    /\ IF job.found THEN owner # job.uid ELSE owner # 0
    /\ job' = NoJob
    /\ UNCHANGED <<uid, created, owner, samples, idle, due, process>>

(* No pod has metrics, or a request fails.                                 *)
Skip ==
    /\ job # NoJob
    /\ job' = NoJob
    /\ UNCHANGED <<uid, created, owner, samples, idle, due, process>>

-----------------------------------------------------------------------------
(* Time.  The collector may be late.                                       *)

Tick ==
    /\ idle' = IF samples = <<>> THEN 0 ELSE Min({idle + 1, Threshold + 1})
    /\ due' = Max({due - 1, 0})
    /\ UNCHANGED <<uid, created, owner, samples, job, process>>

OnTime == job = NoJob /\ due > 0 /\ Tick
Late == ~(job = NoJob /\ due > 0) /\ Tick

(* A process starts with a check.                                          *)
Restart ==
    /\ restarts < MaxRestarts
    /\ restarts' = restarts + 1 /\ first' = TRUE
    /\ due' = 0 /\ job' = NoJob
    /\ UNCHANGED <<uid, created, owner, samples, idle>>

Delete ==
    /\ uid # 0
    /\ uid' = 0
    /\ UNCHANGED <<created, owner, samples, idle, due, job, process>>

Create ==
    /\ uid = 0 /\ created < MaxUid
    /\ created' = created + 1 /\ uid' = created + 1
    /\ UNCHANGED <<owner, samples, idle, due, job, process>>

CollectGarbage ==
    /\ owner \notin {0, uid}
    /\ owner' = 0 /\ samples' = <<>> /\ idle' = 0
    /\ UNCHANGED <<uid, created, due, job, process>>

-----------------------------------------------------------------------------
(* scalingHint.                                                            *)

Required(threshold) == (threshold + Interval - 1) \div Interval

(* The metric set of this EDS, as collectResources finds it.               *)
SetByName == IF uid # 0 THEN samples ELSE <<>>  \* mutant: by name
MetricSet == IF uid # 0 /\ owner = uid THEN samples ELSE <<>>

Newest(n) == SubSeq(MetricSet, Len(MetricSet) - n + 1, Len(MetricSet))

ScaleDownRequired ==
    LET n == Required(DownThreshold)
    IN  /\ MetricSet # <<>> /\ Len(MetricSet) >= n
        /\ \A i \in 1 .. n : Newest(n)[i].m.value < DownBoundary

ScaleUpRequired ==
    LET n == Required(UpThreshold)
    IN  /\ MetricSet # <<>> /\ Len(MetricSet) >= n
        /\ \A i \in 1 .. n : Newest(n)[i].m.value > UpBoundary

-----------------------------------------------------------------------------

Collector ==
    \/ Collect \/ StoreRefused
    \/ \E m \in Measurements : StoreMedian(m)

Disturb == Skip \/ Late \/ Restart \/ Delete \/ Create

Next == Collector \/ OnTime \/ CollectGarbage \/ Disturb

Spec == Init /\ [][Next]_vars

(* The collector and the garbage collector go on, time passes; in the end  *)
(* the collector is on time, nothing fails and the EDS stays.              *)
CalmSpec ==
    /\ Spec
    /\ WF_vars(Collector) /\ WF_vars(OnTime) /\ WF_vars(CollectGarbage)
    /\ <>[][~Disturb]_vars

-----------------------------------------------------------------------------
(* Properties.                                                             *)

(* A hint counts samples of this EDS only, not of a former one of the same *)
(* name, none older than the longer threshold when the newest was stored;  *)
(* and at each of them more than half of the pods were above the boundary, *)
(* or at least half below: the lower median makes adding nodes the harder  *)
(* decision.                                                               *)
Justified(s) == s.of = uid /\ s.before <= Threshold
HintsAreJustified ==
    /\ ScaleUpRequired =>
          \A i \in 1 .. Required(UpThreshold) :
              LET s == Newest(Required(UpThreshold))[i]
              IN  Justified(s) /\ s.m.mostAbove
    /\ ScaleDownRequired =>
          \A i \in 1 .. Required(DownThreshold) :
              LET s == Newest(Required(DownThreshold))[i]
              IN  Justified(s) /\ s.m.halfBelow

(* However late the collector is, it does not catch up with a burst: three *)
(* samples of one process take at least an interval.  (The first check of  *)
(* a process is not held back, and restarts do make samples come faster.)  *)
SamplesTakeTime ==
    \A i \in 1 .. Len(samples) - 2 :
        ~samples[i + 1].first /\ ~samples[i + 2].first
            => samples[i].before >= samples[i + 2].before + Interval

(* If from some time on every sample finds most pods above the boundary,   *)
(* the collector is on time and the EDS stays, then the autoscaler is told *)
(* to scale up; likewise down.  What was collected before, for this EDS or *)
(* a former one, late, twice or not at all, does not keep it from that.    *)
Last == samples[Len(samples)]
LoadIsNoticed ==
    /\ <>[](samples # <<>> => Last.m.mostAbove)
          => <>[](uid # 0 => ScaleUpRequired)
    /\ <>[](samples # <<>> => Last.m.halfBelow)
          => <>[](uid # 0 => ScaleDownRequired)
=============================================================================
