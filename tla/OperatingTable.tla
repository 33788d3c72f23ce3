--------------------------- MODULE OperatingTable ---------------------------
(***************************************************************************)
(* How ElasticsearchOperator turns events for ElasticsearchDataSets (EDS)  *)
(* into operating loops: the informer that runWatch sets up, the handlers  *)
(* add, update and del, the table `operating' of operateEDS, and the       *)
(* goroutines Operator.Run that it starts and stops.  What a pass of such  *)
(* a goroutine does is module Operator.                                    *)
(*                                                                         *)
(* The table and the channel on which a goroutine reports its end are kept *)
(* per UID; a pass reads the EDS by name.  An EDS that is deleted and      *)
(* created again has its old name and a new UID.                           *)
(***************************************************************************)
EXTENDS Naturals, Sequences, FiniteSets

CONSTANTS
    Names,          \* names of EDS
    MaxUid,         \* bound on the number of times an EDS is created
    OperatorID,     \* --operator-id
    NoID,           \* the empty operator ID
    Annotations,    \* values of the operator annotation
    NoAnnotation,   \* the annotation is not set
    Disturbances,   \* "handover" and "crash", see below
    NoEvent,        \* no handler is waiting
    MaxQueue        \* bound on the number of undelivered events

ASSUME NamesAssumption == IsFiniteSet(Names)
ASSUME MaxUidAssumption == MaxUid \in Nat
ASSUME IDAssumption == NoAnnotation \notin {OperatorID, NoID}
ASSUME AnnotationsAssumption == Annotations # {}
ASSUME TableDisturbancesAssumption ==
    Disturbances \subseteq {"handover", "crash"}
ASSUME MaxQueueAssumption == MaxQueue \in Nat

Uids == Names \X (1 .. MaxUid)
NoUid == 0

VARIABLES
    api,        \* the EDS: its UID, NoUid when there is none, and annotation
    created,    \* how often the EDS has been created
    known,      \* the UID in the informer's store
    connected,  \* the informer's watch is open
    dirty,      \* EDS changed while it was not
    queue,      \* events on their way to the handlers
    waiting,    \* the event whose handler waits for a goroutine to end
    operating,  \* UIDs with an entry in the table
    run,        \* the goroutine of each UID
    cancelled   \* UIDs whose goroutine's context is cancelled

watch == <<api, created, known, connected, dirty>>
vars == <<watch, queue, waiting, operating, run, cancelled>>

-----------------------------------------------------------------------------

Objects == [uid : 0 .. MaxUid, owner : Annotations]
Events == [type : {"add", "update", "delete", "tombstone"}, name : Names,
           uid : 1 .. MaxUid, owner : Annotations]
ASSUME NoEventAssumption == NoEvent \notin Events

TypeOK ==
    /\ api \in [Names -> Objects]
    /\ created \in [Names -> 0 .. MaxUid]
    /\ known \in [Names -> 0 .. MaxUid]
    /\ connected \in BOOLEAN /\ dirty \in SUBSET Names
    /\ queue \in Seq(Events)
    /\ waiting \in Events \cup {NoEvent}
    /\ operating \in SUBSET Uids
    /\ run \in [Uids -> {"none", "idle", "busy", "sending", "ended"}]
    /\ cancelled \in SUBSET Uids

(* The operator has started, there is no EDS yet.                          *)
Init ==
    /\ api \in [Names -> {a \in Objects : a.uid = NoUid}]
    /\ created = [n \in Names |-> 0] /\ known = [n \in Names |-> NoUid]
    /\ connected = TRUE /\ dirty = {}
    /\ queue = <<>> /\ waiting = NoEvent
    /\ operating = {} /\ run = [u \in Uids |-> "none"] /\ cancelled = {}

-----------------------------------------------------------------------------
(* Writes of EDS objects and the events the informer makes of them.        *)

Event(type, n, uid, owner) ==
    [type |-> type, name |-> n, uid |-> uid, owner |-> owner]

(* A change of the object is sent as an event, or missed by the watch.     *)
Write(n, new, event) ==
    /\ api' = [api EXCEPT ![n] = new]
    /\ IF connected
       THEN /\ Len(queue) < MaxQueue
            /\ queue' = Append(queue, event)
            /\ known' = [known EXCEPT ![n] = new.uid]
            /\ UNCHANGED dirty
       ELSE /\ dirty' = dirty \cup {n}
            /\ UNCHANGED <<queue, known>>
    /\ UNCHANGED <<connected, waiting, operating, run, cancelled>>

CreateEDS(n, owner) ==
    /\ api[n].uid = NoUid /\ created[n] < MaxUid
    /\ created' = [created EXCEPT ![n] = @ + 1]
    /\ Write(n, [uid |-> created[n] + 1, owner |-> owner],
                Event("add", n, created[n] + 1, owner))

(* Anybody's write of spec, status or metadata, the operator's included.   *)
UpdateEDS(n) ==
    /\ api[n].uid # NoUid
    /\ Write(n, api[n], Event("update", n, api[n].uid, api[n].owner))
    /\ UNCHANGED created

(* The annotation gives the EDS to another operator, or back to this one.  *)
Handover(n, owner) ==
    /\ "handover" \in Disturbances
    /\ api[n].uid # NoUid /\ owner # api[n].owner
    /\ Write(n, [api[n] EXCEPT !.owner = owner],
                Event("update", n, api[n].uid, owner))
    /\ UNCHANGED created

DeleteEDS(n) ==
    /\ api[n].uid # NoUid
    /\ Write(n, [api[n] EXCEPT !.uid = NoUid],
                Event("delete", n, api[n].uid, api[n].owner))
    /\ UNCHANGED created

Disconnect ==
    /\ connected
    /\ connected' = FALSE
    /\ UNCHANGED <<api, created, known, dirty, queue, waiting, operating,
                   run, cancelled>>

(* The informer lists again and compares with its store, by name: another  *)
(* UID under a name is an update.  What is gone is reported as a tombstone *)
(* (DeletedFinalStateUnknown).                                             *)
RelistEvent(n) ==
    IF api[n].uid = NoUid
    THEN Event("tombstone", n, known[n], api[n].owner)
    ELSE Event(IF known[n] = NoUid THEN "add" ELSE "update",
               n, api[n].uid, api[n].owner)

Orders(S) ==
    {f \in [1 .. Cardinality(S) -> S] :
        \A i, j \in DOMAIN f : f[i] = f[j] => i = j}

Relist ==
    /\ ~connected
    /\ \E names \in Orders({n \in dirty : {api[n].uid, known[n]} # {NoUid}}) :
          /\ Len(queue) + Len(names) <= MaxQueue
          /\ queue' = queue \o [i \in DOMAIN names |-> RelistEvent(names[i])]
    /\ known' = [n \in Names |-> api[n].uid]
    /\ connected' = TRUE /\ dirty' = {}
    /\ UNCHANGED <<api, created, waiting, operating, run, cancelled>>

(* The process is killed and started again.  Its informer's first list     *)
(* yields an Add for every EDS.                                            *)
Crash ==
    /\ "crash" \in Disturbances
    /\ \E names \in Orders({n \in Names : api[n].uid # NoUid}) :
          /\ Len(names) <= MaxQueue
          /\ queue' = [i \in DOMAIN names |->
                Event("add", names[i], api[names[i]].uid, api[names[i]].owner)]
    /\ known' = [n \in Names |-> api[n].uid]
    /\ connected' = TRUE /\ dirty' = {}
    /\ waiting' = NoEvent
    /\ operating' = {} /\ run' = [u \in Uids |-> "none"] /\ cancelled' = {}
    /\ UNCHANGED <<api, created>>

-----------------------------------------------------------------------------
(* The handlers.  The informer calls them one after the other.             *)

HasOwnershipUnset(owner) ==             \* mutant: not annotated is ours
    owner \in {OperatorID, NoAnnotation}
HasOwnership(owner) ==
    IF owner # NoAnnotation THEN owner = OperatorID ELSE OperatorID = NoID

Uid(e) == <<e.name, e.uid>>

(* operateEDS once no goroutine runs for the UID: a new one is started,    *)
(* unless the EDS is deleted or not ours.  The entry of the table is only  *)
(* ever overwritten.  The caller sets `run' of the UID to `ended' if it    *)
(* had waited for it.                                                      *)
StartByName(e, ended) ==                \* mutant: the table has names
    IF e.type = "delete" \/ ~HasOwnership(e.owner)
    THEN /\ run' = ended
         /\ UNCHANGED <<operating, cancelled>>
    ELSE /\ run' = [ended EXCEPT ![Uid(e)] = "idle"]
         /\ operating' = operating \cup {e.name}
         /\ cancelled' = cancelled \ {Uid(e)}
Start(e, ended) ==
    IF e.type = "delete" \/ ~HasOwnership(e.owner)
    THEN /\ run' = ended
         /\ UNCHANGED <<operating, cancelled>>
    ELSE /\ run' = [ended EXCEPT ![Uid(e)] = "idle"]
         /\ operating' = operating \cup {Uid(e)}
         /\ cancelled' = cancelled \ {Uid(e)}

(* del gets no EDS out of a tombstone and only logs.                       *)
IgnoreTombstone ==
    /\ waiting = NoEvent /\ queue # <<>> /\ Head(queue).type = "tombstone"
    /\ queue' = Tail(queue)
    /\ UNCHANGED <<watch, waiting, operating, run, cancelled>>

OperateAdded ==                         \* mutant: updates start nothing
    /\ waiting = NoEvent /\ queue # <<>> /\ Head(queue).type # "tombstone"
    /\ Uid(Head(queue)) \notin operating
    /\ queue' = Tail(queue)
    /\ IF Head(queue).type = "update"
       THEN UNCHANGED <<run, operating, cancelled>>
       ELSE Start(Head(queue), run)
    /\ UNCHANGED <<watch, waiting>>
OperateNew ==
    /\ waiting = NoEvent /\ queue # <<>> /\ Head(queue).type # "tombstone"
    /\ Uid(Head(queue)) \notin operating
    /\ queue' = Tail(queue)
    /\ Start(Head(queue), run)
    /\ UNCHANGED <<watch, waiting>>

(* There is an entry: cancel it, wait for the goroutine.  The lock is held *)
(* until then and no other event is handled.                               *)
CancelIfNotDeleted ==               \* mutant: `deleted' is looked at first
    /\ waiting = NoEvent /\ queue # <<>> /\ Head(queue).type # "tombstone"
    /\ Uid(Head(queue)) \in operating
    /\ queue' = Tail(queue)
    /\ IF Head(queue).type = "delete" THEN UNCHANGED <<waiting, cancelled>>
       ELSE /\ cancelled' = cancelled \cup {Uid(Head(queue))}
            /\ waiting' = Head(queue)
    /\ UNCHANGED <<watch, operating, run>>
CancelOperation ==
    /\ waiting = NoEvent /\ queue # <<>> /\ Head(queue).type # "tombstone"
    /\ Uid(Head(queue)) \in operating
    /\ queue' = Tail(queue)
    /\ cancelled' = cancelled \cup {Uid(Head(queue))}
    /\ waiting' = Head(queue)
    /\ UNCHANGED <<watch, operating, run>>

(* Both ends of the unbuffered channel meet.                               *)
Join ==
    /\ waiting # NoEvent /\ run[Uid(waiting)] = "sending"
    /\ waiting' = NoEvent
    /\ Start(waiting, [run EXCEPT ![Uid(waiting)] = "ended"])
    /\ UNCHANGED <<watch, queue>>

-----------------------------------------------------------------------------
(* Operator.Run.                                                           *)

Live(u) == run[u] \in {"idle", "busy"}

(* The interval has passed.  A pass whose Get fails has no effect: the     *)
(* context is cancelled or there is no EDS of that name.                   *)
StartPass(u) ==
    /\ run[u] = "idle" /\ u \notin cancelled /\ api[u[1]].uid # NoUid
    /\ run' = [run EXCEPT ![u] = "busy"]
    /\ UNCHANGED <<watch, queue, waiting, operating, cancelled>>

FinishPass(u) ==
    /\ run[u] = "busy"
    /\ run' = [run EXCEPT ![u] = "idle"]
    /\ UNCHANGED <<watch, queue, waiting, operating, cancelled>>

(* The context is looked at between two passes only.                       *)
StopSilently(u) ==                      \* mutant: nothing is sent
    /\ run[u] = "idle" /\ u \in cancelled
    /\ run' = [run EXCEPT ![u] = "ended"]
    /\ UNCHANGED <<watch, queue, waiting, operating, cancelled>>
StopInPass(u) ==                        \* mutant: without waiting for the pass
    /\ Live(u) /\ u \in cancelled
    /\ run' = [run EXCEPT ![u] = "sending"]
    /\ UNCHANGED <<watch, queue, waiting, operating, cancelled>>
Stop(u) ==
    /\ run[u] = "idle" /\ u \in cancelled
    /\ run' = [run EXCEPT ![u] = "sending"]
    /\ UNCHANGED <<watch, queue, waiting, operating, cancelled>>

-----------------------------------------------------------------------------

Handler == OperateNew \/ CancelOperation \/ Join

Loop(u) == StartPass(u) \/ FinishPass(u) \/ Stop(u)

Outside ==
    \E n \in Names :
       \/ UpdateEDS(n) \/ DeleteEDS(n)
       \/ \E a \in Annotations : CreateEDS(n, a) \/ Handover(n, a)

(* The watch misses no event here.  Module Resources has the interrupted   *)
(* watch (Disconnect, Relist, IgnoreTombstone) besides.                    *)
Next == Handler \/ (\E u \in Uids : Loop(u)) \/ Crash \/ Outside

Spec == Init /\ [][Next]_vars

-----------------------------------------------------------------------------
(* Properties.                                                             *)

(* While the watch misses no event, an EDS has at most one operating loop, *)
(* even when it is deleted and created again in the middle of a pass:      *)
(* operateEDS waits for the old loop before it handles the next event.     *)
AtMostOneLoop ==
    \A u, v \in Uids : u[1] = v[1] /\ Live(u) /\ Live(v) => u = v

(* README, "Running": with an ID the operator manages the EDS annotated    *)
(* with it, without one those that are not annotated.  An empty annotation *)
(* counts as none.                                                         *)
Owned(owner) ==
    IF OperatorID = NoID THEN owner \in {NoAnnotation, NoID}
    ELSE owner = OperatorID

(* The table implements module Lease: besides at most one loop per name,   *)
(* no event that is still on its way brings back the loop of a former EDS, *)
(* and a loop that stops is not in a pass.                                 *)
Lease == INSTANCE Lease WITH
    made <- created,
    holders <- {u \in Uids : Live(u)},
    working <- {u \in Uids : run[u] = "busy"},
    newest <- [n \in Names |->
                 CHOOSE k \in 0 .. MaxUid :
                    /\ k = 0 \/ <<n, k>> \in operating
                    /\ \A u \in operating : u[1] = n => u[2] <= k]
LeaseImplemented == Lease!Spec

(* When every event has been handled, exactly the existing EDS that belong *)
(* to this operator have a loop, and no loop is about to stop.             *)
Quiet == queue = <<>> /\ waiting = NoEvent /\ connected
LoopsMatchEDS ==
    Quiet => \A n \in Names, k \in 1 .. MaxUid :
        (Live(<<n, k>>) /\ <<n, k>> \notin cancelled)
            <=> (api[n].uid = k /\ Owned(api[n].owner))

(* Even if the watch was interrupted, deletions were missed and tombstones *)
(* ignored: once every event is handled no EDS of this operator is left    *)
(* without a loop.                                                         *)
OwnedAreOperated ==
    Quiet => \A n \in Names :
        api[n].uid # NoUid /\ Owned(api[n].owner)
            => Live(<<n, api[n].uid>>) /\ <<n, api[n].uid>> \notin cancelled

(* Every event is handled after finitely many steps: no handler waits      *)
(* forever while it holds the lock.                                        *)
EventsAreHandled == <>[]Quiet

(* elasticsearch.go:704: "wait for previous operation to terminate".       *)
(* There is such an operation.                                             *)
WaitsForAnOperation == waiting # NoEvent => run[Uid(waiting)] # "ended"
=============================================================================
