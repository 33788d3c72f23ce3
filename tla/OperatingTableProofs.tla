------------------------ MODULE OperatingTableProofs ------------------------
(***************************************************************************)
(* Proofs about OperatingTable, for any finite set of names, any number of *)
(* incarnations of an EDS and any length of the queue of events.           *)
(***************************************************************************)
EXTENDS OperatingTable, SequenceTheorems, FiniteSetTheorems, TLAPS

(* All steps of the module, with those of an interrupted watch.            *)
TableNext == Next \/ Disconnect \/ Relist \/ IgnoreTombstone

(* The events that are still to be handled, the one whose handler waits    *)
(* first.                                                                  *)
Pending == IF waiting = NoEvent THEN queue ELSE <<waiting>> \o queue
Positions == 1 .. Len(Pending)

HasPending(n) == \E i \in Positions : Pending[i].name = n
LastOf(i) ==
    \A j \in Positions : j > i => Pending[j].name # Pending[i].name

-----------------------------------------------------------------------------
(* Invariants that hold with and without an interrupted watch.             *)

(* A goroutine has an entry in the table, and one that is about to stop is *)
(* the one a handler waits for.                                            *)
EntryInv ==
    /\ waiting # NoEvent => waiting.type # "tombstone"
    /\ \A u \in Uids :
          /\ run[u] # "none" => u \in operating
          /\ run[u] = "sending" \/ (Live(u) /\ u \in cancelled)
               => waiting # NoEvent /\ Uid(waiting) = u

(* The last event on its way for a name agrees with the informer's store,  *)
(* and, if the watch missed nothing about the name, with the EDS.  If none *)
(* is on its way the EDS has a loop exactly if it belongs to the operator. *)
Goes(e) == e.type \in {"delete", "tombstone"}
WatchInv ==
    /\ connected => dirty = {}
    /\ \A n \in Names : n \notin dirty => known[n] = api[n].uid
    /\ \A i \in Positions : LastOf(i) =>
          LET e == Pending[i]
          IN  /\ known[e.name] = IF Goes(e) THEN NoUid ELSE e.uid
              /\ e.name \notin dirty /\ ~Goes(e)
                   => e.owner = api[e.name].owner
MatchInv ==
    \A n \in Names :
        n \notin dirty /\ ~HasPending(n) /\ api[n].uid # NoUid
           => (Live(<<n, api[n].uid>>) <=> Owned(api[n].owner))

-----------------------------------------------------------------------------
(* Invariants of the uninterrupted watch.                                  *)

Running(u) == run[u] \in {"idle", "busy", "sending"}
Deleted(n, k, from, to) ==
    \E m \in from .. to : /\ Pending[m].type = "delete"
                          /\ Pending[m].name = n /\ Pending[m].uid = k

(* UIDs grow.                                                              *)
UidInv ==
    /\ connected /\ dirty = {}
    /\ \A n \in Names : api[n].uid \in {NoUid, created[n]}
    /\ \A i \in Positions : /\ Pending[i].type # "tombstone"
                            /\ Pending[i].uid <= created[Pending[i].name]
    /\ \A u \in operating : u[2] <= created[u[1]]

(* Events for a name are ordered: no event for an EDS follows its          *)
(* deletion, and an event for the next EDS follows the deletion of the     *)
(* last one.                                                               *)
OrderInv ==
    \A i, j \in Positions :
        i < j /\ Pending[i].name = Pending[j].name =>
           \/ Pending[i].uid = Pending[j].uid /\ Pending[i].type # "delete"
           \/ /\ Pending[i].uid < Pending[j].uid
              /\ Deleted(Pending[i].name, Pending[i].uid, i, j - 1)

(* An event for an EDS that is gone is, or is followed by, its deletion.   *)
GoneInv ==
    \A i \in Positions :
        IF Pending[i].uid = api[Pending[i].name].uid
        THEN Pending[i].type # "delete"
        ELSE Deleted(Pending[i].name, Pending[i].uid, i, Len(Pending))

(* Likewise, an event for another EDS of the name of a running loop comes  *)
(* after the deletion of the loop's EDS, and the loop of an EDS that is    *)
(* gone has this deletion still ahead.                                     *)
LoopInv ==
    \A u \in Uids : Running(u) =>
        /\ \A j \in Positions : Pending[j].name = u[1] =>
              \/ Pending[j].uid = u[2]
              \/ Pending[j].uid > u[2] /\ Deleted(u[1], u[2], 1, j - 1)
        /\ u[2] # api[u[1]].uid => Deleted(u[1], u[2], 1, Len(Pending))
        /\ \A v \in Uids : Running(v) /\ v[1] = u[1] => v = u

(* Each name has a newest entry, and no older event is on its way.         *)
NewestInv ==
    \A n \in Names :
        /\ \E k \in 0 .. MaxUid :
              /\ k = 0 \/ <<n, k>> \in operating
              /\ \A u \in operating : u[1] = n => u[2] <= k
        /\ \A i \in Positions, u \in operating :
              Pending[i].name = n /\ u[1] = n => u[2] <= Pending[i].uid

-----------------------------------------------------------------------------
(* What the actions do, in terms of the pending events.                    *)

(* Orders(S) are the enumerations of a finite set.                         *)
LEMMA OrdersEnumerate ==
    ASSUME NEW S, IsFiniteSet(S), NEW f \in Orders(S)
    PROVE  /\ f \in Seq(S) /\ DOMAIN f = 1 .. Len(f)
           /\ Len(f) = Cardinality(S) /\ Len(f) \in Nat
           /\ \A x \in S : \E i \in 1 .. Len(f) : f[i] = x
<1> DEFINE N == Cardinality(S)
<1>1. N \in Nat
  BY FS_CardinalityType
<1>2. f \in [1 .. N -> S] /\ \A i, j \in 1 .. N : f[i] = f[j] => i = j
  BY DEF Orders
<1>3. f \in Seq(S) /\ Len(f) = N
  BY <1>1, <1>2
<1>4. f \in Injection(1 .. N, S)
  BY <1>2, Zenon DEF Injection, IsInjective
<1>5. Cardinality(1 .. N) = N
  BY <1>1, FS_Interval
<1>6. f \in Surjection(1 .. N, S)
  BY <1>4, <1>5, FS_Injection
<1> QED  BY <1>1, <1>2, <1>3, <1>6 DEF Surjection

(* An event is made of a name, a UID and an annotation.                    *)
LEMMA EventType ==
    ASSUME NEW type \in {"add", "update", "delete", "tombstone"},
           NEW n \in Names, NEW uid \in 1 .. MaxUid, NEW a \in Annotations
    PROVE  /\ Event(type, n, uid, a) \in Events
           /\ Event(type, n, uid, a).type = type
           /\ Event(type, n, uid, a).name = n
           /\ Event(type, n, uid, a).uid = uid
           /\ Event(type, n, uid, a).owner = a
BY DEF Event, Events

(* A write of an EDS and the event it causes.                              *)
Changes(n, new, e) ==
    /\ Write(n, new, e)
    /\ e.name = n /\ e.type \in {"add", "update", "delete"}
    /\ \/ /\ api[n].uid = NoUid /\ created[n] < MaxUid
          /\ new.uid = created[n] + 1
          /\ created' = [created EXCEPT ![n] = created[n] + 1]
          /\ e.type # "delete" /\ e.uid = new.uid /\ e.owner = new.owner
       \/ /\ api[n].uid # NoUid /\ new.uid = api[n].uid
          /\ created' = created
          /\ e.type # "delete" /\ e.uid = new.uid /\ e.owner = new.owner
       \/ /\ api[n].uid # NoUid /\ new.uid = NoUid
          /\ created' = created
          /\ e.type = "delete" /\ e.uid = api[n].uid

(* Every write of an EDS is of this form.                                  *)
LEMMA OutsideChanges ==
    ASSUME TypeOK, Outside
    PROVE  \E n \in Names, new \in Objects, e \in Events : Changes(n, new, e)
<1> USE MaxUidAssumption DEF NoUid
<1>1. PICK n \in Names : \/ UpdateEDS(n) \/ DeleteEDS(n)
                         \/ \E a \in Annotations : CreateEDS(n, a) \/ Handover(n, a)
  BY DEF Outside
<1>2. /\ api[n] \in Objects /\ api[n].uid \in 0 .. MaxUid
      /\ api[n].owner \in Annotations /\ created[n] \in 0 .. MaxUid
  BY DEF TypeOK, Objects
<1>3. CASE UpdateEDS(n)
  <2> DEFINE e == Event("update", n, api[n].uid, api[n].owner)
  <2>1. api[n].uid # NoUid /\ Write(n, api[n], e) /\ created' = created
    BY <1>3 DEF UpdateEDS
  <2>2. e \in Events /\ e.type = "update" /\ e.name = n
        /\ e.uid = api[n].uid /\ e.owner = api[n].owner
    BY <1>2, <2>1, EventType
  <2> HIDE DEF e
  <2> QED  BY <1>2, <2>1, <2>2 DEF Changes
<1>4. CASE DeleteEDS(n)
  <2> DEFINE e == Event("delete", n, api[n].uid, api[n].owner)
             new == [api[n] EXCEPT !.uid = NoUid]
  <2>1. api[n].uid # NoUid /\ Write(n, new, e) /\ created' = created
    BY <1>4 DEF DeleteEDS
  <2>2. e \in Events /\ e.type = "delete" /\ e.name = n /\ e.uid = api[n].uid
    BY <1>2, <2>1, EventType
  <2>3. new \in Objects /\ new.uid = NoUid
    BY <1>2 DEF Objects
  <2> HIDE DEF e, new
  <2> QED  BY <1>2, <2>1, <2>2, <2>3 DEF Changes
<1>5. ASSUME NEW a \in Annotations, CreateEDS(n, a)
      PROVE  \E new \in Objects, e \in Events : Changes(n, new, e)
  <2> DEFINE k == created[n] + 1
             e == Event("add", n, k, a)
             new == [uid |-> k, owner |-> a]
  <2>1. /\ api[n].uid = NoUid /\ created[n] < MaxUid /\ Write(n, new, e)
        /\ created' = [created EXCEPT ![n] = created[n] + 1]
    BY <1>5 DEF CreateEDS
  <2>2. k \in 1 .. MaxUid
    BY <1>2, <2>1
  <2>3. e \in Events /\ e.type = "add" /\ e.name = n /\ e.uid = k /\ e.owner = a
    BY <2>2, EventType
  <2>4. new \in Objects /\ new.uid = k /\ new.owner = a
    BY <2>2 DEF Objects
  <2>5. k = created[n] + 1
    OBVIOUS
  <2> HIDE DEF e, new, k
  <2> QED  BY <2>1, <2>3, <2>4, <2>5 DEF Changes
<1>6. ASSUME NEW a \in Annotations, Handover(n, a)
      PROVE  \E new \in Objects, e \in Events : Changes(n, new, e)
  <2> DEFINE e == Event("update", n, api[n].uid, a)
             new == [api[n] EXCEPT !.owner = a]
  <2>1. api[n].uid # NoUid /\ Write(n, new, e) /\ created' = created
    BY <1>6 DEF Handover
  <2>2. e \in Events /\ e.type = "update" /\ e.name = n
        /\ e.uid = api[n].uid /\ e.owner = a
    BY <1>2, <2>1, EventType
  <2>3. new \in Objects /\ new.uid = api[n].uid /\ new.owner = a
    BY <1>2 DEF Objects
  <2> HIDE DEF e, new
  <2> QED  BY <1>2, <2>1, <2>2, <2>3 DEF Changes
<1> QED  BY <1>1, <1>3, <1>4, <1>5, <1>6

(* What an informer reports of the names in S: the EDS as they are now.    *)
Reports(S, news) ==
    /\ news \in Seq(Events)
    /\ \A i \in 1 .. Len(news) :
          LET e == news[i] IN
          /\ e.name \in S /\ e.owner = api[e.name].owner
          /\ IF api[e.name].uid = NoUid
             THEN e.type = "tombstone"
             ELSE e.type \in {"add", "update"} /\ e.uid = api[e.name].uid
    /\ \A n \in S : \E i \in 1 .. Len(news) : news[i].name = n

(* A list after an interruption reports every name that changed,           *)
LEMMA RelistReports ==
    ASSUME TypeOK, Relist
    PROVE  \E news \in Seq(Events) :
              /\ Reports({n \in dirty : {api[n].uid, known[n]} # {NoUid}}, news)
              /\ queue' = queue \o news
<1> DEFINE S == {n \in dirty : {api[n].uid, known[n]} # {NoUid}}
<1>1. PICK names \in Orders(S) :
            queue' = queue \o [i \in DOMAIN names |-> RelistEvent(names[i])]
  BY DEF Relist
<1>2. IsFiniteSet(S) /\ S \subseteq Names
  BY NamesAssumption, FS_Subset DEF TypeOK
<1>3. /\ names \in Seq(S) /\ DOMAIN names = 1 .. Len(names) /\ Len(names) \in Nat
      /\ \A n \in S : \E i \in 1 .. Len(names) : names[i] = n
  <2> HIDE DEF S
  <2> QED  BY <1>2, OrdersEnumerate
<1> DEFINE news == [i \in 1 .. Len(names) |-> RelistEvent(names[i])]
<1>4. ASSUME NEW n \in S
      PROVE  LET e == RelistEvent(n) IN
             /\ e \in Events /\ e.name = n /\ e.owner = api[n].owner
             /\ IF api[n].uid = NoUid
                THEN e.type = "tombstone"
                ELSE e.type \in {"add", "update"} /\ e.uid = api[n].uid
  <2>1. /\ n \in Names /\ api[n].owner \in Annotations
        /\ api[n].uid # NoUid => api[n].uid \in 1 .. MaxUid
        /\ api[n].uid = NoUid => known[n] \in 1 .. MaxUid
    BY <1>2, MaxUidAssumption DEF TypeOK, Objects, NoUid
  <2> QED  BY <2>1, EventType DEF RelistEvent
<1>5. \A i \in 1 .. Len(names) : names[i] \in S
  BY <1>3, ElementOfSeq
<1> HIDE DEF S
<1>6. news \in Seq(Events) /\ Len(news) = Len(names)
      /\ \A i \in 1 .. Len(news) : news[i] = RelistEvent(names[i])
  BY <1>3, <1>4, <1>5
<1>7. queue' = queue \o news
  BY <1>1, <1>3
<1> HIDE DEF news
<1>8. Reports(S, news)
  BY <1>3, <1>4, <1>5, <1>6 DEF Reports
<1> QED  BY <1>6, <1>7, <1>8 DEF S

(* and the first list of a process every EDS there is.                     *)
LEMMA CrashReports ==
    ASSUME TypeOK, Crash
    PROVE  queue' \in Seq(Events)
           /\ Reports({n \in Names : api[n].uid # NoUid}, queue')
<1> DEFINE S == {n \in Names : api[n].uid # NoUid}
<1>1. PICK names \in Orders(S) :
            queue' = [i \in DOMAIN names |->
                Event("add", names[i], api[names[i]].uid, api[names[i]].owner)]
  BY DEF Crash
<1>2. IsFiniteSet(S) /\ S \subseteq Names
  BY NamesAssumption, FS_Subset
<1>3. /\ names \in Seq(S) /\ DOMAIN names = 1 .. Len(names) /\ Len(names) \in Nat
      /\ \A n \in S : \E i \in 1 .. Len(names) : names[i] = n
  <2> HIDE DEF S
  <2> QED  BY <1>2, OrdersEnumerate
<1>4. ASSUME NEW n \in S
      PROVE  LET e == Event("add", n, api[n].uid, api[n].owner) IN
             /\ e \in Events /\ e.name = n /\ e.owner = api[n].owner
             /\ e.type = "add" /\ e.uid = api[n].uid /\ api[n].uid # NoUid
  <2>1. n \in Names /\ api[n].owner \in Annotations
        /\ api[n].uid \in 1 .. MaxUid /\ api[n].uid # NoUid
    BY <1>2, MaxUidAssumption DEF TypeOK, Objects, NoUid
  <2> QED  BY <2>1, EventType
<1>5. \A i \in 1 .. Len(names) : names[i] \in S
  BY <1>3, ElementOfSeq
<1> HIDE DEF S
<1>6. queue' \in Seq(Events) /\ Len(queue') = Len(names)
      /\ \A i \in 1 .. Len(queue') : queue'[i] =
              Event("add", names[i], api[names[i]].uid, api[names[i]].owner)
  BY <1>1, <1>3, <1>4, <1>5
<1>7. Reports(S, queue')
  BY <1>3, <1>4, <1>5, <1>6 DEF Reports
<1> QED  BY <1>6, <1>7 DEF S

-----------------------------------------------------------------------------
(* Types.                                                                  *)

(* operateEDS keeps the types of table and goroutines.                     *)
LEMMA HandlerType ==
    ASSUME TypeOK, NEW e \in Events, NEW ended,
           ended \in [Uids -> {"none", "idle", "busy", "sending", "ended"}],
           Start(e, ended)
    PROVE  /\ run' \in [Uids -> {"none", "idle", "busy", "sending", "ended"}]
           /\ operating' \in SUBSET Uids /\ cancelled' \in SUBSET Uids
<1>1. Uid(e) \in Uids
  BY DEF Uid, Uids, Events
<1> QED  BY <1>1 DEF Start, TypeOK

(* No handler, goroutine, write or report of the informer takes a variable *)
(* out of its type.                                                        *)
LEMMA TypeStep == TypeOK /\ [TableNext]_vars => TypeOK'
<1> SUFFICES ASSUME TypeOK, [TableNext]_vars PROVE TypeOK'
  OBVIOUS
<1> USE DEF TypeOK, watch
<1>1. CASE OperateNew
  <2>1. Head(queue) \in Events /\ Tail(queue) \in Seq(Events)
    BY <1>1, HeadTailProperties DEF OperateNew
  <2> QED  BY <1>1, <2>1, HandlerType DEF OperateNew
<1>2. CASE CancelOperation
  <2>1. Head(queue) \in Events /\ Tail(queue) \in Seq(Events)
    BY <1>2, HeadTailProperties DEF CancelOperation
  <2>2. Uid(Head(queue)) \in Uids
    BY <2>1 DEF Uid, Uids, Events
  <2> QED  BY <1>2, <2>1, <2>2 DEF CancelOperation
<1>3. CASE Join
  <2>1. waiting \in Events
    BY <1>3 DEF Join
  <2> QED  BY <1>3, <2>1, HandlerType DEF Join
<1>4. CASE IgnoreTombstone
  <2>1. Tail(queue) \in Seq(Events)
    BY <1>4, HeadTailProperties DEF IgnoreTombstone
  <2> QED  BY <1>4, <2>1 DEF IgnoreTombstone
<1>5. ASSUME NEW u \in Uids, Loop(u)
      PROVE  TypeOK'
  BY <1>5 DEF Loop, StartPass, FinishPass, Stop
<1>6. CASE Crash
  <2>1. queue' \in Seq(Events)
    BY <1>6, CrashReports
  <2>2. \A n \in Names : api[n].uid \in 0 .. MaxUid
    BY DEF Objects
  <2> QED  BY <1>6, <2>1, <2>2 DEF Crash
<1>7. CASE Relist
  <2>1. queue' \in Seq(Events)
    <3>1. PICK news \in Seq(Events) : queue' = queue \o news
      BY <1>7, RelistReports
    <3> QED  BY <3>1, ConcatProperties
  <2>2. \A n \in Names : api[n].uid \in 0 .. MaxUid
    BY DEF Objects
  <2> QED  BY <1>7, <2>1, <2>2 DEF Relist
<1>8. CASE Disconnect
  BY <1>8 DEF Disconnect
<1>9. CASE Outside
  <2>1. PICK n \in Names, new \in Objects, e \in Events : Changes(n, new, e)
    BY <1>9, OutsideChanges
  <2>2. new.uid \in 0 .. MaxUid
    BY DEF Objects
  <2>3. created' \in [Names -> 0 .. MaxUid]
    BY <2>1, MaxUidAssumption DEF Changes
  <2>4. queue' \in Seq(Events)
    <3>1. queue' = queue \/ queue' = Append(queue, e)
      BY <2>1 DEF Changes, Write
    <3>2. queue \in Seq(Events) /\ Append(queue, e) \in Seq(Events)
      BY AppendProperties
    <3> QED  BY <3>1, <3>2
  <2>5. Write(n, new, e)
    BY <2>1 DEF Changes
  <2> QED  BY <2>2, <2>3, <2>4, <2>5 DEF Write
<1>10. CASE UNCHANGED vars
  BY <1>10 DEF vars
<1> QED
  BY <1>1, <1>2, <1>3, <1>4, <1>5, <1>6, <1>7, <1>8, <1>9, <1>10
     DEF TableNext, Next, Handler

(* The initial state has the right types.                                  *)
LEMMA InitType == Init => TypeOK
BY MaxUidAssumption, EmptySeq DEF Init, TypeOK, NoUid, Objects

(* Every variable of informer, table and goroutines keeps its type, for    *)
(* any number of EDS and events.                                           *)
THEOREM TypeCorrect == Spec => []TypeOK
<1>1. TypeOK /\ [Next]_vars => TypeOK'
  BY TypeStep DEF TableNext
<1> QED  BY <1>1, InitType, PTL DEF Spec

-----------------------------------------------------------------------------
(* Steps and the pending events.                                           *)

Same == Len(Pending') = Len(Pending)
        /\ \A i \in Positions : Pending'[i] = Pending[i]
Grows(news) ==
    /\ Len(Pending') = Len(Pending) + Len(news)
    /\ \A i \in Positions : Pending'[i] = Pending[i]
    /\ \A i \in 1 .. Len(news) : Pending'[Len(Pending) + i] = news[i]
Takes(e) ==
    /\ Len(Pending) > 0 /\ Pending[1] = e
    /\ Len(Pending') = Len(Pending) - 1
    /\ \A i \in 1 .. Len(Pending) - 1 : Pending'[i] = Pending[i + 1]

(* Types of the events that are not handled yet.                           *)
LEMMA PendingType ==
    ASSUME TypeOK
    PROVE  /\ Pending \in Seq(Events) /\ Len(Pending) \in Nat
           /\ \A i \in Positions : Pending[i] \in Events
           /\ waiting = NoEvent => Pending = queue
           /\ waiting # NoEvent =>
                 /\ Len(Pending) = Len(queue) + 1 /\ Pending[1] = waiting
                 /\ \A i \in 1 .. Len(queue) : Pending[i + 1] = queue[i]
<1>1. CASE waiting = NoEvent
  BY <1>1, ElementOfSeq, LenProperties DEF Pending, Positions, TypeOK
<1>2. CASE waiting # NoEvent
  <2>1. waiting \in Events /\ queue \in Seq(Events) /\ Len(queue) \in Nat
    BY <1>2, LenProperties DEF TypeOK
  <2>2. /\ <<waiting>> \in Seq(Events) /\ Len(<<waiting>>) = 1
        /\ <<waiting>>[1] = waiting
    BY <2>1
  <2>3. /\ Pending \in Seq(Events) /\ Len(Pending) = 1 + Len(queue)
        /\ \A i \in 1 .. 1 + Len(queue) :
              Pending[i] = IF i <= 1 THEN <<waiting>>[i] ELSE queue[i - 1]
    BY <1>2, <2>1, <2>2, ConcatProperties DEF Pending
  <2>4. \A i \in 1 .. Len(queue) : Pending[i + 1] = queue[i]
    <3> TAKE i \in 1 .. Len(queue)
    <3>1. i + 1 \in 1 .. 1 + Len(queue) /\ ~(i + 1 <= 1) /\ (i + 1) - 1 = i
      BY <2>1
    <3> QED  BY <2>3, <3>1
  <2> QED  BY <1>2, <2>1, <2>2, <2>3, <2>4, ElementOfSeq DEF Positions
<1> QED  BY <1>1, <1>2

(* They stay as they are,                                                  *)
LEMMA PendingSame ==
    ASSUME UNCHANGED <<queue, waiting>>
    PROVE  Same
BY DEF Same, Pending

(* one comes in,                                                           *)
LEMMA PendingSent ==
    ASSUME TypeOK, NEW e \in Events, queue' = Append(queue, e),
           UNCHANGED waiting
    PROVE  Grows(<<e>>)
<1>2. /\ queue \in Seq(Events) /\ Len(queue) \in Nat
      /\ queue' \in Seq(Events) /\ Len(queue') = Len(queue) + 1
      /\ \A i \in 1 .. Len(queue) : queue'[i] = queue[i]
      /\ queue'[Len(queue) + 1] = e
  BY AppendProperties, LenProperties DEF TypeOK
<1>3. Len(<<e>>) = 1 /\ <<e>>[1] = e
  OBVIOUS
<1>4. CASE waiting = NoEvent
  <2>1. Pending = queue /\ Pending' = queue'
    BY <1>4 DEF Pending
  <2> QED  BY <1>2, <1>3, <2>1 DEF Grows, Positions
<1>5. CASE waiting # NoEvent
  <2>1. Pending = <<waiting>> \o queue /\ Pending' = <<waiting>> \o queue'
    BY <1>5 DEF Pending
  <2>2. waiting \in Events
    BY <1>5 DEF TypeOK
  <2> QED  BY <1>2, <1>3, <2>1, <2>2, SMTT(30) DEF Grows, Positions
<1> QED  BY <1>4, <1>5

(* a whole list comes in,                                                  *)
LEMMA PendingReported ==
    ASSUME TypeOK, NEW news \in Seq(Events), queue' = queue \o news,
           UNCHANGED waiting
    PROVE  Grows(news)
<1>1. /\ queue \in Seq(Events) /\ Len(queue) \in Nat /\ Len(news) \in Nat
      /\ queue' \in Seq(Events) /\ Len(queue') = Len(queue) + Len(news)
      /\ \A i \in 1 .. Len(queue) + Len(news) :
            queue'[i] = IF i <= Len(queue) THEN queue[i] ELSE news[i - Len(queue)]
  BY ConcatProperties, LenProperties DEF TypeOK
<1>2. CASE waiting = NoEvent
  <2>1. Pending = queue /\ Pending' = queue'
    BY <1>2 DEF Pending
  <2> QED  BY <1>1, <2>1 DEF Grows, Positions
<1>3. CASE waiting # NoEvent
  <2>1. Pending = <<waiting>> \o queue /\ Pending' = <<waiting>> \o queue'
    BY <1>3 DEF Pending
  <2>2. waiting \in Events
    BY <1>3 DEF TypeOK
  <2> QED  BY <1>1, <2>1, <2>2, SMTT(30) DEF Grows, Positions
<1> QED  BY <1>2, <1>3

(* The event that CancelOperation takes is still pending.                  *)
LEMMA PendingCancelled ==
    ASSUME TypeOK, CancelOperation
    PROVE  /\ Same /\ Len(Pending) > 0 /\ waiting' = Pending[1]
           /\ waiting' \in Events /\ waiting' # NoEvent
<1>1. /\ queue # <<>> /\ queue \in Seq(Events) /\ waiting = NoEvent
      /\ queue' = Tail(queue) /\ waiting' = Head(queue)
  BY DEF CancelOperation, TypeOK
<1>2. /\ Head(queue) \in Events /\ Tail(queue) \in Seq(Events)
      /\ Len(Tail(queue)) = Len(queue) - 1 /\ Head(queue) = queue[1]
      /\ Len(queue) \in Nat \ {0}
      /\ \A i \in 1 .. Len(Tail(queue)) : Tail(queue)[i] = queue[i + 1]
  BY <1>1, HeadTailProperties, EmptySeq
<1>3. waiting' # NoEvent
  BY <1>1, <1>2, NoEventAssumption
<1>4. Pending = queue /\ Pending' = <<Head(queue)>> \o Tail(queue)
  BY <1>1, <1>3 DEF Pending
<1> QED  BY <1>1, <1>2, <1>3, <1>4, SMTT(30) DEF Same, Positions

(* or the first one is a tombstone and is dropped.                         *)
LEMMA PendingIgnored ==
    ASSUME TypeOK, IgnoreTombstone
    PROVE  \E e \in Events : Takes(e) /\ e.type = "tombstone"
<1>1. /\ queue # <<>> /\ queue \in Seq(Events) /\ waiting = NoEvent
      /\ queue' = Tail(queue) /\ waiting' = NoEvent
      /\ Head(queue).type = "tombstone"
  BY DEF IgnoreTombstone, TypeOK
<1>2. /\ Head(queue) \in Events /\ Head(queue) = queue[1]
      /\ Len(Tail(queue)) = Len(queue) - 1
      /\ Len(queue) \in Nat \ {0}
      /\ \A i \in 1 .. Len(Tail(queue)) : Tail(queue)[i] = queue[i + 1]
  BY <1>1, HeadTailProperties, EmptySeq
<1>3. Pending = queue /\ Pending' = Tail(queue)
  BY <1>1 DEF Pending
<1> QED  BY <1>1, <1>2, <1>3 DEF Takes

(* The last event for a name stays the last one when the first one is      *)
(* taken.                                                                  *)
LEMMA TakesLast ==
    ASSUME TypeOK, NEW e, Takes(e)
    PROVE  \A i \in Positions' : LastOf(i)' => LastOf(i + 1)
<1> SUFFICES ASSUME NEW i \in Positions', LastOf(i)',
                    NEW j \in Positions, j > i + 1
             PROVE  Pending[j].name # Pending[i + 1].name
  BY DEF LastOf
<1>1. /\ Len(Pending) \in Nat /\ i \in 1 .. Len(Pending) - 1
      /\ j \in 1 .. Len(Pending)
  BY PendingType DEF Takes, Positions
<1>2. j - 1 \in 1 .. Len(Pending) - 1 /\ j - 1 > i /\ (j - 1) + 1 = j
  BY <1>1
<1>3. Pending'[i] = Pending[i + 1] /\ Pending'[j - 1] = Pending[j]
  BY <1>1, <1>2 DEF Takes
<1>4. j - 1 \in Positions'
  BY <1>2 DEF Takes, Positions
<1> QED  BY <1>2, <1>3, <1>4 DEF LastOf

(* operateEDS handles the first event: there is no loop for its UID then,  *)
(* afterwards there is one if the EDS is ours and not deleted.             *)
Starts(e) == e.type # "delete" /\ HasOwnership(e.owner)
Handles(e) ==
    /\ Takes(e) /\ e.type # "tombstone" /\ Uid(e) \in Uids
    /\ waiting' = NoEvent /\ UNCHANGED watch
    /\ ~Live(Uid(e))
    /\ \A v \in Uids : run[v] = "sending" \/ (Live(v) /\ v \in cancelled)
                         => v = Uid(e)
    /\ \A v \in Uids : v # Uid(e) => run'[v] = run[v]
    /\ IF Starts(e)
       THEN /\ run'[Uid(e)] = "idle"
            /\ operating' = operating \cup {Uid(e)}
            /\ cancelled' = cancelled \ {Uid(e)}
       ELSE /\ run'[Uid(e)] \in {"none", "ended"}
            /\ run'[Uid(e)] = "none" \/ Uid(e) \in operating
            /\ operating' = operating /\ cancelled' = cancelled

(* What a handler does that comes to its end.                              *)
LEMMA HandlerHandles ==
    ASSUME TypeOK, EntryInv, OperateNew \/ Join
    PROVE  \E e \in Events : Handles(e)
<1>1. CASE OperateNew
  <2> DEFINE e == Head(queue)
  <2>1. /\ queue # <<>> /\ queue \in Seq(Events)
        /\ waiting = NoEvent /\ waiting' = NoEvent /\ queue' = Tail(queue)
        /\ e.type # "tombstone" /\ Uid(e) \notin operating
        /\ Start(e, run) /\ UNCHANGED watch
    BY <1>1 DEF OperateNew, TypeOK
  <2>2. /\ e \in Events /\ e = queue[1]
        /\ Len(Tail(queue)) = Len(queue) - 1
        /\ Len(queue) \in Nat \ {0}
        /\ \A i \in 1 .. Len(Tail(queue)) : Tail(queue)[i] = queue[i + 1]
    BY <2>1, HeadTailProperties, EmptySeq
  <2>3. Pending = queue /\ Pending' = Tail(queue)
    BY <2>1 DEF Pending
  <2> HIDE DEF e
  <2>4. Takes(e)
    BY <2>1, <2>2, <2>3 DEF Takes
  <2>5. Uid(e) \in Uids
    BY <2>2 DEF Uid, Uids, Events
  <2>6. run[Uid(e)] = "none"
    BY <2>1, <2>5 DEF EntryInv
  <2>7. \A v \in Uids : ~(run[v] = "sending" \/ (Live(v) /\ v \in cancelled))
    BY <2>1 DEF EntryInv
  <2> QED  BY <2>1, <2>2, <2>4, <2>5, <2>6, <2>7
           DEF Handles, Start, Starts, Live, TypeOK
<1>2. CASE Join
  <2>1. /\ waiting # NoEvent /\ waiting \in Events /\ waiting' = NoEvent
        /\ queue' = queue /\ queue \in Seq(Events) /\ UNCHANGED watch
        /\ run[Uid(waiting)] = "sending"
        /\ Start(waiting, [run EXCEPT ![Uid(waiting)] = "ended"])
    BY <1>2 DEF Join, TypeOK
  <2>2. Pending' = queue
    BY <2>1 DEF Pending
  <2>3. Takes(waiting)
    BY <2>1, <2>2, PendingType, LenProperties DEF Takes
  <2>4. Uid(waiting) \in Uids
    BY <2>1 DEF Uid, Uids, Events
  <2>5. waiting.type # "tombstone" /\ Uid(waiting) \in operating
    BY <2>1, <2>4 DEF EntryInv
  <2>6. \A v \in Uids : run[v] = "sending" \/ (Live(v) /\ v \in cancelled)
                            => v = Uid(waiting)
    BY DEF EntryInv
  <2> QED  BY <2>1, <2>3, <2>4, <2>5, <2>6
           DEF Handles, Start, Starts, Live, TypeOK
<1> QED  BY <1>1, <1>2

-----------------------------------------------------------------------------
(* The invariants that hold with an interrupted watch, too.                *)

TableInv == TypeOK /\ EntryInv /\ WatchInv /\ MatchInv

(* HasOwnership decides as documented.                                     *)
LEMMA OwnershipIsDocumented ==
    \A a \in Annotations : HasOwnership(a) <=> Owned(a)
BY IDAssumption DEF HasOwnership, Owned

(* Goroutines that run have an entry in the table, after every step.       *)
LEMMA EntryStep == TypeOK /\ EntryInv /\ [TableNext]_vars => EntryInv'
<1> SUFFICES ASSUME TypeOK, EntryInv, [TableNext]_vars PROVE EntryInv'
  OBVIOUS
<1> USE DEF EntryInv, Live
<1>1. CASE OperateNew \/ Join
  <2>1. PICK e \in Events : Handles(e)
    BY <1>1, HandlerHandles
  <2> QED  BY <2>1 DEF Handles
<1>2. CASE CancelOperation
  <2>1. waiting' # NoEvent /\ waiting' \in Events
    BY <1>2, PendingCancelled
  <2>2. Uid(waiting)' = Uid(Head(queue))
    BY <1>2 DEF CancelOperation, Uid
  <2> QED  BY <1>2, <2>1, <2>2 DEF CancelOperation
<1>3. CASE IgnoreTombstone
  BY <1>3 DEF IgnoreTombstone, Uid
<1>4. ASSUME NEW u \in Uids, Loop(u)
      PROVE  EntryInv'
  BY <1>4 DEF Loop, StartPass, FinishPass, Stop, Uid, TypeOK
<1>5. CASE Crash
  BY <1>5 DEF Crash
<1>6. CASE Relist \/ Disconnect
  BY <1>6 DEF Relist, Disconnect, Uid
<1>7. CASE Outside
  <2>1. PICK n \in Names, new \in Objects, e \in Events : Changes(n, new, e)
    BY <1>7, OutsideChanges
  <2>2. UNCHANGED <<waiting, operating, run, cancelled>>
    BY <2>1 DEF Changes, Write
  <2> QED  BY <2>2 DEF Uid
<1>8. CASE UNCHANGED vars
  BY <1>8 DEF vars, Uid
<1> QED
  BY <1>1, <1>2, <1>3, <1>4, <1>5, <1>6, <1>7, <1>8 DEF TableNext, Next, Handler

(* Steps that leave watch, pending events and life of the loops alone.     *)
LEMMA QuietStep ==
    ASSUME TypeOK, WatchInv, MatchInv, Same, UNCHANGED <<api, known, dirty>>,
           connected' => connected,
           \A u \in Uids : ~HasPending(u[1]) => (Live(u)' <=> Live(u))
    PROVE  WatchInv' /\ MatchInv'
<1>1. Positions' = Positions /\ \A i \in Positions : Pending'[i] = Pending[i]
  BY DEF Same, Positions
<1>2. \A i \in Positions : LastOf(i)' <=> LastOf(i)
  BY <1>1 DEF LastOf
<1>3. \A n \in Names : HasPending(n)' <=> HasPending(n)
  BY <1>1 DEF HasPending
<1>4. WatchInv'
  BY <1>1, <1>2 DEF WatchInv
<1>5. \A n \in Names : api[n].uid # NoUid => <<n, api[n].uid>> \in Uids
  BY MaxUidAssumption DEF TypeOK, Objects, Uids, NoUid
<1>6. MatchInv'
  BY <1>3, <1>5 DEF MatchInv
<1> QED  BY <1>4, <1>6

(* After every step what the informer knows, the events to come and the    *)
(* loops still fit together.                                               *)
LEMMA WatchStep == TableInv /\ [TableNext]_vars => WatchInv' /\ MatchInv'
<1> SUFFICES ASSUME TypeOK, EntryInv, WatchInv, MatchInv, [TableNext]_vars
             PROVE  WatchInv' /\ MatchInv'
  BY DEF TableInv
<1>a. Len(Pending) \in Nat /\ \A i \in Positions : Pending[i] \in Events
  BY PendingType
<1>b. \A e \in Events : /\ e.name \in Names /\ e.uid \in 1 .. MaxUid
                        /\ e.owner \in Annotations /\ e.uid # NoUid
  BY MaxUidAssumption DEF Events, NoUid
<1>1. CASE OperateNew \/ Join
  <2>1. PICK e \in Events : Handles(e)
    BY <1>1, HandlerHandles
  <2>2. /\ Len(Pending) > 0 /\ Pending[1] = e
        /\ Len(Pending') = Len(Pending) - 1
        /\ \A i \in 1 .. Len(Pending) - 1 : Pending'[i] = Pending[i + 1]
    BY <2>1 DEF Handles, Takes
  <2>3. UNCHANGED <<api, known, connected, dirty>>
    BY <2>1 DEF Handles, watch
  <2>4. WatchInv'
    <3>1. \A i \in Positions' : LastOf(i)' => LastOf(i + 1)
      BY <2>1, TakesLast DEF Handles
    <3> QED  BY <1>a, <2>2, <2>3, <3>1 DEF WatchInv, Positions
  <2>5. ASSUME NEW n \in Names, n \notin dirty, ~HasPending(n)', api[n].uid # NoUid
        PROVE  Live(<<n, api[n].uid>>)' <=> Owned(api[n].owner)
    <3>1. <<n, api[n].uid>> \in Uids
      BY <2>5, MaxUidAssumption DEF TypeOK, Objects, Uids, NoUid
    <3>2. CASE n = e.name
      <4>1. LastOf(1) /\ 1 \in Positions
        <5>1. \A j \in Positions : j > 1 => Pending[j].name # n
          <6> TAKE j \in Positions
          <6> HAVE j > 1
          <6>1. j - 1 \in Positions' /\ Pending'[j - 1] = Pending[j]
            BY <1>a, <2>2 DEF Positions
          <6> QED  BY <2>5, <6>1 DEF HasPending
        <5> QED  BY <1>a, <2>2, <3>2, <5>1 DEF LastOf, Positions
      <4>2. ~Goes(e) /\ e.uid = api[n].uid /\ e.owner = api[n].owner
        BY <2>2, <2>5, <3>2, <4>1 DEF WatchInv
      <4>3. Starts(e) <=> Owned(api[n].owner)
        BY <1>b, <4>2, OwnershipIsDocumented DEF Starts, Goes
      <4> QED  BY <2>1, <2>3, <3>2, <4>2, <4>3 DEF Handles, Live, Uid
    <3>3. CASE n # e.name
      <4>1. ~HasPending(n)
        <5> SUFFICES ASSUME NEW j \in Positions PROVE Pending[j].name # n
          BY DEF HasPending
        <5>1. CASE j = 1
          BY <2>2, <3>3, <5>1
        <5>2. CASE j # 1
          <6>1. j - 1 \in Positions' /\ Pending'[j - 1] = Pending[j]
            BY <1>a, <2>2, <5>2 DEF Positions
          <6> QED  BY <2>5, <6>1 DEF HasPending
        <5> QED  BY <5>1, <5>2
      <4>2. run'[<<n, api[n].uid>>] = run[<<n, api[n].uid>>]
        BY <2>1, <3>1, <3>3 DEF Handles, Uid
      <4> QED  BY <2>3, <2>5, <4>1, <4>2 DEF MatchInv, Live
    <3> QED  BY <3>2, <3>3
  <2> QED  BY <2>3, <2>4, <2>5 DEF MatchInv
<1>2. CASE CancelOperation
  <2>1. Same
    BY <1>2, PendingCancelled
  <2> QED  BY <1>2, <2>1, QuietStep DEF CancelOperation, watch, Live
<1>3. CASE IgnoreTombstone
  <2>1. PICK e \in Events : Takes(e) /\ e.type = "tombstone"
    BY <1>3, PendingIgnored
  <2>2. /\ Len(Pending) > 0 /\ Pending[1] = e
        /\ Len(Pending') = Len(Pending) - 1
        /\ \A i \in 1 .. Len(Pending) - 1 : Pending'[i] = Pending[i + 1]
    BY <2>1 DEF Takes
  <2>3. UNCHANGED <<api, known, connected, dirty, run>>
    BY <1>3 DEF IgnoreTombstone, watch
  <2>4. WatchInv'
    <3>1. \A i \in Positions' : LastOf(i)' => LastOf(i + 1)
      BY <2>1, TakesLast
    <3> QED  BY <1>a, <2>2, <2>3, <3>1 DEF WatchInv, Positions
  <2>5. ASSUME NEW n \in Names, n \notin dirty, ~HasPending(n)', api[n].uid # NoUid
        PROVE  ~HasPending(n)
    <3>1. \A j \in Positions : j > 1 => Pending[j].name # n
      <4> TAKE j \in Positions
      <4> HAVE j > 1
      <4>1. j - 1 \in Positions' /\ Pending'[j - 1] = Pending[j]
        BY <1>a, <2>2 DEF Positions
      <4> QED  BY <2>5, <4>1 DEF HasPending
    <3>2. CASE e.name = n
      <4>1. LastOf(1) /\ 1 \in Positions
        BY <1>a, <2>2, <3>1, <3>2 DEF LastOf, Positions
      <4> QED  BY <2>1, <2>2, <2>5, <3>2, <4>1 DEF WatchInv, Goes
    <3> QED  BY <1>a, <2>2, <3>1, <3>2 DEF HasPending, Positions
  <2> QED  BY <2>3, <2>4, <2>5 DEF MatchInv, Live
<1>4. ASSUME NEW u \in Uids, Loop(u)
      PROVE  WatchInv' /\ MatchInv'
  <2>1. Same /\ UNCHANGED <<api, known, dirty, connected>>
    BY <1>4, PendingSame DEF Loop, StartPass, FinishPass, Stop, watch
  <2>2. Stop(u) => HasPending(u[1])
    <3> HAVE Stop(u)
    <3>1. waiting # NoEvent /\ Uid(waiting) = u
      BY DEF Stop, EntryInv, Live
    <3>2. 1 \in Positions /\ Pending[1] = waiting
      BY <3>1, <1>a, PendingType DEF TypeOK, Positions
    <3> QED  BY <3>1, <3>2 DEF HasPending, Uid
  <2>3. \A v \in Uids : ~HasPending(v[1]) => (Live(v)' <=> Live(v))
    BY <1>4, <2>2 DEF Loop, StartPass, FinishPass, Stop, Live, TypeOK
  <2> QED  BY <2>1, <2>3, QuietStep
<1>5. CASE Crash
  <2> DEFINE S == {n \in Names : api[n].uid # NoUid}
  <2>1. queue' \in Seq(Events) /\ Reports(S, queue')
    BY <1>5, CrashReports
  <2>2. Pending' = queue' /\ api' = api /\ dirty' = {}
        /\ known' = [n \in Names |-> api[n].uid]
    BY <1>5 DEF Crash, Pending
  <2>3. WatchInv'
    BY <2>1, <2>2 DEF Reports, WatchInv, Positions, Goes
  <2>4. \A n \in S : HasPending(n)'
    BY <2>1, <2>2 DEF Reports, HasPending, Positions
  <2> QED  BY <2>2, <2>3, <2>4 DEF MatchInv
<1>6. CASE Disconnect
  <2>1. Same
    BY <1>6, PendingSame DEF Disconnect
  <2> QED  BY <1>6, <2>1, QuietStep DEF Disconnect, Live
<1>7. CASE Relist
  <2> DEFINE S == {n \in dirty : {api[n].uid, known[n]} # {NoUid}}
  <2>1. PICK news \in Seq(Events) : Reports(S, news) /\ queue' = queue \o news
    BY <1>7, RelistReports
  <2>2. Grows(news)
    BY <1>7, <2>1, PendingReported DEF Relist
  <2>3. /\ UNCHANGED <<api, run>> /\ dirty' = {} /\ connected'
        /\ known' = [n \in Names |-> api[n].uid]
    BY <1>7 DEF Relist
  <2>4. Len(news) \in Nat /\ Positions' = 1 .. Len(Pending) + Len(news)
        /\ \A i \in 1 .. Len(news) : news[i] \in Events
    BY <2>1, <2>2, ElementOfSeq, LenProperties DEF Grows, Positions
  <2>5. \A n \in S : \E i \in 1 .. Len(news) : news[i].name = n
    BY <2>1 DEF Reports
  <2>6. ASSUME NEW i \in Positions', LastOf(i)'
        PROVE  LET e == Pending'[i]
               IN  /\ known'[e.name] = IF Goes(e) THEN NoUid ELSE e.uid
                   /\ ~Goes(e) => e.owner = api[e.name].owner
    <3>1. CASE i \in Positions
      <4>1. Pending'[i] = Pending[i] /\ Pending[i].name \in Names
        BY <1>a, <1>b, <2>2, <3>1 DEF Grows
      <4>2. LastOf(i)
        BY <1>a, <2>2, <2>4, <2>6, <3>1 DEF LastOf, Grows, Positions
      <4>3. Pending[i].name \notin S
        <5> SUFFICES ASSUME Pending[i].name \in S PROVE FALSE
          OBVIOUS
        <5> HIDE DEF S
        <5>1. PICK j \in 1 .. Len(news) : news[j].name = Pending[i].name
          BY <2>5
        <5>2. Len(Pending) + j \in Positions' /\ Len(Pending) + j > i
              /\ Pending'[Len(Pending) + j] = news[j]
          BY <1>a, <2>2, <2>4, <3>1 DEF Grows, Positions
        <5> QED  BY <2>6, <4>1, <5>1, <5>2 DEF LastOf
      <4>4. CASE Pending[i].name \in dirty
        <5>1. /\ api[Pending[i].name].uid = NoUid
              /\ known[Pending[i].name] = NoUid
          BY <4>3, <4>4
        <5> QED  BY <1>a, <1>b, <2>3, <3>1, <4>1, <4>2, <5>1 DEF WatchInv
      <4>5. CASE Pending[i].name \notin dirty
        BY <2>3, <3>1, <4>1, <4>2, <4>5 DEF WatchInv
      <4> QED  BY <4>4, <4>5
    <3>2. CASE i \notin Positions
      <4>1. i - Len(Pending) \in 1 .. Len(news)
            /\ Pending'[i] = news[i - Len(Pending)]
        BY <1>a, <2>2, <2>4, <3>2 DEF Grows, Positions
      <4> QED  BY <1>b, <2>1, <2>3, <2>4, <4>1 DEF Reports, Goes
    <3> QED  BY <3>1, <3>2
  <2>7. WatchInv'
    BY <2>3, <2>6 DEF WatchInv
  <2>8. ASSUME NEW n \in Names, ~HasPending(n)', api[n].uid # NoUid
        PROVE  n \notin dirty /\ ~HasPending(n)
    <3>1. n \notin S
      <4> SUFFICES ASSUME n \in S PROVE FALSE
        OBVIOUS
      <4> HIDE DEF S
      <4>1. PICK j \in 1 .. Len(news) : news[j].name = n
        BY <2>5
      <4>2. Len(Pending) + j \in Positions'
            /\ Pending'[Len(Pending) + j] = news[j]
        BY <1>a, <2>2, <2>4 DEF Grows, Positions
      <4> QED  BY <2>8, <4>1, <4>2 DEF HasPending
    <3>2. ~HasPending(n)
      BY <1>a, <2>2, <2>4, <2>8 DEF HasPending, Grows, Positions
    <3> QED  BY <2>8, <3>1, <3>2
  <2> QED  BY <2>3, <2>7, <2>8 DEF MatchInv, Live
<1>8. CASE Outside
  <2>1. PICK n \in Names, new \in Objects, e \in Events : Changes(n, new, e)
    BY <1>8, OutsideChanges
  <2>2. /\ api' = [api EXCEPT ![n] = new] /\ UNCHANGED <<connected, run, waiting>>
    BY <2>1 DEF Changes, Write
  <2>3. CASE connected
    <3>1. /\ queue' = Append(queue, e) /\ known' = [known EXCEPT ![n] = new.uid]
          /\ dirty' = dirty /\ dirty = {}
      BY <2>1, <2>3 DEF Changes, Write, WatchInv
    <3>2. Grows(<<e>>)
      BY <2>2, <3>1, PendingSent
    <3>3. /\ Positions' = 1 .. Len(Pending) + 1
          /\ \A i \in Positions : Pending'[i] = Pending[i]
          /\ Pending'[Len(Pending) + 1] = e
      BY <1>a, <3>2 DEF Grows, Positions
    <3>4. /\ e.name = n /\ new.uid = IF Goes(e) THEN NoUid ELSE e.uid
          /\ ~Goes(e) => e.owner = new.owner
      BY <2>1 DEF Changes, Goes
    <3>5. ASSUME NEW i \in Positions', LastOf(i)'
          PROVE  LET f == Pending'[i]
                 IN  /\ known'[f.name] = IF Goes(f) THEN NoUid ELSE f.uid
                     /\ ~Goes(f) => f.owner = api'[f.name].owner
      <4>1. CASE i \in Positions
        <5>1. LastOf(i) /\ Pending[i].name # n
          BY <1>a, <3>3, <3>4, <3>5, <4>1 DEF LastOf, Positions
        <5> QED  BY <1>a, <1>b, <2>2, <3>1, <3>3, <4>1, <5>1
                 DEF WatchInv, TypeOK
      <4>2. CASE i \notin Positions
        <5>1. Pending'[i] = e
          BY <1>a, <3>3, <4>2 DEF Positions
        <5> QED  BY <2>2, <3>1, <3>4, <5>1 DEF TypeOK
      <4> QED  BY <4>1, <4>2
    <3>6. \A m \in Names : known'[m] = api'[m].uid
      BY <2>2, <3>1 DEF WatchInv, TypeOK
    <3>7. WatchInv'
      BY <3>1, <3>5, <3>6 DEF WatchInv
    <3>8. HasPending(n)' /\ \A m \in Names : HasPending(m) => HasPending(m)'
      BY <1>a, <3>3, <3>4 DEF HasPending, Positions
    <3>9. \A m \in Names : m # n => api'[m] = api[m]
      BY <2>2
    <3>10. MatchInv'
      BY <2>2, <3>1, <3>8, <3>9 DEF MatchInv, Live
    <3> QED  BY <3>7, <3>10
  <2>4. CASE ~connected
    <3>1. UNCHANGED <<queue, known>> /\ dirty' = dirty \cup {n}
      BY <2>1, <2>4 DEF Changes, Write
    <3>2. Same
      BY <2>2, <3>1, PendingSame
    <3>3. Positions' = Positions /\ \A i \in Positions : Pending'[i] = Pending[i]
      BY <3>2 DEF Same, Positions
    <3>4. \A i \in Positions : LastOf(i)' <=> LastOf(i)
      BY <3>3 DEF LastOf
    <3>5. \A m \in Names : HasPending(m)' <=> HasPending(m)
      BY <3>3 DEF HasPending
    <3>6. \A m \in Names : m # n => api'[m] = api[m]
      BY <2>2
    <3>7. WatchInv'
      BY <1>a, <1>b, <2>2, <2>4, <3>1, <3>3, <3>4, <3>6 DEF WatchInv
    <3>8. MatchInv'
      BY <2>2, <3>1, <3>5, <3>6 DEF MatchInv, Live
    <3> QED  BY <3>7, <3>8
  <2> QED  BY <2>3, <2>4
<1>9. CASE UNCHANGED vars
  <2>1. Same
    BY <1>9, PendingSame DEF vars
  <2> QED  BY <1>9, <2>1, QuietStep DEF vars, watch, Live
<1> QED
  BY <1>1, <1>2, <1>3, <1>4, <1>5, <1>6, <1>7, <1>8, <1>9
     DEF TableNext, Next, Handler

(* The table's invariants hold in every state, with all interruptions of   *)
(* the watch.                                                              *)
LEMMA TableInvCorrect == Init /\ [][TableNext]_vars => []TableInv
<1>1. Init => TableInv
  <2> SUFFICES ASSUME Init PROVE TableInv
    OBVIOUS
  <2>1. TypeOK
    BY InitType
  <2>2. Pending = <<>> /\ Len(Pending) = 0 /\ Positions = {}
    BY DEF Init, Pending, Positions
  <2>3. \A n \in Names : api[n].uid = NoUid
    BY DEF Init
  <2>4. EntryInv
    BY DEF Init, EntryInv, Live
  <2>5. WatchInv
    BY <2>2, <2>3 DEF Init, WatchInv
  <2>6. MatchInv
    BY <2>3 DEF MatchInv
  <2> QED  BY <2>1, <2>4, <2>5, <2>6 DEF TableInv
<1>2. TableInv /\ [TableNext]_vars => TableInv'
  BY TypeStep, EntryStep, WatchStep DEF TableInv
<1> QED  BY <1>1, <1>2, PTL

-----------------------------------------------------------------------------
(* The order of events and UIDs while the watch is not interrupted.        *)

OrderedInv == UidInv /\ OrderInv /\ GoneInv /\ LoopInv /\ NewestInv

(* Where a deletion is after a step.                                       *)
LEMMA DeletedSame ==
    ASSUME TypeOK, Same, NEW n, NEW k, NEW from \in Nat \ {0}, NEW to \in Int,
           to <= Len(Pending)
    PROVE  Deleted(n, k, from, to)' <=> Deleted(n, k, from, to)
<1>1. \A m \in from .. to : Pending'[m] = Pending[m]
  BY PendingType DEF Same, Positions
<1> QED  BY <1>1 DEF Deleted

(* Events that come in do not change what the earlier ones delete,         *)
LEMMA DeletedGrows ==
    ASSUME TypeOK, NEW news, Grows(news),
           NEW n, NEW k, NEW from \in Nat \ {0}, NEW to \in Int,
           to <= Len(Pending)
    PROVE  Deleted(n, k, from, to)' <=> Deleted(n, k, from, to)
<1>1. \A m \in from .. to : Pending'[m] = Pending[m]
  BY PendingType DEF Grows, Positions
<1> QED  BY <1>1 DEF Deleted

(* and an event that is handled moves the others up.                       *)
LEMMA DeletedTakes ==
    ASSUME TypeOK, NEW e, Takes(e),
           NEW n, NEW k, NEW from \in Nat \ {0}, NEW to \in Int,
           to < Len(Pending)
    PROVE  Deleted(n, k, from, to)' <=> Deleted(n, k, from + 1, to + 1)
<1>1. Len(Pending) \in Nat
  BY PendingType
<1>2. \A m \in from .. to : /\ Pending'[m] = Pending[m + 1]
                            /\ m + 1 \in (from + 1) .. (to + 1)
  BY <1>1 DEF Takes
<1>3. \A m \in (from + 1) .. (to + 1) :
         m - 1 \in from .. to /\ Pending'[m - 1] = Pending[m]
  <2> TAKE m \in (from + 1) .. (to + 1)
  <2>1. m - 1 \in from .. to /\ (m - 1) + 1 = m
    OBVIOUS
  <2> QED  BY <1>2, <2>1
<1> QED  BY <1>2, <1>3 DEF Deleted

(* Steps that leave pending events and running loops alone.                *)
LEMMA SteadyStep ==
    ASSUME TypeOK, OrderedInv, Same,
           UNCHANGED <<api, created, connected, dirty, operating>>,
           \A u \in Uids : Running(u)' <=> Running(u)
    PROVE  OrderedInv'
<1> USE DEF OrderedInv
<1>1. Len(Pending) \in Nat /\ Positions = 1 .. Len(Pending)
      /\ Positions' = Positions /\ Len(Pending') = Len(Pending)
      /\ \A i \in Positions : Pending'[i] = Pending[i]
  BY PendingType DEF Same, Positions
<1>2. ASSUME NEW n, NEW k, NEW from \in Positions, NEW to \in Int,
             to <= Len(Pending)
      PROVE  Deleted(n, k, from, to)' <=> Deleted(n, k, from, to)
  BY <1>1, <1>2, DeletedSame
<1>3. UidInv'
  BY <1>1 DEF UidInv
<1>4. OrderInv'
  BY <1>1, <1>2 DEF OrderInv
<1>5. GoneInv'
  BY <1>1, <1>2 DEF GoneInv
<1>6. LoopInv'
  BY <1>1, DeletedSame DEF LoopInv
<1>7. NewestInv'
  BY <1>1 DEF NewestInv
<1> QED  BY <1>3, <1>4, <1>5, <1>6, <1>7

(* The first event is handled: a loop for its EDS is started only when no  *)
(* other loop of the name runs.                                            *)
LEMMA HandlesStep ==
    ASSUME TypeOK, OrderedInv, NEW e \in Events, Handles(e)
    PROVE  OrderedInv'
<1> USE DEF OrderedInv
<1>1. /\ Len(Pending) \in Nat /\ Len(Pending) > 0 /\ Pending[1] = e
      /\ Len(Pending') = Len(Pending) - 1
      /\ Positions = 1 .. Len(Pending) /\ Positions' = 1 .. (Len(Pending) - 1)
      /\ Takes(e)
  BY PendingType DEF Handles, Takes, Positions
<1>2. \A i \in Positions' : /\ Pending'[i] = Pending[i + 1]
                            /\ i + 1 \in Positions /\ i + 1 > 1
  BY <1>1 DEF Takes
<1>3. UNCHANGED <<api, created, connected, dirty>>
  BY DEF Handles, watch
<1>4. /\ Uid(e) \in Uids /\ Uid(e) = <<e.name, e.uid>>
      /\ Uid(e)[1] = e.name /\ Uid(e)[2] = e.uid
      /\ e.name \in Names /\ e.uid \in 1 .. MaxUid
  BY DEF Handles, Uid, Events
<1>5. \A i \in Positions : Pending[i] \in Events /\ Pending[i].uid \in Nat
  BY PendingType, MaxUidAssumption DEF Events
<1>6. \A u \in Uids : u = <<u[1], u[2]>> /\ u[1] \in Names /\ u[2] \in Nat
  BY MaxUidAssumption DEF Uids
<1>7. \A u \in operating' : u \in operating \/ u = Uid(e)
  BY DEF Handles
<1>8. \A u \in Uids : Running(u)' => \/ u # Uid(e) /\ Running(u)
                                     \/ u = Uid(e) /\ e.type # "delete"
  BY DEF Handles, Running, Starts
<1>9. \A v \in Uids : Running(v) /\ v[1] = e.name => v = Uid(e)
  <2> TAKE v \in Uids
  <2> HAVE Running(v) /\ v[1] = e.name
  <2>1. ~Deleted(v[1], v[2], 1, 1 - 1)
    BY DEF Deleted
  <2>2. Pending[1].uid = v[2]
    BY <1>1, <2>1 DEF LoopInv
  <2> QED  BY <1>1, <1>4, <1>6, <2>2
<1>10. ASSUME NEW n, NEW k, NEW to \in Int, to < Len(Pending),
              Deleted(n, k, 1, to + 1), <<n, k>> # Uid(e) \/ e.type # "delete"
       PROVE  Deleted(n, k, 1, to)'
  <2>1. PICK m \in 1 .. (to + 1) : /\ Pending[m].type = "delete"
                                   /\ Pending[m].name = n /\ Pending[m].uid = k
    BY <1>10 DEF Deleted
  <2>2. m # 1
    BY <1>1, <1>4, <1>10, <2>1
  <2>3. m \in (1 + 1) .. (to + 1)
    BY <2>1, <2>2
  <2>4. Deleted(n, k, 1 + 1, to + 1)
    BY <2>1, <2>3 DEF Deleted
  <2> QED  BY <1>1, <1>10, <2>4, DeletedTakes
<1>11. UidInv'
  BY <1>1, <1>2, <1>3, <1>4, <1>7 DEF UidInv
<1>12. ASSUME NEW n, NEW k, NEW from \in Positions', NEW to \in Int,
              to < Len(Pending)
       PROVE  Deleted(n, k, from, to)' <=> Deleted(n, k, from + 1, to + 1)
  BY <1>1, <1>12, DeletedTakes
<1>13. OrderInv'
  <2> SUFFICES ASSUME NEW i \in Positions', NEW j \in Positions', i < j,
                      Pending'[i].name = Pending'[j].name,
                      NEW n, n = Pending'[i].name, NEW k, k = Pending'[i].uid
               PROVE  \/ k = Pending'[j].uid /\ Pending'[i].type # "delete"
                      \/ k < Pending'[j].uid /\ Deleted(n, k, i, j - 1)'
    BY DEF OrderInv
  <2>1. /\ i + 1 < j + 1 /\ i + 1 \in Positions /\ j + 1 \in Positions
        /\ Pending'[i] = Pending[i + 1] /\ Pending'[j] = Pending[j + 1]
        /\ j - 1 \in Int /\ j - 1 < Len(Pending)
        /\ (j + 1) - 1 = j /\ (j - 1) + 1 = j
    BY <1>1, <1>2
  <2>2. \/ k = Pending[j + 1].uid /\ Pending[i + 1].type # "delete"
        \/ k < Pending[j + 1].uid /\ Deleted(n, k, i + 1, j)
    BY <2>1 DEF OrderInv
  <2>3. Deleted(n, k, i, j - 1)' <=> Deleted(n, k, i + 1, j)
    BY <1>12, <2>1
  <2> QED  BY <2>1, <2>2, <2>3
<1>14. GoneInv'
  <2> SUFFICES ASSUME NEW i \in Positions',
                      NEW n, n = Pending'[i].name, NEW k, k = Pending'[i].uid,
                      NEW len, len = Len(Pending')
               PROVE  IF k = api[n].uid
                      THEN Pending'[i].type # "delete"
                      ELSE Deleted(n, k, i, len)'
    BY <1>3 DEF GoneInv
  <2>1. /\ i + 1 \in Positions /\ Pending'[i] = Pending[i + 1]
        /\ len \in Int /\ len < Len(Pending) /\ len + 1 = Len(Pending)
    BY <1>1, <1>2
  <2>2. IF k = api[n].uid THEN Pending'[i].type # "delete"
        ELSE Deleted(n, k, i + 1, Len(Pending))
    BY <2>1 DEF GoneInv
  <2>3. Deleted(n, k, i, len)' <=> Deleted(n, k, i + 1, Len(Pending))
    BY <1>12, <2>1
  <2> QED  BY <2>2, <2>3
<1>15. LoopInv'
  <2> SUFFICES ASSUME NEW u \in Uids, Running(u)',
                      NEW len, len = Len(Pending')
               PROVE  /\ \A j \in Positions' : Pending'[j].name = u[1] =>
                            \/ Pending'[j].uid = u[2]
                            \/ /\ Pending'[j].uid > u[2]
                               /\ Deleted(u[1], u[2], 1, j - 1)'
                      /\ u[2] # api[u[1]].uid => Deleted(u[1], u[2], 1, len)'
                      /\ \A v \in Uids : Running(v)' /\ v[1] = u[1] => v = u
    BY <1>3 DEF LoopInv
  <2>a. u = <<u[1], u[2]>> /\ u[2] \in Nat
    BY <1>6
  <2>b. <<u[1], u[2]>> # Uid(e) \/ e.type # "delete"
    BY <1>8, <2>a
  <2>1. ASSUME NEW j \in Positions', Pending'[j].name = u[1],
               Pending'[j].uid # u[2]
        PROVE  Pending'[j].uid > u[2] /\ Deleted(u[1], u[2], 1, j - 1)'
    <3>1. /\ j + 1 \in Positions /\ Pending'[j] = Pending[j + 1]
          /\ j - 1 \in Int /\ j - 1 < Len(Pending) /\ (j - 1) + 1 = j
          /\ (j + 1) - 1 = j /\ 1 < j + 1 /\ 1 \in Positions
      BY <1>1, <1>2
    <3>2. Pending[j + 1].uid > u[2] /\ Deleted(u[1], u[2], 1, j)
      <4>1. CASE u # Uid(e)
        BY <1>8, <2>1, <3>1, <4>1 DEF LoopInv
      <4>2. CASE u = Uid(e)
        BY <1>1, <1>4, <1>5, <2>1, <3>1, <4>2 DEF OrderInv
      <4> QED  BY <4>1, <4>2
    <3> QED  BY <1>10, <2>b, <3>1, <3>2
  <2>2. ASSUME u[2] # api[u[1]].uid
        PROVE  Deleted(u[1], u[2], 1, len)'
    <3>1. len \in Int /\ len < Len(Pending) /\ len + 1 = Len(Pending)
          /\ 1 \in Positions
      BY <1>1
    <3>2. Deleted(u[1], u[2], 1, Len(Pending))
      <4>1. CASE u # Uid(e)
        BY <1>8, <2>2, <4>1 DEF LoopInv
      <4>2. CASE u = Uid(e)
        BY <1>1, <1>4, <2>2, <3>1, <4>2 DEF GoneInv
      <4> QED  BY <4>1, <4>2
    <3> QED  BY <1>10, <2>b, <3>1, <3>2
  <2>3. ASSUME NEW v \in Uids, Running(v)', v[1] = u[1]
        PROVE  v = u
    BY <1>4, <1>8, <1>9, <2>3 DEF LoopInv
  <2> QED  BY <2>1, <2>2, <2>3
<1>16. NewestInv'
  <2>1. ASSUME NEW n \in Names
        PROVE  \E k \in 0 .. MaxUid :
                  /\ k = 0 \/ <<n, k>> \in operating'
                  /\ \A u \in operating' : u[1] = n => u[2] <= k
    <3>1. CASE operating' = operating \/ n # e.name
      BY <1>4, <1>7, <3>1 DEF NewestInv, Handles
    <3>2. CASE operating' # operating /\ n = e.name
      <4>1. <<n, e.uid>> \in operating' /\ e.uid \in 0 .. MaxUid
        BY <1>4, <3>2, MaxUidAssumption DEF Handles
      <4>2. \A u \in operating : u[1] = n => u[2] <= e.uid
        BY <1>1, <3>2 DEF NewestInv
      <4> QED  BY <1>4, <1>7, <4>1, <4>2
    <3> QED  BY <3>1, <3>2
  <2>2. ASSUME NEW i \in Positions', NEW u \in operating',
               Pending'[i].name = u[1], u[1] \in Names
        PROVE  u[2] <= Pending'[i].uid
    <3>1. i + 1 \in Positions /\ Pending'[i] = Pending[i + 1]
          /\ 1 \in Positions /\ 1 < i + 1
      BY <1>1, <1>2
    <3>2. CASE u \in operating
      BY <2>2, <3>1, <3>2 DEF NewestInv
    <3>3. CASE u = Uid(e)
      BY <1>1, <1>4, <1>5, <2>2, <3>1, <3>3 DEF OrderInv
    <3> QED  BY <1>7, <3>2, <3>3
  <2> QED  BY <2>1, <2>2 DEF NewestInv
<1> QED  BY <1>11, <1>13, <1>14, <1>15, <1>16

(* A write of an EDS sends an event for the current or a new UID.          *)
LEMMA ChangesStep ==
    ASSUME TypeOK, EntryInv, OrderedInv, NEW n \in Names, NEW new \in Objects,
           NEW e \in Events, Changes(n, new, e)
    PROVE  OrderedInv'
<1> USE MaxUidAssumption DEF OrderedInv, NoUid
<1>0. PICK L \in Nat : L = Len(Pending) + 1
  BY PendingType
<1>1. /\ api' = [api EXCEPT ![n] = new] /\ queue' = Append(queue, e)
      /\ UNCHANGED <<connected, dirty, waiting, operating, run>>
      /\ connected /\ dirty = {}
  BY DEF Changes, Write, UidInv
<1>2. Grows(<<e>>)
  BY <1>1, PendingSent
<1>3. /\ Len(Pending) \in Nat /\ Len(Pending') = L
      /\ Positions = 1 .. Len(Pending) /\ Positions' = 1 .. L
      /\ \A i \in Positions : Pending'[i] = Pending[i]
      /\ Pending'[L] = e
  BY <1>0, <1>2, PendingType DEF Grows, Positions
<1>4. /\ api[n].uid \in {0, created[n]} /\ created[n] \in Nat /\ e.name = n
      /\ e.uid \in Nat \ {0} /\ new.uid \in Nat
      /\ created'[n] \in {created[n], created[n] + 1}
      /\ \A m \in Names : m # n => api'[m] = api[m] /\ created'[m] = created[m]
      /\ api'[n] = new
  BY <1>1 DEF Changes, UidInv, TypeOK, Events, Objects
<1>5. /\ e.uid <= created'[n] /\ new.uid \in {0, created'[n]}
      /\ e.type # "tombstone"
      /\ IF e.type = "delete" THEN new.uid = 0 ELSE e.uid = new.uid
  BY <1>4 DEF Changes, TypeOK
<1>6. ASSUME NEW k \in 1 .. created[n]
      PROVE  /\ \/ k = e.uid /\ k = api[n].uid
                \/ k < e.uid /\ k # api[n].uid
             /\ k = new.uid => k = api[n].uid
             /\ k # new.uid => k # api[n].uid \/ (e.type = "delete" /\ k = e.uid)
  BY <1>4 DEF Changes
<1>7. \A i \in Positions : /\ Pending[i].name \in Names /\ Pending[i].uid \in Nat
                           /\ Pending[i].uid \in 1 .. created[Pending[i].name]
  <2> TAKE i \in Positions
  <2>1. Pending[i] \in Events
    BY PendingType
  <2>2. Pending[i].name \in Names /\ Pending[i].uid \in 1 .. MaxUid
    BY <2>1 DEF Events
  <2>3. created[Pending[i].name] \in 0 .. MaxUid
    BY <2>2 DEF TypeOK
  <2> QED  BY <2>2, <2>3 DEF UidInv
<1>8. \A u \in operating : u[1] \in Names /\ u[2] \in 1 .. created[u[1]]
  BY DEF UidInv, TypeOK, Uids
<1>9. \A u \in Uids : (Running(u)' <=> Running(u))
                      /\ (Running(u) => u \in operating)
  BY <1>1 DEF Running, EntryInv
<1>10. ASSUME NEW m, NEW k, NEW from \in 1 .. L, NEW to \in Int, to < L
       PROVE  Deleted(m, k, from, to)' <=> Deleted(m, k, from, to)
  BY <1>0, <1>2, <1>3, <1>10, DeletedGrows
<1>11. ASSUME NEW m, NEW k, NEW from \in 1 .. L,
              \/ Deleted(m, k, from, Len(Pending))
              \/ e.type = "delete" /\ m = n /\ k = e.uid
       PROVE  Deleted(m, k, from, L)'
  <2>1. CASE Deleted(m, k, from, Len(Pending))
    <3>1. PICK i \in from .. Len(Pending) :
             Pending[i].type = "delete" /\ Pending[i].name = m /\ Pending[i].uid = k
      BY <2>1 DEF Deleted
    <3>2. i \in from .. L /\ i \in Positions
      BY <1>0, <1>3, <3>1
    <3> QED  BY <1>0, <1>3, <3>1, <3>2 DEF Deleted
  <2>2. CASE e.type = "delete" /\ m = n /\ k = e.uid
    <3>1. L \in from .. L
      BY <1>0, <1>3
    <3> QED  BY <1>0, <1>3, <1>4, <2>2, <3>1 DEF Deleted
  <2> QED  BY <1>11, <2>1, <2>2
<1>12. UidInv'
  <2>1. \A m \in Names : api'[m].uid \in {0, created'[m]}
    BY <1>4, <1>5 DEF UidInv
  <2>2. \A m \in Names : created[m] <= created'[m]
                         /\ created[m] \in Nat /\ created'[m] \in Nat
    <3> TAKE m \in Names
    <3>1. created[m] \in Nat
      BY DEF TypeOK
    <3> QED  BY <1>4, <3>1
  <2>3. ASSUME NEW i \in Positions'
        PROVE  Pending'[i].type # "tombstone"
               /\ Pending'[i].uid <= created'[Pending'[i].name]
    <3>1. CASE i \in Positions
      BY <1>0, <1>3, <1>7, <2>2, <3>1 DEF UidInv
    <3>2. CASE i = L
      BY <1>0, <1>3, <1>4, <1>5, <3>2
    <3> QED  BY <1>0, <1>3, <3>1, <3>2
  <2>4. \A u \in operating : u[2] <= created'[u[1]]
    BY <1>8, <2>2
  <2> QED  BY <1>1, <2>1, <2>3, <2>4 DEF UidInv
<1>13. OrderInv'
  <2> SUFFICES ASSUME NEW i \in Positions', NEW j \in Positions', i < j,
                      Pending'[i].name = Pending'[j].name,
                      NEW m, m = Pending'[i].name, NEW k, k = Pending'[i].uid
               PROVE  \/ k = Pending'[j].uid /\ Pending'[i].type # "delete"
                      \/ k < Pending'[j].uid /\ Deleted(m, k, i, j - 1)'
    BY DEF OrderInv
  <2>1. /\ i \in Positions /\ Pending'[i] = Pending[i]
        /\ i \in 1 .. L /\ j - 1 \in Int /\ j - 1 < L
    BY <1>0, <1>3
  <2>2. CASE j \in Positions
    <3>1. \/ k = Pending'[j].uid /\ Pending'[i].type # "delete"
          \/ k < Pending'[j].uid /\ Deleted(m, k, i, j - 1)
      BY <1>0, <1>3, <2>1, <2>2 DEF OrderInv
    <3> QED  BY <1>10, <2>1, <3>1
  <2>3. CASE j = L
    <3>1. /\ Pending'[j] = e /\ m = n /\ k \in 1 .. created[n]
          /\ j - 1 = Len(Pending)
      BY <1>0, <1>3, <1>4, <1>7, <2>1, <2>3
    <3>2. IF k = api[n].uid THEN Pending'[i].type # "delete"
          ELSE Deleted(m, k, i, Len(Pending))
      BY <2>1, <3>1 DEF GoneInv
    <3> QED  BY <1>6, <1>10, <2>1, <3>1, <3>2
  <2> QED  BY <1>0, <1>3, <2>2, <2>3
<1>14. GoneInv'
  <2> SUFFICES ASSUME NEW i \in Positions',
                      NEW m, m = Pending'[i].name, NEW k, k = Pending'[i].uid,
                      NEW len, len = Len(Pending')
               PROVE  IF k = api'[m].uid
                      THEN Pending'[i].type # "delete"
                      ELSE Deleted(m, k, i, len)'
    BY DEF GoneInv
  <2>1. i \in 1 .. L /\ len = L
    BY <1>0, <1>3
  <2>2. CASE i \in Positions
    <3>1. /\ Pending'[i] = Pending[i] /\ m \in Names /\ k \in 1 .. created[m]
      BY <1>0, <1>3, <1>7, <2>2
    <3>2. IF k = api[m].uid THEN Pending'[i].type # "delete"
          ELSE Deleted(m, k, i, Len(Pending))
      BY <2>2, <3>1 DEF GoneInv
    <3>3. CASE m # n
      BY <1>4, <1>11, <2>1, <3>1, <3>2, <3>3
    <3>4. CASE m = n
      BY <1>4, <1>6, <1>11, <2>1, <3>1, <3>2, <3>4
    <3> QED  BY <3>3, <3>4
  <2>3. CASE i = L
    BY <1>0, <1>3, <1>4, <1>5, <1>11, <2>1, <2>3
  <2> QED  BY <1>0, <1>3, <2>2, <2>3
<1>15. LoopInv'
  <2> SUFFICES ASSUME NEW u \in Uids, Running(u),
                      NEW len, len = Len(Pending')
               PROVE  /\ \A j \in Positions' : Pending'[j].name = u[1] =>
                            \/ Pending'[j].uid = u[2]
                            \/ /\ Pending'[j].uid > u[2]
                               /\ Deleted(u[1], u[2], 1, j - 1)'
                      /\ u[2] # api'[u[1]].uid => Deleted(u[1], u[2], 1, len)'
                      /\ \A v \in Uids : Running(v) /\ v[1] = u[1] => v = u
    BY <1>9 DEF LoopInv
  <2>1. u[1] \in Names /\ u[2] \in 1 .. created[u[1]] /\ 1 \in 1 .. L /\ len = L
    BY <1>0, <1>3, <1>8, <1>9
  <2>2. u[2] # api[u[1]].uid => Deleted(u[1], u[2], 1, Len(Pending))
    BY DEF LoopInv
  <2>3. ASSUME NEW j \in Positions', Pending'[j].name = u[1],
               Pending'[j].uid # u[2]
        PROVE  Pending'[j].uid > u[2] /\ Deleted(u[1], u[2], 1, j - 1)'
    <3>1. j - 1 \in Int /\ j - 1 < L
      BY <1>0, <1>3
    <3>2. CASE j \in Positions
      BY <1>0, <1>3, <1>10, <2>1, <2>3, <3>1, <3>2 DEF LoopInv
    <3>3. CASE j = L
      <4>1. Pending'[j] = e /\ u[1] = n /\ j - 1 = Len(Pending)
        BY <1>0, <1>3, <1>4, <2>3, <3>3
      <4> QED  BY <1>6, <1>10, <2>1, <2>2, <2>3, <3>1, <4>1
    <3> QED  BY <1>0, <1>3, <3>2, <3>3
  <2>4. ASSUME u[2] # api'[u[1]].uid
        PROVE  Deleted(u[1], u[2], 1, len)'
    <3>1. CASE u[1] # n
      BY <1>4, <1>11, <2>1, <2>2, <2>4, <3>1
    <3>2. CASE u[1] = n
      BY <1>4, <1>6, <1>11, <2>1, <2>2, <2>4, <3>2
    <3> QED  BY <3>1, <3>2
  <2> QED  BY <2>3, <2>4 DEF LoopInv
<1>16. NewestInv'
  <2>1. ASSUME NEW i \in Positions', NEW u \in operating,
               Pending'[i].name = u[1], u[1] \in Names
        PROVE  u[2] <= Pending'[i].uid
    <3>1. CASE i \in Positions
      BY <1>0, <1>3, <2>1, <3>1 DEF NewestInv
    <3>2. CASE i = L
      <4>1. Pending'[i] = e /\ u[1] = n /\ u[2] \in 1 .. created[n]
        BY <1>0, <1>3, <1>4, <1>8, <2>1, <3>2
      <4> QED  BY <1>4, <1>6, <4>1
    <3> QED  BY <1>0, <1>3, <3>1, <3>2
  <2> QED  BY <1>1, <2>1 DEF NewestInv
<1> QED  BY <1>12, <1>13, <1>14, <1>15, <1>16

(* A restarted operator has no loop, and an event for every EDS.           *)
LEMMA CrashStep ==
    ASSUME TypeOK, OrderedInv, Crash
    PROVE  OrderedInv'
<1> USE MaxUidAssumption DEF OrderedInv, NoUid
<1>1. queue' \in Seq(Events) /\ Reports({n \in Names : api[n].uid # 0}, queue')
  BY CrashReports
<1>2. /\ Pending' = queue' /\ Len(Pending') \in Nat
      /\ UNCHANGED <<api, created>> /\ connected' /\ dirty' = {}
      /\ operating' = {} /\ \A u \in Uids : ~Running(u)'
  BY <1>1, LenProperties DEF Crash, Pending, Running
<1>3. \A i \in Positions' :
        /\ Pending'[i].name \in Names /\ Pending'[i].type \in {"add", "update"}
        /\ Pending'[i].uid = api[Pending'[i].name].uid
        /\ Pending'[i].uid # 0
  BY <1>1, <1>2 DEF Reports, Positions
<1>4. UidInv'
  <2>1. \A n \in Names : api[n].uid \in {0, created[n]} /\ created[n] \in Nat
    BY DEF UidInv, TypeOK
  <2> QED  BY <1>2, <1>3, <2>1 DEF UidInv
<1>5. OrderInv' /\ GoneInv'
  BY <1>2, <1>3 DEF OrderInv, GoneInv
<1>6. LoopInv'
  BY <1>2 DEF LoopInv
<1>7. NewestInv'
  BY <1>2 DEF NewestInv
<1> QED  BY <1>4, <1>5, <1>6, <1>7

(* Without interruptions the order of events is kept by every step.        *)
LEMMA OrderedStep ==
    TypeOK /\ EntryInv /\ OrderedInv /\ [Next]_vars => OrderedInv'
<1> SUFFICES ASSUME TypeOK, EntryInv, OrderedInv, [Next]_vars PROVE OrderedInv'
  OBVIOUS
<1>1. CASE OperateNew \/ Join
  BY <1>1, HandlerHandles, HandlesStep
<1>2. CASE CancelOperation
  BY <1>2, PendingCancelled, SteadyStep DEF CancelOperation, watch, Running
<1>3. ASSUME NEW u \in Uids, Loop(u)
      PROVE  OrderedInv'
  <2>1. Same /\ UNCHANGED <<api, created, connected, dirty, operating>>
    BY <1>3, PendingSame DEF Loop, StartPass, FinishPass, Stop, watch
  <2>2. \A v \in Uids : Running(v)' <=> Running(v)
    BY <1>3 DEF Loop, StartPass, FinishPass, Stop, Running, TypeOK
  <2> QED  BY <2>1, <2>2, SteadyStep
<1>4. CASE Crash
  BY <1>4, CrashStep
<1>5. CASE Outside
  BY <1>5, OutsideChanges, ChangesStep
<1>6. CASE UNCHANGED vars
  BY <1>6, PendingSame, SteadyStep DEF vars, watch, Running
<1> QED
  BY <1>1, <1>2, <1>3, <1>4, <1>5, <1>6 DEF Next, Handler

(* All invariants hold while the watch is not interrupted.                 *)
LEMMA OrderedCorrect == Spec => [](TableInv /\ OrderedInv)
<1>1. Init => OrderedInv
  <2> SUFFICES ASSUME Init PROVE OrderedInv
    OBVIOUS
  <2>1. Pending = <<>> /\ Len(Pending) = 0 /\ Positions = {}
    BY DEF Init, Pending, Positions
  <2>2. UidInv /\ OrderInv /\ GoneInv
    BY <2>1 DEF Init, UidInv, OrderInv, GoneInv
  <2>3. LoopInv
    BY DEF Init, LoopInv, Running
  <2>4. NewestInv
    BY <2>1, MaxUidAssumption DEF Init, NewestInv
  <2> QED  BY <2>2, <2>3, <2>4 DEF OrderedInv
<1>2. TableInv /\ OrderedInv /\ [Next]_vars => OrderedInv'
  BY OrderedStep DEF TableInv
<1>3. [Next]_vars => [TableNext]_vars
  BY DEF TableNext
<1> QED  BY <1>1, <1>2, <1>3, TableInvCorrect, PTL DEF Spec

-----------------------------------------------------------------------------
(* The properties.                                                         *)

(* An EDS has at most one operating loop, however often it is deleted and  *)
(* created again, handed over, and the operator restarted: operateEDS      *)
(* waits for the old loop before it handles the next event.                *)
THEOREM OneLoop == Spec => []AtMostOneLoop
<1>1. OrderedInv => AtMostOneLoop
  BY DEF OrderedInv, LoopInv, AtMostOneLoop, Running, Live
<1> QED  BY <1>1, OrderedCorrect, PTL

(* When the handlers have dealt with every event, the loops that run and   *)
(* are not about to stop are exactly those of the existing EDS with the    *)
(* operator's annotation.                                                  *)
THEOREM LoopsMatch == Spec => []LoopsMatchEDS
<1>1. TableInv /\ OrderedInv => LoopsMatchEDS
  <2> SUFFICES ASSUME TableInv, OrderedInv, Quiet,
                      NEW n \in Names, NEW k \in 1 .. MaxUid
               PROVE  (Live(<<n, k>>) /\ <<n, k>> \notin cancelled)
                         <=> (api[n].uid = k /\ Owned(api[n].owner))
    BY DEF LoopsMatchEDS
  <2>1. Len(Pending) = 0 /\ Positions = {} /\ ~HasPending(n)
    BY DEF Quiet, Pending, Positions, HasPending
  <2>2. <<n, k>> \in Uids /\ <<n, k>>[1] = n /\ <<n, k>>[2] = k /\ k # NoUid
    BY MaxUidAssumption DEF Uids, NoUid
  <2>3. Live(<<n, k>>) => <<n, k>> \notin cancelled
    BY <2>2 DEF TableInv, EntryInv, Quiet
  <2>4. CASE api[n].uid = k
    BY <2>1, <2>2, <2>3, <2>4 DEF TableInv, MatchInv, OrderedInv, UidInv
  <2>5. CASE api[n].uid # k
    BY <2>1, <2>2, <2>5 DEF OrderedInv, LoopInv, Deleted, Running, Live
  <2> QED  BY <2>4, <2>5
<1> QED  BY <1>1, OrderedCorrect, PTL

(* Even when the watch was interrupted and deletions were missed: once all *)
(* events are handled, an EDS of this operator has a loop that goes on.    *)
LEMMA OwnedOperated == TableInv => OwnedAreOperated
<1> SUFFICES ASSUME TableInv, Quiet, NEW n \in Names,
                    api[n].uid # NoUid, Owned(api[n].owner)
             PROVE  Live(<<n, api[n].uid>>) /\ <<n, api[n].uid>> \notin cancelled
  BY DEF OwnedAreOperated
<1>1. ~HasPending(n) /\ n \notin dirty
  BY DEF Quiet, Pending, Positions, HasPending, TableInv, WatchInv
<1>2. <<n, api[n].uid>> \in Uids
  BY MaxUidAssumption DEF TableInv, TypeOK, Objects, Uids, NoUid
<1>3. Live(<<n, api[n].uid>>)
  BY <1>1 DEF TableInv, MatchInv
<1> QED  BY <1>2, <1>3 DEF TableInv, EntryInv, Quiet

-----------------------------------------------------------------------------
(* The table implements Lease.                                             *)

holdersBar == {u \in Uids : Live(u)}
workingBar == {u \in Uids : run[u] = "busy"}
Newest(entries, n) ==
    CHOOSE k \in 0 .. MaxUid : /\ k = 0 \/ <<n, k>> \in entries
                               /\ \A u \in entries : u[1] = n => u[2] <= k
newestBar == [n \in Names |-> Newest(operating, n)]

(* k is the newest entry of a name in a table.                             *)
IsNewest(entries, n, k) ==
    /\ k = 0 \/ <<n, k>> \in entries
    /\ \A u \in entries : u[1] = n => u[2] <= k

(* There is exactly one newest entry of a name.                            *)
LEMMA NewestIsUnique ==
    ASSUME NEW entries, NEW n, NEW newest, newest = Newest(entries, n),
           \E k \in 0 .. MaxUid : IsNewest(entries, n, k)
    PROVE  /\ newest \in 0 .. MaxUid /\ IsNewest(entries, n, newest)
           /\ \A k \in 0 .. MaxUid : IsNewest(entries, n, k) => k = newest
<1> USE MaxUidAssumption
<1>1. newest \in 0 .. MaxUid /\ IsNewest(entries, n, newest)
  BY Zenon DEF Newest, IsNewest
<1>2. ASSUME NEW k \in 0 .. MaxUid, NEW l \in 0 .. MaxUid,
             IsNewest(entries, n, k), IsNewest(entries, n, l)
      PROVE  k <= l
  <2>1. CASE k = 0
    BY <2>1
  <2>2. CASE <<n, k>> \in entries
    <3>1. <<n, k>>[1] = n /\ <<n, k>>[2] = k
      OBVIOUS
    <3> QED  BY <1>2, <2>2, <3>1 DEF IsNewest
  <2> QED  BY <1>2, <2>1, <2>2 DEF IsNewest
<1>3. ASSUME NEW k \in 0 .. MaxUid, IsNewest(entries, n, k)
      PROVE  k = newest
  <2>1. k <= newest /\ newest <= k
    BY <1>1, <1>2, <1>3
  <2> QED  BY <1>1, <2>1
<1> QED  BY <1>1, <1>3

(* Every step of the table is a step of Lease, or invisible there.         *)
LEMMA LeaseStep ==
    ASSUME TypeOK, EntryInv, OrderedInv, TypeOK', OrderedInv', [Next]_vars
    PROVE  [Lease!Next]_(Lease!vars)
<1> USE MaxUidAssumption
<1> DEFINE step == /\ created' = created /\ holdersBar' = holdersBar
                   /\ workingBar' = workingBar /\ newestBar' = newestBar
<1>0. step => [Lease!Next]_(Lease!vars)
  BY DEF Lease!vars, holdersBar, workingBar, newestBar, Newest
<1>a. ASSUME NEW n \in Names
      PROVE  /\ newestBar[n] \in 0 .. MaxUid
             /\ IsNewest(operating, n, newestBar[n])
             /\ \A k \in 0 .. MaxUid :
                   IsNewest(operating, n, k) => k = newestBar[n]
  <2>1. newestBar[n] = Newest(operating, n)
    BY DEF newestBar
  <2>2. \E k \in 0 .. MaxUid : IsNewest(operating, n, k)
    BY DEF OrderedInv, NewestInv, IsNewest
  <2> QED  BY <2>1, <2>2, NewestIsUnique
<1>b. ASSUME NEW n \in Names
      PROVE  /\ newestBar'[n] \in 0 .. MaxUid
             /\ IsNewest(operating', n, newestBar'[n])
             /\ \A k \in 0 .. MaxUid :
                   IsNewest(operating', n, k) => k = newestBar'[n]
  <2>1. newestBar'[n] = Newest(operating', n)
    BY DEF newestBar
  <2>2. \E k \in 0 .. MaxUid : IsNewest(operating', n, k)
    BY DEF OrderedInv, NewestInv, IsNewest
  <2> QED  BY <2>1, <2>2, NewestIsUnique
<1>1. CASE OperateNew \/ Join
  <2>1. PICK e \in Events : Handles(e)
    BY <1>1, HandlerHandles
  <2>2. created' = created /\ Uid(e) \in Uids /\ ~Live(Uid(e))
        /\ \A v \in Uids : v # Uid(e) => run'[v] = run[v]
    BY <2>1 DEF Handles, watch
  <2>3. CASE ~Starts(e)
    <3>1. run'[Uid(e)] \in {"none", "ended"} /\ operating' = operating
      BY <2>1, <2>3 DEF Handles
    <3>2. holdersBar' = holdersBar /\ workingBar' = workingBar
      BY <2>2, <3>1 DEF holdersBar, workingBar, Live
    <3>3. newestBar' = newestBar
      BY <3>1 DEF newestBar
    <3> QED  BY <1>0, <2>2, <3>2, <3>3
  <2>4. CASE Starts(e)
    <3>1. run'[Uid(e)] = "idle" /\ operating' = operating \cup {Uid(e)}
      BY <2>1, <2>4 DEF Handles
    <3>2. holdersBar' = holdersBar \cup {Uid(e)} /\ workingBar' = workingBar
      BY <2>2, <3>1 DEF holdersBar, workingBar, Live
    <3>3. /\ e.name \in Names /\ e.uid \in 1 .. MaxUid /\ e.uid \in 0 .. MaxUid
          /\ Uid(e) = <<e.name, e.uid>>
          /\ Uid(e)[1] = e.name /\ Uid(e)[2] = e.uid
      BY DEF Events, Uid
    <3>4. Pending[1] = e /\ 1 \in Positions
      BY <2>1, PendingType DEF Handles, Takes, Positions
    <3>5. \A h \in holdersBar : h[1] # e.name
      <4> SUFFICES ASSUME NEW h \in Uids, Live(h), h[1] = e.name PROVE FALSE
        BY DEF holdersBar
      <4>1. ~Deleted(h[1], h[2], 1, 1 - 1)
        BY DEF Deleted
      <4>2. e.uid = h[2]
        BY <3>4, <4>1 DEF OrderedInv, LoopInv, Running, Live
      <4>3. h = Uid(e)
        BY <3>3, <4>2 DEF Uids
      <4> QED  BY <2>2, <4>3
    <3>6. e.uid \in newestBar[e.name] .. created[e.name]
      <4>1. e.uid <= created[e.name]
        BY <3>4 DEF OrderedInv, UidInv
      <4>2. newestBar[e.name] \in 0 .. MaxUid
            /\ (newestBar[e.name] = 0
                  \/ <<e.name, newestBar[e.name]>> \in operating)
        BY <1>a, <3>3 DEF IsNewest
      <4>3. \A u \in operating : u[1] = e.name => u[2] <= e.uid
        BY <3>3, <3>4 DEF OrderedInv, NewestInv
      <4>4. newestBar[e.name] <= e.uid
        <5>1. <<e.name, newestBar[e.name]>>[1] = e.name
              /\ <<e.name, newestBar[e.name]>>[2] = newestBar[e.name]
          OBVIOUS
        <5> QED  BY <3>3, <4>2, <4>3, <5>1
      <4>5. created[e.name] \in 0 .. MaxUid
        BY <3>3 DEF TypeOK
      <4> QED  BY <3>3, <4>1, <4>2, <4>4, <4>5
    <3>7. newestBar' = [newestBar EXCEPT ![e.name] = e.uid]
      <4>1. newestBar'[e.name] = e.uid
        <5>1. IsNewest(operating', e.name, e.uid)
          BY <3>1, <3>3, <3>4 DEF IsNewest, OrderedInv, NewestInv
        <5> QED  BY <1>b, <3>3, <5>1
      <4>2. ASSUME NEW n \in Names, n # e.name
            PROVE  newestBar'[n] = newestBar[n]
        <5>1. \A k : IsNewest(operating', n, k) <=> IsNewest(operating, n, k)
          BY <3>1, <3>3, <4>2 DEF IsNewest
        <5> QED  BY <1>a, <1>b, <5>1
      <4>3. newestBar = [n \in Names |-> newestBar[n]]
            /\ newestBar' = [n \in Names |-> newestBar'[n]]
        BY DEF newestBar
      <4> QED  BY <4>1, <4>2, <4>3
    <3>8. Lease!Acquire(e.name, e.uid)
      BY <2>2, <3>2, <3>3, <3>5, <3>6, <3>7
         DEF Lease!Acquire, holdersBar, workingBar, newestBar, Newest
    <3> QED  BY <3>3, <3>8 DEF Lease!Next
  <2> QED  BY <2>3, <2>4
<1>2. CASE CancelOperation \/ UNCHANGED vars
  <2>1. UNCHANGED <<created, run, operating>>
    BY <1>2 DEF CancelOperation, vars, watch
  <2> QED  BY <1>0, <2>1 DEF holdersBar, workingBar, newestBar, Live
<1>3. ASSUME NEW u \in Uids, Loop(u)
      PROVE  [Lease!Next]_(Lease!vars)
  <2>1. UNCHANGED <<created, operating>>
    BY <1>3 DEF Loop, StartPass, FinishPass, Stop, watch
  <2>2. newestBar' = newestBar
    BY <2>1 DEF newestBar
  <2>3. CASE StartPass(u)
    <3>1. run[u] = "idle" /\ run' = [run EXCEPT ![u] = "busy"]
      BY <2>3 DEF StartPass
    <3>2. /\ u \in holdersBar \ workingBar /\ holdersBar' = holdersBar
          /\ workingBar' = workingBar \cup {u}
      BY <3>1 DEF holdersBar, workingBar, Live, TypeOK
    <3>3. Lease!Begin(u) /\ u \in holdersBar
      BY <2>1, <2>2, <3>2 DEF Lease!Begin, holdersBar, workingBar, newestBar, Newest
    <3> QED  BY <3>3 DEF Lease!Next, holdersBar
  <2>4. CASE FinishPass(u)
    <3>1. run[u] = "busy" /\ run' = [run EXCEPT ![u] = "idle"]
      BY <2>4 DEF FinishPass
    <3>2. /\ u \in holdersBar /\ u \in workingBar /\ holdersBar' = holdersBar
          /\ workingBar' = workingBar \ {u}
      BY <3>1 DEF holdersBar, workingBar, Live, TypeOK
    <3>3. Lease!End(u) /\ u \in holdersBar
      BY <2>1, <2>2, <3>2 DEF Lease!End, holdersBar, workingBar, newestBar, Newest
    <3> QED  BY <3>3 DEF Lease!Next, holdersBar
  <2>5. CASE Stop(u)
    <3>1. run[u] = "idle" /\ run' = [run EXCEPT ![u] = "sending"]
      BY <2>5 DEF Stop
    <3>2. /\ u \in holdersBar \ workingBar /\ holdersBar' = holdersBar \ {u}
          /\ workingBar' = workingBar
      BY <3>1 DEF holdersBar, workingBar, Live, TypeOK
    <3>3. Lease!Release(u) /\ u \in holdersBar
      BY <2>1, <2>2, <3>2 DEF Lease!Release, holdersBar, workingBar, newestBar, Newest
    <3> QED  BY <3>3 DEF Lease!Next, holdersBar
  <2> QED  BY <1>3, <2>3, <2>4, <2>5 DEF Loop
<1>4. CASE Crash
  <2>1. created' = created /\ operating' = {}
        /\ run' = [u \in Uids |-> "none"]
    BY <1>4 DEF Crash
  <2>2. holdersBar' = {} /\ workingBar' = {}
    BY <2>1 DEF holdersBar, workingBar, Live
  <2>3. newestBar' = [n \in Names |-> 0]
    <3>1. \A n \in Names : newestBar'[n] = 0
      <4> TAKE n \in Names
      <4>1. IsNewest(operating', n, 0)
        BY <2>1 DEF IsNewest
      <4> QED  BY <1>b, <4>1
    <3>2. newestBar' = [n \in Names |-> newestBar'[n]]
      BY DEF newestBar
    <3> QED  BY <3>1, <3>2
  <2>4. Lease!Crash
    BY <2>1, <2>2, <2>3 DEF Lease!Crash, holdersBar, workingBar, newestBar, Newest
  <2> QED  BY <2>4 DEF Lease!Next
<1>5. CASE Outside
  <2>1. PICK n \in Names, new \in Objects, e \in Events : Changes(n, new, e)
    BY <1>5, OutsideChanges
  <2>2. UNCHANGED <<operating, run>>
    BY <2>1 DEF Changes, Write
  <2>3. /\ holdersBar' = holdersBar /\ workingBar' = workingBar
        /\ newestBar' = newestBar
    BY <2>2 DEF holdersBar, workingBar, newestBar, Live
  <2>4. CASE created' = created
    BY <1>0, <2>3, <2>4
  <2>5. CASE created' # created
    <3>1. created[n] < MaxUid
          /\ created' = [created EXCEPT ![n] = created[n] + 1]
      BY <2>1, <2>5 DEF Changes
    <3>2. Lease!Make(n)
      BY <2>3, <3>1 DEF Lease!Make, holdersBar, workingBar, newestBar, Newest
    <3> QED  BY <3>2 DEF Lease!Next
  <2> QED  BY <2>4, <2>5
<1> QED
  BY <1>1, <1>2, <1>3, <1>4, <1>5 DEF Next, Handler

(* Who works on an EDS is decided as module Lease says: a loop is started  *)
(* only when the name has none, never for an earlier UID than the newest   *)
(* one since the process started, and stops between passes.                *)
THEOREM ImplementsLease == Spec => LeaseImplemented
<1>1. Init => Lease!Init
  <2> SUFFICES ASSUME Init PROVE Lease!Init
    OBVIOUS
  <2>1. operating = {} /\ run = [u \in Uids |-> "none"]
        /\ created = [n \in Names |-> 0]
    BY DEF Init
  <2>2. holdersBar = {} /\ workingBar = {}
    BY <2>1 DEF holdersBar, workingBar, Live
  <2>3. newestBar = [n \in Names |-> 0]
    <3>1. ASSUME NEW n \in Names
          PROVE  newestBar[n] = 0
      <4>1. newestBar[n] = Newest(operating, n)
        BY DEF newestBar
      <4>2. IsNewest(operating, n, 0) /\ 0 \in 0 .. MaxUid
        BY <2>1, MaxUidAssumption DEF IsNewest
      <4> QED  BY <4>1, <4>2, NewestIsUnique
    <3>2. newestBar = [n \in Names |-> newestBar[n]]
      BY DEF newestBar
    <3> QED  BY <3>1, <3>2
  <2> QED  BY <2>1, <2>2, <2>3 DEF Lease!Init, holdersBar, workingBar, newestBar, Newest
<1>2. TableInv /\ OrderedInv /\ TableInv' /\ OrderedInv' /\ [Next]_vars
         => [Lease!Next]_(Lease!vars)
  BY LeaseStep DEF TableInv
<1> QED
  BY <1>1, <1>2, OrderedCorrect, PTL DEF Spec, LeaseImplemented, Lease!Spec
=============================================================================
