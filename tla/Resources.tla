------------------------------ MODULE Resources ------------------------------
(***************************************************************************)
(* The objects a pass of the operating loop makes for an EDS before it     *)
(* touches pods: ensurePodDisruptionBudget, ensureService and the          *)
(* StatefulSet of reconcileStatefulset, all with the name of the EDS and a *)
(* reference to its UID, and UpdateStatus.  Composed with OperatingTable:  *)
(* its StartPass and FinishPass are the ends of the pass, so that EDS come *)
(* and go, events are lost, and the loop of a former EDS is still there    *)
(* while the calls are made.                                               *)
(*                                                                         *)
(* The EDS is read twice, by name: for the first two objects and the       *)
(* status, and again for the StatefulSet.                                  *)
(***************************************************************************)
EXTENDS OperatingTable

VARIABLES
    at,         \* the next call of the pass of each loop
    eds,        \* UID of the EDS that operate read
    again,      \* UID that reconcileStatefulset read
    owner       \* UID in the owner reference of each object, by name

table == vars
allVars == <<table, at, eds, again, owner>>

-----------------------------------------------------------------------------

Kinds == {"pdb", "service", "sts"}
Creates == [pdb |-> "create pdb", service |-> "create service",
            sts |-> "create sts"]
Follows == [pdb |-> "service", service |-> "again", sts |-> "status"]

ResourcesTypeOK ==
    /\ TypeOK
    /\ at \in [Uids -> Kinds \cup {Creates[k] : k \in Kinds}
                        \cup {"out", "again", "status", "pods"}]
    /\ eds \in [Uids -> 0 .. MaxUid] /\ again \in [Uids -> 0 .. MaxUid]
    /\ owner \in [Names -> [Kinds -> 0 .. MaxUid]]
    /\ \A u \in Uids : at[u] = "out" <=> run[u] # "busy"

ResourcesInit ==
    /\ Init
    /\ at = [u \in Uids |-> "out"]
    /\ eds = [u \in Uids |-> NoUid] /\ again = [u \in Uids |-> NoUid]
    /\ owner = [n \in Names |-> [k \in Kinds |-> NoUid]]

-----------------------------------------------------------------------------
(* A pass.                                                                 *)

Goto(u, call) == at' = [at EXCEPT ![u] = call]

GetEDS(u) ==
    /\ StartPass(u)
    /\ eds' = [eds EXCEPT ![u] = api[u[1]].uid]
    /\ Goto(u, "pdb")
    /\ UNCHANGED <<again, owner>>

(* The pass ends, with an error or without.                                *)
ReturnLost(u) ==                        \* mutant: the loop ends, too
    /\ run[u] = "busy"
    /\ Goto(u, "out")
    /\ eds' = [eds EXCEPT ![u] = NoUid]
    /\ again' = [again EXCEPT ![u] = NoUid]
    /\ UNCHANGED <<table, owner>>
Return(u) ==
    /\ FinishPass(u)
    /\ Goto(u, "out")
    /\ eds' = [eds EXCEPT ![u] = NoUid]
    /\ again' = [again EXCEPT ![u] = NoUid]
    /\ UNCHANGED owner

(* The EDS that an object of this kind is made for.                        *)
ReaderOfLoop(u, kind) == u[2]           \* mutant: the EDS is not refreshed
Reader(u, kind) == IF kind = "sts" THEN again[u] ELSE eds[u]

IsSameName(u, kind, uid) == uid # NoUid \* mutant: UIDs are not compared
IsOwnedReference(u, kind, uid) == uid = Reader(u, kind)

FindMissing(u, kind) ==
    /\ at[u] = kind /\ owner[u[1]][kind] = NoUid
    /\ Goto(u, Creates[kind])
    /\ UNCHANGED <<table, eds, again, owner>>

FindOwned(u, kind) ==
    /\ at[u] = kind /\ IsOwnedReference(u, kind, owner[u[1]][kind])
    /\ Goto(u, Follows[kind])
    /\ UNCHANGED <<table, eds, again, owner>>

FindForeign(u, kind) ==
    /\ at[u] = kind /\ owner[u[1]][kind] # NoUid
    /\ ~IsOwnedReference(u, kind, owner[u[1]][kind])
    /\ Return(u)

(* Create fails if the object has appeared in the meantime.                *)
Create(u, kind) ==
    /\ at[u] = Creates[kind]
    /\ IF owner[u[1]][kind] = NoUid
       THEN /\ owner' = [owner EXCEPT ![u[1]][kind] = Reader(u, kind)]
            /\ Goto(u, Follows[kind])
            /\ UNCHANGED <<table, eds, again>>
       ELSE Return(u)

(* reconcileStatefulset starts with a Get of its own.                      *)
GetAgain(u) ==
    /\ at[u] = "again"
    /\ IF api[u[1]].uid = NoUid
       THEN Return(u)
       ELSE /\ again' = [again EXCEPT ![u] = api[u[1]].uid]
            /\ Goto(u, "sts")
            /\ UNCHANGED <<table, eds, owner>>

(* Writes the EDS of the first Get if its status does not say so already   *)
(* (module Operator); the write fails if the EDS is another one, and is an *)
(* event for this loop, too.                                               *)
StatusUpToDate(u) ==
    /\ at[u] = "status"
    /\ Goto(u, "pods")
    /\ again' = [again EXCEPT ![u] = NoUid]
    /\ UNCHANGED <<table, eds, owner>>

UpdateStatus(u) ==
    /\ at[u] = "status" /\ eds[u] = api[u[1]].uid
    /\ UpdateEDS(u[1])
    /\ Goto(u, "pods")
    /\ again' = [again EXCEPT ![u] = NoUid]
    /\ UNCHANGED <<eds, owner>>

(* operatePods, module Operator.                                           *)
OperatePods(u) == at[u] = "pods" /\ Return(u)

(* A request fails, for one because the context is cancelled.              *)
Fail(u) == Return(u)

-----------------------------------------------------------------------------
(* Everything else.                                                        *)

(* Kubernetes' garbage collector: the owner is gone.                       *)
CollectGarbage(n, kind) ==
    /\ owner[n][kind] \notin {NoUid, api[n].uid}
    /\ owner' = [owner EXCEPT ![n][kind] = NoUid]
    /\ UNCHANGED <<table, at, eds, again>>

Restart ==
    /\ Crash
    /\ at' = [u \in Uids |-> "out"]
    /\ eds' = [u \in Uids |-> NoUid] /\ again' = [u \in Uids |-> NoUid]
    /\ UNCHANGED owner

Call(u) ==
    \/ GetEDS(u) \/ GetAgain(u) \/ StatusUpToDate(u) \/ OperatePods(u)
    \/ \E kind \in Kinds :
          \/ FindMissing(u, kind) \/ FindOwned(u, kind)
          \/ FindForeign(u, kind) \/ Create(u, kind)

Untouched == UNCHANGED <<at, eds, again, owner>>

TableStep == (Handler \/ \E u \in Uids : Stop(u)) /\ Untouched

(* The watch is interrupted, set up again, and what it missed reported.    *)
LoseWatch == Disconnect /\ Untouched
RenewWatch == Relist /\ Untouched
SkipTombstone == IgnoreTombstone /\ Untouched

(* Users, failing requests, and writes of the status, which come to an end *)
(* when users have.                                                        *)
Disturb ==
    \/ Restart \/ LoseWatch
    \/ Outside /\ Untouched
    \/ \E u \in Uids : UpdateStatus(u) \/ Fail(u)

ResourcesNext ==
    \/ TableStep \/ RenewWatch \/ SkipTombstone \/ Disturb
    \/ \E u \in Uids : Call(u)
    \/ \E n \in Names, kind \in Kinds : CollectGarbage(n, kind)

ResourcesSpec == ResourcesInit /\ [][ResourcesNext]_allVars

(* The Go scheduler runs every goroutine, the informer lists again, every  *)
(* loop goes on with its passes, a cancelled one stops at a failing        *)
(* request if not at the end, and garbage is collected; EDS objects stop   *)
(* changing and requests stop failing some time.                           *)
Cancelled(u) == Fail(u) /\ u \in cancelled
CalmResources ==
    /\ ResourcesSpec
    /\ WF_allVars((Handler /\ Untouched) \/ SkipTombstone)
    /\ WF_allVars(RenewWatch)
    /\ \A u \in Uids :
          WF_allVars(Call(u) \/ Cancelled(u) \/ (Stop(u) /\ Untouched))
    /\ WF_allVars(\E n \in Names, kind \in Kinds : CollectGarbage(n, kind))
    /\ <>[][Disturb => \E u \in Uids : Call(u) \/ Cancelled(u)]_allVars

-----------------------------------------------------------------------------
(* Properties.                                                             *)

(* A pass comes to operatePods only if the EDS, unless it was re-created   *)
(* during the pass, owns the StatefulSet and also the PodDisruptionBudget  *)
(* that keeps others from evicting its pods and the Service: whichever     *)
(* objects of a former EDS were in the way, were collected between a look  *)
(* and the create, or were made by the loop of a former EDS.               *)
PodsAreProtected ==
    \A u \in Uids :
        at[u] = "pods" /\ eds[u] = api[u[1]].uid
            => \A kind \in Kinds : owner[u[1]][kind] = api[u[1]].uid

(* An EDS of this operator has all its objects in the end, also one that   *)
(* took the name of another.                                               *)
ResourcesComplete ==
    <>[](\A n \in Names :
            api[n].uid # NoUid /\ Owned(api[n].owner)
                => \A kind \in Kinds : owner[n][kind] = api[n].uid)
=============================================================================
