--------------------------- MODULE ResourcesProofs ---------------------------
(***************************************************************************)
(* Proofs about Resources, for any finite set of names and any number of   *)
(* incarnations of an EDS.  They rest on what OperatingTableProofs shows   *)
(* of the table with an interrupted watch: every step of Resources is one  *)
(* of the table or leaves the table alone.                                 *)
(***************************************************************************)
EXTENDS Resources, OperatingTableProofs

(* An EDS that exists is the latest of its name.                           *)
LatestInv == \A n \in Names : api[n].uid \in {NoUid, created[n]}

(* What a pass has read existed, and the second Get read no older EDS than *)
(* the first one.                                                          *)
PassInv ==
    \A u \in Uids :
        /\ eds[u] <= created[u[1]] /\ again[u] <= created[u[1]]
        /\ at[u] # "out" => eds[u] # NoUid
        /\ at[u] \in {"sts", "create sts"} => eds[u] <= again[u]

(* The calls that come after the object of a kind is found or made.        *)
After(kind) ==
    {"status", "pods"}
       \cup (IF kind = "sts" THEN {} ELSE {"again", "sts", "create sts"})
       \cup (IF kind = "pdb" THEN {"service", "create service"} ELSE {})

(* From then on the EDS of the pass owns it, while that EDS exists.        *)
OwnerInv ==
    \A u \in Uids, kind \in Kinds :
        at[u] \in After(kind) /\ eds[u] = api[u[1]].uid
            => owner[u[1]][kind] = eds[u]

ResourcesInv == ResourcesTypeOK /\ LatestInv /\ PassInv /\ OwnerInv

-----------------------------------------------------------------------------
(* Every step is one of the table, or leaves the table alone.              *)
LEMMA TableSteps == [ResourcesNext]_allVars => [TableNext]_vars
<1> SUFFICES ASSUME [ResourcesNext]_allVars PROVE [TableNext]_vars
  OBVIOUS
<1>a. ASSUME NEW u \in Uids, Return(u) PROVE TableNext
  BY <1>a DEF Return, TableNext, Next, Loop
<1>1. CASE TableStep
  BY <1>1 DEF TableStep, TableNext, Next, Loop
<1>2. CASE RenewWatch \/ SkipTombstone \/ LoseWatch \/ Restart
  BY <1>2 DEF RenewWatch, SkipTombstone, LoseWatch, Restart, TableNext, Next
<1>3. CASE Outside /\ Untouched
  BY <1>3 DEF TableNext, Next
<1>4. ASSUME NEW u \in Uids, UpdateStatus(u) PROVE TableNext
  <2>1. u[1] \in Names /\ UpdateEDS(u[1])
    BY <1>4 DEF UpdateStatus, Uids
  <2> QED  BY <2>1 DEF TableNext, Next, Outside
<1>5. ASSUME NEW u \in Uids, Fail(u) PROVE TableNext
  BY <1>5, <1>a DEF Fail
<1>6. ASSUME NEW u \in Uids, Call(u) PROVE TableNext \/ UNCHANGED vars
  <2>1. CASE GetEDS(u)
    BY <2>1 DEF GetEDS, TableNext, Next, Loop
  <2>2. CASE GetAgain(u) \/ StatusUpToDate(u) \/ OperatePods(u)
    BY <1>a, <2>2 DEF GetAgain, StatusUpToDate, OperatePods, table
  <2>3. ASSUME NEW kind \in Kinds,
               \/ FindMissing(u, kind) \/ FindOwned(u, kind)
               \/ FindForeign(u, kind) \/ Create(u, kind)
        PROVE  TableNext \/ UNCHANGED vars
    BY <1>a, <2>3 DEF FindMissing, FindOwned, FindForeign, Create, table
  <2> QED  BY <1>6, <2>1, <2>2, <2>3 DEF Call
<1>7. ASSUME NEW n \in Names, NEW kind \in Kinds, CollectGarbage(n, kind)
      PROVE  UNCHANGED vars
  BY <1>7 DEF CollectGarbage, table
<1>8. CASE UNCHANGED allVars
  BY <1>8 DEF allVars, table
<1> QED
  BY <1>1, <1>2, <1>3, <1>4, <1>5, <1>6, <1>7, <1>8
     DEF ResourcesNext, Disturb

(* So the invariant of the table holds here too.                           *)
LEMMA TableHolds == ResourcesSpec => []TableInv
<1>1. ResourcesInit => Init
  BY DEF ResourcesInit
<1> QED  BY <1>1, TableSteps, TableInvCorrect, PTL DEF ResourcesSpec

(* Once every event is handled, no EDS of this operator is without a loop, *)
(* although the watch was interrupted, deletions were missed and           *)
(* tombstones ignored (del), and while passes of other loops go on.        *)
THEOREM OwnedHaveLoops == ResourcesSpec => []OwnedAreOperated
BY TableHolds, OwnedOperated, PTL

-----------------------------------------------------------------------------

(* Steps of handlers and informer do not touch a pass.                     *)
Calm == /\ UNCHANGED <<api, created, at, eds, again, owner>>
        /\ \A u \in Uids : run'[u] = "busy" <=> run[u] = "busy"

(* Handlers, informer and goroutines between passes leave the calls and    *)
(* the objects alone.                                                      *)
LEMMA TableStepsCalm ==
    ASSUME TypeOK, EntryInv,
           TableStep \/ RenewWatch \/ SkipTombstone \/ LoseWatch
    PROVE  Calm
<1>1. CASE RenewWatch \/ SkipTombstone \/ LoseWatch
  BY <1>1 DEF RenewWatch, SkipTombstone, LoseWatch, Untouched, Relist,
     IgnoreTombstone, Disconnect, watch, Calm
<1>2. CASE TableStep
  <2>1. Untouched
    BY <1>2 DEF TableStep
  <2>2. CASE OperateNew \/ Join
    <3>1. PICK e \in Events : Handles(e)
      BY <2>2, HandlerHandles
    <3> QED  BY <2>1, <3>1 DEF Handles, Live, Calm, Untouched, watch
  <2>3. CASE CancelOperation
    BY <2>1, <2>3 DEF CancelOperation, Calm, Untouched, watch
  <2>4. ASSUME NEW u \in Uids, Stop(u) PROVE Calm
    BY <2>1, <2>4 DEF Stop, Calm, Untouched, watch, TypeOK
  <2> QED  BY <1>2, <2>2, <2>3, <2>4 DEF TableStep, Handler
<1> QED  BY <1>1, <1>2

(* The calls of a pass.                                                    *)
Places == Kinds \cup {Creates[k] : k \in Kinds} \cup {"out", "again", "status", "pods"}

(* The names of the calls, spelled out.                                    *)
LEMMA PlacesAre ==
    /\ Places = {"pdb", "service", "sts", "create pdb", "create service",
                 "create sts", "out", "again", "status", "pods"}
    /\ Kinds = {"pdb", "service", "sts"}
    /\ Creates["pdb"] = "create pdb" /\ Creates["service"] = "create service"
    /\ Creates["sts"] = "create sts"
    /\ Follows["pdb"] = "service" /\ Follows["service"] = "again"
    /\ Follows["sts"] = "status"
<1>1. Kinds = {"pdb", "service", "sts"}
  BY DEF Kinds
<1>2. /\ Creates["pdb"] = "create pdb" /\ Creates["service"] = "create service"
      /\ Creates["sts"] = "create sts"
  BY DEF Creates
<1>3. /\ Follows["pdb"] = "service" /\ Follows["service"] = "again"
      /\ Follows["sts"] = "status"
  BY DEF Follows
<1>4. Places = {"pdb", "service", "sts", "create pdb", "create service",
                "create sts", "out", "again", "status", "pods"}
  BY <1>1, <1>2 DEF Places
<1> QED  BY <1>1, <1>2, <1>3, <1>4

(* A step of the pass of one loop, to the next call, with what the pass    *)
(* has read and the owners of the objects after it.                        *)
Moves(u, call, x, y) ==
    /\ UNCHANGED <<api, created>>
    /\ \A v \in Uids \ {u} : /\ at'[v] = at[v] /\ eds'[v] = eds[v]
                            /\ again'[v] = again[v] /\ run'[v] = run[v]
    /\ at'[u] = call /\ eds'[u] = x /\ again'[u] = y

(* What a step of one pass must do to keep the invariants.                 *)
LEMMA MovesStep ==
    ASSUME ResourcesInv, TypeOK', NEW u \in Uids, NEW call, NEW x, NEW y,
           Moves(u, call, x, y),
           at' \in [Uids -> Places], eds' \in [Uids -> 0 .. MaxUid],
           again' \in [Uids -> 0 .. MaxUid],
           owner' \in [Names -> [Kinds -> 0 .. MaxUid]],
           call = "out" <=> run'[u] # "busy",
           x <= created[u[1]], y <= created[u[1]],
           call # "out" => x # NoUid,
           call \in {"sts", "create sts"} => x <= y,
           \A n \in Names, kind \in Kinds :
              api[n].uid # NoUid /\ owner[n][kind] = api[n].uid
                 => owner'[n][kind] = owner[n][kind],
           \A kind \in Kinds : call \in After(kind) /\ x = api[u[1]].uid
                                 => owner'[u[1]][kind] = x
    PROVE  ResourcesInv'
<1> USE MaxUidAssumption DEF ResourcesInv, Moves
<1>1. ResourcesTypeOK'
  BY DEF ResourcesTypeOK, Places
<1>2. LatestInv'
  BY DEF LatestInv
<1>3. PassInv'
  BY DEF PassInv
<1>4. OwnerInv'
  <2> SUFFICES ASSUME NEW v \in Uids, NEW kind \in Kinds,
                      at'[v] \in After(kind), eds'[v] = api[v[1]].uid
               PROVE  owner'[v[1]][kind] = eds'[v]
    BY DEF OwnerInv
  <2>1. CASE v = u
    BY <2>1
  <2>2. CASE v # u
    <3>1. at[v] \in After(kind) /\ eds[v] = api[v[1]].uid /\ at[v] # "out"
      BY <2>2 DEF After
    <3>2. owner[v[1]][kind] = eds[v] /\ eds[v] # NoUid /\ v[1] \in Names
      BY <3>1 DEF OwnerInv, PassInv, Uids
    <3> QED  BY <2>2, <3>1, <3>2
  <2> QED  BY <2>1, <2>2
<1> QED  BY <1>1, <1>2, <1>3, <1>4

(* A pass that ends, at the last call, at a refused one or at a failure.   *)
LEMMA ReturnStep ==
    ASSUME ResourcesInv, TypeOK', NEW u \in Uids, Return(u)
    PROVE  ResourcesInv'
<1> USE MaxUidAssumption DEF NoUid
<1>1. /\ at \in [Uids -> Places] /\ "out" \in Places
      /\ eds \in [Uids -> 0 .. MaxUid] /\ again \in [Uids -> 0 .. MaxUid]
      /\ owner \in [Names -> [Kinds -> 0 .. MaxUid]] /\ created[u[1]] \in Nat
  BY DEF ResourcesInv, ResourcesTypeOK, TypeOK, Places, Uids
<1>2. /\ UNCHANGED <<api, created, owner>>
      /\ run' = [run EXCEPT ![u] = "idle"]
      /\ at' = [at EXCEPT ![u] = "out"] /\ eds' = [eds EXCEPT ![u] = 0]
      /\ again' = [again EXCEPT ![u] = 0]
  BY DEF Return, FinishPass, Goto, watch
<1>3. Moves(u, "out", 0, 0) /\ run'[u] = "idle"
  BY <1>1, <1>2 DEF Moves, ResourcesInv, ResourcesTypeOK, TypeOK
<1>4. /\ at' \in [Uids -> Places] /\ eds' \in [Uids -> 0 .. MaxUid]
      /\ again' \in [Uids -> 0 .. MaxUid]
      /\ owner' \in [Names -> [Kinds -> 0 .. MaxUid]]
  BY <1>1, <1>2
<1>5. /\ "out" = "out" <=> run'[u] # "busy"
      /\ 0 <= created[u[1]] /\ ("out" # "out" => 0 # NoUid)
      /\ ("out" \in {"sts", "create sts"} => 0 <= 0)
  BY <1>1, <1>3
<1>6. \A n \in Names, kind \in Kinds :
         api[n].uid # NoUid /\ owner[n][kind] = api[n].uid
            => owner'[n][kind] = owner[n][kind]
  BY <1>2
<1>7. \A kind \in Kinds : "out" \in After(kind) /\ 0 = api[u[1]].uid
                            => owner'[u[1]][kind] = 0
  BY DEF After
<1> HIDE DEF NoUid
<1> QED  BY <1>3, <1>4, <1>5, <1>6, <1>7, MovesStep

(* Types, in the form the calls of a pass need them.                       *)
LEMMA PassType ==
    ASSUME ResourcesInv, NEW u \in Uids
    PROVE  /\ at \in [Uids -> Places] /\ u[1] \in Names
           /\ eds \in [Uids -> 0 .. MaxUid] /\ again \in [Uids -> 0 .. MaxUid]
           /\ owner \in [Names -> [Kinds -> 0 .. MaxUid]]
           /\ run \in [Uids -> {"none", "idle", "busy", "sending", "ended"}]
           /\ created[u[1]] \in Nat /\ eds[u] \in Nat /\ again[u] \in Nat
           /\ at[u] = "out" <=> run[u] # "busy"
           /\ api[u[1]].uid \in {0, created[u[1]]}
           /\ api[u[1]].uid \in 0 .. MaxUid
           /\ eds[u] <= created[u[1]] /\ again[u] <= created[u[1]]
           /\ at[u] # "out" => eds[u] # 0
           /\ at[u] \in {"sts", "create sts"} => eds[u] <= again[u]
<1> USE MaxUidAssumption DEF NoUid
<1>1. ResourcesTypeOK /\ TypeOK
  BY DEF ResourcesInv, ResourcesTypeOK
<1>2. u[1] \in Names
  BY DEF Uids
<1>3. /\ created[u[1]] \in Nat /\ api[u[1]].uid \in 0 .. MaxUid
      /\ run \in [Uids -> {"none", "idle", "busy", "sending", "ended"}]
  BY <1>1, <1>2 DEF TypeOK, Objects
<1>4. api[u[1]].uid \in {0, created[u[1]]}
  BY <1>2 DEF ResourcesInv, LatestInv
<1>5. /\ at \in [Uids -> Places]
      /\ eds \in [Uids -> 0 .. MaxUid] /\ again \in [Uids -> 0 .. MaxUid]
      /\ owner \in [Names -> [Kinds -> 0 .. MaxUid]]
  BY <1>1 DEF ResourcesTypeOK, Places
<1>6. at[u] = "out" <=> run[u] # "busy"
  BY <1>1 DEF ResourcesTypeOK
<1>7. /\ eds[u] <= created[u[1]] /\ again[u] <= created[u[1]]
      /\ at[u] # "out" => eds[u] # 0
      /\ at[u] \in {"sts", "create sts"} => eds[u] <= again[u]
  BY DEF ResourcesInv, PassInv
<1>8. eds[u] \in Nat /\ again[u] \in Nat
  BY <1>5
<1> QED  BY <1>2, <1>3, <1>4, <1>5, <1>6, <1>7, <1>8

(* A call after which the pass goes on with another one; it has read x and *)
(* y by then, and has not changed the owner of an object of the EDS.       *)
GoesOn(u, call, x, y) ==
    /\ call \in Places \ {"out"}
    /\ x \in 0 .. MaxUid /\ x # NoUid /\ y \in 0 .. MaxUid
    /\ UNCHANGED <<api, created>>
    /\ run'[u] = "busy" /\ \A v \in Uids \ {u} : run'[v] = run[v]
    /\ at' = [at EXCEPT ![u] = call] /\ eds' = [eds EXCEPT ![u] = x]
    /\ again' = [again EXCEPT ![u] = y]
    /\ owner' \in [Names -> [Kinds -> 0 .. MaxUid]]
    /\ x <= created[u[1]] /\ y <= created[u[1]]
    /\ call \in {"sts", "create sts"} => x <= y
    /\ \A n \in Names, kind \in Kinds :
          owner[n][kind] # NoUid => owner'[n][kind] = owner[n][kind]
    /\ \A kind \in Kinds : call \in After(kind) /\ x = api[u[1]].uid
                             => owner'[u[1]][kind] = x

(* A call that goes on to the next one keeps the invariant.                *)
LEMMA CallStep ==
    ASSUME ResourcesInv, TypeOK', NEW u \in Uids, NEW call, NEW x, NEW y,
           GoesOn(u, call, x, y)
    PROVE  ResourcesInv'
<1> USE DEF GoesOn
<1>0. /\ at \in [Uids -> Places] /\ eds \in [Uids -> 0 .. MaxUid]
      /\ again \in [Uids -> 0 .. MaxUid]
  BY PassType
<1>1. /\ at' \in [Uids -> Places] /\ eds' \in [Uids -> 0 .. MaxUid]
      /\ again' \in [Uids -> 0 .. MaxUid]
  BY <1>0
<1>2. Moves(u, call, x, y)
  BY <1>0 DEF Moves
<1>3. call = "out" <=> run'[u] # "busy"
  OBVIOUS
<1>4. call # "out" => x # NoUid
  OBVIOUS
<1>5. \A n \in Names, kind \in Kinds :
         api[n].uid # NoUid /\ owner[n][kind] = api[n].uid
            => owner'[n][kind] = owner[n][kind]
  OBVIOUS
<1> QED  BY <1>1, <1>2, <1>3, <1>4, <1>5, MovesStep

(* So do the two reads of the EDS.                                         *)
LEMMA GetStep ==
    ASSUME ResourcesInv, TypeOK', NEW u \in Uids, GetEDS(u) \/ GetAgain(u)
    PROVE  ResourcesInv'
<1> DEFINE k == api[u[1]].uid
<1>a. /\ at \in [Uids -> Places] /\ u[1] \in Names
      /\ eds \in [Uids -> 0 .. MaxUid] /\ again \in [Uids -> 0 .. MaxUid]
      /\ owner \in [Names -> [Kinds -> 0 .. MaxUid]]
      /\ run \in [Uids -> {"none", "idle", "busy", "sending", "ended"}]
      /\ k \in 0 .. MaxUid
  BY PassType
<1>b. eds[u] <= created[u[1]] /\ again[u] <= created[u[1]]
  BY PassType
<1>c. k # NoUid => k = created[u[1]] /\ k <= created[u[1]]
  <2>1. k \in {0, created[u[1]]}
    BY PassType
  <2>2. created[u[1]] \in Nat
    BY PassType
  <2> QED  BY <2>1, <2>2 DEF NoUid
<1>1. CASE GetEDS(u)
  <2>1. /\ UNCHANGED <<api, created, owner>> /\ k # NoUid
        /\ run' = [run EXCEPT ![u] = "busy"]
        /\ at' = [at EXCEPT ![u] = "pdb"]
        /\ eds' = [eds EXCEPT ![u] = k]
        /\ again' = [again EXCEPT ![u] = again[u]]
    BY <1>1, <1>a DEF GetEDS, StartPass, Goto, watch
  <2>2. "pdb" \in Places \ {"out"} /\ \A kind \in Kinds : "pdb" \notin After(kind)
    BY PlacesAre DEF After
  <2>3. run'[u] = "busy" /\ \A v \in Uids \ {u} : run'[v] = run[v]
    BY <1>a, <2>1
  <2>4. again[u] \in 0 .. MaxUid
    BY <1>a
  <2> HIDE DEF k
  <2>go. GoesOn(u, "pdb", k, again[u])
    BY <1>a, <1>b, <1>c, <2>1, <2>2, <2>3, <2>4 DEF GoesOn
  <2> QED  BY <2>go, CallStep
<1>2. CASE GetAgain(u)
  <2>1. CASE Return(u)
    BY <2>1, ReturnStep
  <2>2. CASE ~Return(u)
    <3>1. /\ UNCHANGED <<api, created, owner, run>> /\ k # NoUid
          /\ at[u] = "again" /\ at' = [at EXCEPT ![u] = "sts"]
          /\ eds' = [eds EXCEPT ![u] = eds[u]]
          /\ again' = [again EXCEPT ![u] = k]
      BY <1>2, <1>a, <2>2 DEF GetAgain, Goto, table, vars, watch
    <3>2. "sts" \in Places \ {"out"}
          /\ \A kind \in Kinds : "sts" \in After(kind) => "again" \in After(kind)
      BY PlacesAre DEF After
    <3>3. eds[u] \in 0 .. MaxUid /\ eds[u] # NoUid /\ run[u] = "busy"
      BY <3>1, PassType DEF NoUid
    <3>4. eds[u] <= k
      BY <1>b, <1>c, <3>1
    <3>5. \A kind \in Kinds : "sts" \in After(kind) /\ eds[u] = api[u[1]].uid
                                => owner'[u[1]][kind] = eds[u]
      BY <3>1, <3>2 DEF ResourcesInv, OwnerInv
    <3> HIDE DEF k
    <3>go. GoesOn(u, "sts", eds[u], k)
      BY <1>a, <1>b, <1>c, <3>1, <3>2, <3>3, <3>4, <3>5 DEF GoesOn
    <3> QED  BY <3>go, CallStep
  <2> QED  BY <2>1, <2>2
<1> QED  BY <1>1, <1>2

(* ensurePodDisruptionBudget, ensureService, reconcileStatefulset: the     *)
(* object is missing and will be created, is ours, is made, or is somebody *)
(* else's.                                                                 *)
LEMMA EnsureStep ==
    ASSUME ResourcesInv, TypeOK', NEW u \in Uids, NEW kind \in Kinds,
           \/ FindMissing(u, kind) \/ FindOwned(u, kind)
           \/ FindForeign(u, kind) \/ Create(u, kind)
    PROVE  ResourcesInv'
<1>a. /\ at \in [Uids -> Places] /\ u[1] \in Names
      /\ eds \in [Uids -> 0 .. MaxUid] /\ again \in [Uids -> 0 .. MaxUid]
      /\ owner \in [Names -> [Kinds -> 0 .. MaxUid]]
      /\ eds[u] \in Nat /\ again[u] \in Nat /\ created[u[1]] \in Nat
  BY PassType
<1>b. eds[u] <= created[u[1]] /\ again[u] <= created[u[1]]
  BY PassType
<1>c. eds = [eds EXCEPT ![u] = eds[u]] /\ again = [again EXCEPT ![u] = again[u]]
      /\ eds[u] \in 0 .. MaxUid /\ again[u] \in 0 .. MaxUid
  BY <1>a
<1>d. at[u] # "out" => eds[u] # NoUid /\ run[u] = "busy"
  BY PassType DEF NoUid
<1>e. at[u] \in {"sts", "create sts"} => eds[u] <= again[u]
  BY PassType
<1>f. \A k \in Kinds : at[u] \in After(k) /\ eds[u] = api[u[1]].uid
                          => owner[u[1]][k] = eds[u]
  BY DEF ResourcesInv, OwnerInv
<1>1. CASE FindForeign(u, kind) \/ Return(u)
  BY <1>1, ReturnStep DEF FindForeign
<1>2. CASE FindMissing(u, kind)
  <2>1. /\ UNCHANGED <<api, created, owner, run, eds, again>>
        /\ at[u] = kind /\ at' = [at EXCEPT ![u] = Creates[kind]]
    BY <1>2 DEF FindMissing, Goto, table, vars, watch
  <2>2. /\ Creates[kind] \in Places \ {"out"} /\ kind # "out"
        /\ \A k \in Kinds : Creates[kind] \in After(k) => kind \in After(k)
        /\ Creates[kind] \in {"sts", "create sts"} => kind = "sts"
    BY PlacesAre DEF After
  <2>3. /\ eds' = [eds EXCEPT ![u] = eds[u]]
        /\ again' = [again EXCEPT ![u] = again[u]]
        /\ owner' \in [Names -> [Kinds -> 0 .. MaxUid]]
    BY <1>a, <1>c, <2>1
  <2>4. /\ eds[u] # NoUid /\ run'[u] = "busy"
        /\ \A v \in Uids \ {u} : run'[v] = run[v]
    BY <1>d, <2>1, <2>2
  <2>5. Creates[kind] \in {"sts", "create sts"} => eds[u] <= again[u]
    BY <1>e, <2>1, <2>2
  <2>6. \A k \in Kinds : Creates[kind] \in After(k) /\ eds[u] = api[u[1]].uid
                           => owner'[u[1]][k] = eds[u]
    BY <1>f, <2>1, <2>2
  <2>go. GoesOn(u, Creates[kind], eds[u], again[u])
    BY <1>b, <1>c, <2>1, <2>2, <2>3, <2>4, <2>5, <2>6 DEF GoesOn
  <2> QED  BY <2>go, CallStep
<1>3. CASE FindOwned(u, kind) \/ (Create(u, kind) /\ ~Return(u))
  <2>1. /\ UNCHANGED <<api, created, run, eds, again>>
        /\ at[u] \in {kind, Creates[kind]}
        /\ at' = [at EXCEPT ![u] = Follows[kind]]
        /\ \/ owner' = owner /\ owner[u[1]][kind] = Reader(u, kind)
           \/ /\ owner[u[1]][kind] = NoUid
              /\ owner' = [owner EXCEPT ![u[1]][kind] = Reader(u, kind)]
    BY <1>3 DEF FindOwned, Create, IsOwnedReference, Goto, table, vars, watch
  <2>2. /\ Follows[kind] \in Places \ {"out"} /\ at[u] # "out"
        /\ \A k \in Kinds : Follows[kind] \in After(k)
                               => k = kind \/ at[u] \in After(k)
        /\ Follows[kind] \notin {"sts", "create sts"}
        /\ kind = "sts" => at[u] \in {"sts", "create sts"}
    BY <2>1, PlacesAre DEF After
  <2>3. Reader(u, kind) \in 0 .. MaxUid
    BY <1>c DEF Reader
  <2>4. /\ owner' \in [Names -> [Kinds -> 0 .. MaxUid]]
        /\ owner'[u[1]][kind] = Reader(u, kind)
        /\ \A n \in Names, k \in Kinds :
              owner[n][k] # NoUid => owner'[n][k] = owner[n][k]
    <3>1. CASE owner' = owner /\ owner[u[1]][kind] = Reader(u, kind)
      BY <1>a, <3>1
    <3>2. CASE /\ owner[u[1]][kind] = NoUid
               /\ owner' = [owner EXCEPT ![u[1]][kind] = Reader(u, kind)]
      <4>1. PICK n \in Names, r \in 0 .. MaxUid :
               n = u[1] /\ r = Reader(u, kind)
        BY <1>a, <2>3
      <4>2. owner' = [owner EXCEPT ![n][kind] = r] /\ owner[n][kind] = NoUid
        BY <3>2, <4>1
      <4>3. /\ owner' \in [Names -> [Kinds -> 0 .. MaxUid]]
            /\ owner'[n][kind] = r
            /\ \A m \in Names, k \in Kinds :
                  m # n \/ k # kind => owner'[m][k] = owner[m][k]
        BY <1>a, <4>2
      <4> QED  BY <4>1, <4>2, <4>3
    <3> QED  BY <2>1, <3>1, <3>2
  <2>5. eds[u] = api[u[1]].uid => Reader(u, kind) = eds[u]
    <3> HAVE eds[u] = api[u[1]].uid
    <3>1. api[u[1]].uid \in {0, created[u[1]]}
      BY PassType
    <3>2. eds[u] = created[u[1]]
      BY <1>d, <2>2, <3>1 DEF NoUid
    <3>3. CASE kind = "sts"
      <4>1. eds[u] <= again[u]
        BY <1>e, <2>2, <3>3
      <4>2. \A x, y, z \in Nat : x <= y /\ y <= z /\ x = z => y = x
        OBVIOUS
      <4>3. eds[u] \in Nat /\ again[u] \in Nat /\ created[u[1]] \in Nat
        BY <1>a
      <4>4. again[u] = eds[u]
        BY <1>b, <3>2, <4>1, <4>2, <4>3, Zenon
      <4> QED  BY <3>3, <4>4 DEF Reader
    <3>4. CASE kind # "sts"
      BY <3>4 DEF Reader
    <3> QED  BY <3>3, <3>4
  <2>6. \A k \in Kinds : Follows[kind] \in After(k) /\ eds[u] = api[u[1]].uid
                           => owner'[u[1]][k] = eds[u]
    BY <1>a, <1>d, <1>f, <2>2, <2>4, <2>5
  <2>7. /\ eds' = [eds EXCEPT ![u] = eds[u]]
        /\ again' = [again EXCEPT ![u] = again[u]]
    BY <1>c, <2>1
  <2>8. /\ eds[u] # NoUid /\ run'[u] = "busy"
        /\ \A v \in Uids \ {u} : run'[v] = run[v]
    BY <1>d, <2>1, <2>2
  <2>9. Follows[kind] \in {"sts", "create sts"} => eds[u] <= again[u]
    BY <2>2
  <2>go. GoesOn(u, Follows[kind], eds[u], again[u])
    BY <1>b, <1>c, <2>1, <2>2, <2>4, <2>6, <2>7, <2>8, <2>9 DEF GoesOn
  <2> QED  BY <2>go, CallStep
<1> QED  BY <1>1, <1>2, <1>3

(* UpdateStatus, or no need for it.                                        *)
LEMMA StatusStep ==
    ASSUME ResourcesInv, TypeOK', NEW u \in Uids,
           StatusUpToDate(u) \/ UpdateStatus(u)
    PROVE  ResourcesInv'
<1>a. /\ at \in [Uids -> Places] /\ u[1] \in Names
      /\ eds \in [Uids -> 0 .. MaxUid] /\ again \in [Uids -> 0 .. MaxUid]
      /\ owner \in [Names -> [Kinds -> 0 .. MaxUid]]
      /\ eds[u] \in Nat /\ again[u] \in Nat /\ created[u[1]] \in Nat
  BY PassType
<1>b. eds[u] <= created[u[1]]
  BY PassType
<1>e. 0 <= created[u[1]] /\ 0 \in 0 .. MaxUid
  BY <1>a, MaxUidAssumption
<1>c. eds = [eds EXCEPT ![u] = eds[u]] /\ eds[u] \in 0 .. MaxUid
  BY <1>a
<1>d. at[u] # "out" => eds[u] # NoUid /\ run[u] = "busy"
  BY PassType DEF NoUid
<1>f. \A k \in Kinds : at[u] \in After(k) /\ eds[u] = api[u[1]].uid
                          => owner[u[1]][k] = eds[u]
  BY DEF ResourcesInv, OwnerInv
<1>1. /\ UNCHANGED <<created, run, eds, owner>>
      /\ at[u] = "status" /\ at' = [at EXCEPT ![u] = "pods"]
      /\ again' = [again EXCEPT ![u] = 0]
  BY DEF StatusUpToDate, UpdateStatus, UpdateEDS, Write, Goto, table, vars,
         watch, NoUid
<1>2. api' = api
  <2>1. CASE StatusUpToDate(u)
    BY <2>1 DEF StatusUpToDate, table, vars, watch
  <2>2. CASE UpdateStatus(u)
    <3>1. api' = [api EXCEPT ![u[1]] = api[u[1]]]
      BY <2>2 DEF UpdateStatus, UpdateEDS, Write
    <3>2. api \in [Names -> Objects]
      BY DEF ResourcesInv, ResourcesTypeOK, TypeOK
    <3> QED  BY <3>1, <3>2
  <2> QED  BY <2>1, <2>2
<1>3. /\ "pods" \in Places \ {"out"}
      /\ \A k \in Kinds : "pods" \in After(k) => "status" \in After(k)
  BY PlacesAre DEF After
<1>4. /\ eds' = [eds EXCEPT ![u] = eds[u]]
      /\ owner' \in [Names -> [Kinds -> 0 .. MaxUid]]
  BY <1>a, <1>c, <1>1
<1>5. /\ eds[u] # NoUid /\ run'[u] = "busy"
      /\ \A v \in Uids \ {u} : run'[v] = run[v]
  BY <1>d, <1>1
<1>6. \A k \in Kinds : "pods" \in After(k) /\ eds[u] = api[u[1]].uid
                         => owner'[u[1]][k] = eds[u]
  BY <1>f, <1>1, <1>3
<1>7. "pods" \in {"sts", "create sts"} => eds[u] <= 0
  OBVIOUS
<1>go. GoesOn(u, "pods", eds[u], 0)
  BY <1>b, <1>c, <1>e, <1>1, <1>2, <1>3, <1>4, <1>5, <1>6, <1>7 DEF GoesOn
<1> QED  BY <1>go, CallStep

(* Somebody writes an EDS.  A new EDS has a UID that no pass has read.     *)
LEMMA OutsideStep ==
    ASSUME ResourcesInv, TypeOK', Outside, Untouched
    PROVE  ResourcesInv'
<1> USE MaxUidAssumption DEF NoUid
<1>1. PICK n \in Names, new \in Objects, e \in Events : Changes(n, new, e)
  BY OutsideChanges DEF ResourcesInv, ResourcesTypeOK
<1>2. /\ api' = [api EXCEPT ![n] = new]
      /\ UNCHANGED <<run, at, eds, again, owner>>
  BY <1>1 DEF Changes, Write, Untouched
<1>3. /\ api \in [Names -> Objects] /\ created \in [Names -> 0 .. MaxUid]
      /\ \A m \in Names : created[m] \in Nat /\ api[m].uid \in {0, created[m]}
  BY DEF ResourcesInv, ResourcesTypeOK, TypeOK, LatestInv
<1>4. /\ \A m \in Names : m # n => api'[m] = api[m] /\ created'[m] = created[m]
      /\ api'[n] = new
  BY <1>1, <1>2, <1>3 DEF Changes
<1>5. \/ /\ new.uid = created[n] + 1 /\ created'[n] = created[n] + 1
      \/ new.uid \in {0, api[n].uid} /\ created'[n] = created[n]
  BY <1>1, <1>3 DEF Changes
<1>6. \A m \in Names : /\ created'[m] \in Nat /\ created[m] <= created'[m]
                       /\ api'[m].uid \in {0, created'[m]}
  <2> TAKE m \in Names
  <2>1. CASE m = n
    BY <1>3, <1>4, <1>5, <2>1
  <2>2. CASE m # n
    BY <1>3, <1>4, <2>2
  <2> QED  BY <2>1, <2>2
<1>7. ResourcesTypeOK'
  BY <1>2 DEF ResourcesInv, ResourcesTypeOK
<1>8. LatestInv'
  BY <1>6 DEF LatestInv
<1>9. \A u \in Uids : /\ u[1] \in Names /\ eds[u] \in Nat /\ again[u] \in Nat
                      /\ eds[u] <= created[u[1]] /\ again[u] <= created[u[1]]
  BY PassType
<1>10. PassInv'
  <2> SUFFICES ASSUME NEW u \in Uids
               PROVE  /\ eds[u] <= created'[u[1]] /\ again[u] <= created'[u[1]]
                      /\ at[u] # "out" => eds[u] # NoUid
                      /\ at[u] \in {"sts", "create sts"} => eds[u] <= again[u]
    BY <1>2 DEF PassInv
  <2>1. \A x, y, z \in Nat : x <= y /\ y <= z => x <= z
    OBVIOUS
  <2>2. /\ u[1] \in Names /\ eds[u] \in Nat /\ again[u] \in Nat
        /\ eds[u] <= created[u[1]] /\ again[u] <= created[u[1]]
    BY <1>9
  <2>3. /\ created[u[1]] \in Nat /\ created'[u[1]] \in Nat
        /\ created[u[1]] <= created'[u[1]]
    BY <1>3, <1>6, <2>2
  <2>4. eds[u] <= created'[u[1]] /\ again[u] <= created'[u[1]]
    BY <2>1, <2>2, <2>3, Zenon
  <2> QED  BY <2>4 DEF ResourcesInv, PassInv
<1>11. OwnerInv'
  <2> SUFFICES ASSUME NEW u \in Uids, NEW kind \in Kinds,
                      at[u] \in After(kind), eds[u] = api'[u[1]].uid
               PROVE  owner[u[1]][kind] = eds[u]
    BY <1>2 DEF OwnerInv
  <2>1. at[u] # "out" /\ u[1] \in Names
    BY <1>9 DEF After
  <2>2. eds[u] # 0
    BY <2>1 DEF ResourcesInv, PassInv
  <2>3. api'[u[1]].uid = api[u[1]].uid
    <3>1. CASE u[1] # n
      BY <1>4, <2>1, <3>1
    <3>2. CASE u[1] = n
      <4>1. new.uid # 0 /\ new.uid <= created[n] /\ new.uid \in Nat
        BY <1>4, <1>9, <2>2, <3>2
      <4>2. new.uid # created[n] + 1
        BY <1>3, <4>1
      <4> QED  BY <1>4, <1>5, <3>2, <4>1, <4>2
    <3> QED  BY <3>1, <3>2
  <2> QED  BY <2>3 DEF ResourcesInv, OwnerInv
<1> QED  BY <1>7, <1>8, <1>10, <1>11 DEF ResourcesInv

(* The garbage collector takes no object of an existing EDS.               *)
LEMMA CollectStep ==
    ASSUME ResourcesInv, NEW n \in Names, NEW kind \in Kinds,
           CollectGarbage(n, kind)
    PROVE  ResourcesInv'
<1>1. /\ UNCHANGED <<vars, at, eds, again>>
      /\ UNCHANGED <<api, created, run>>
      /\ owner[n][kind] # api[n].uid
      /\ owner' = [owner EXCEPT ![n][kind] = 0]
  BY DEF CollectGarbage, table, vars, watch, NoUid
<1>2. owner \in [Names -> [Kinds -> 0 .. MaxUid]]
  BY DEF ResourcesInv, ResourcesTypeOK
<1>3. /\ owner' \in [Names -> [Kinds -> 0 .. MaxUid]]
      /\ \A m \in Names, k \in Kinds :
            m # n \/ k # kind => owner'[m][k] = owner[m][k]
  BY <1>1, <1>2, MaxUidAssumption
<1>4. TypeOK'
  BY <1>1, TypeStep DEF ResourcesInv, ResourcesTypeOK
<1>5. ResourcesTypeOK'
  BY <1>1, <1>3, <1>4 DEF ResourcesInv, ResourcesTypeOK
<1>6. LatestInv' /\ PassInv'
  BY <1>1 DEF ResourcesInv, LatestInv, PassInv
<1>7. OwnerInv'
  BY <1>1, <1>3 DEF ResourcesInv, OwnerInv, Uids
<1> QED  BY <1>5, <1>6, <1>7 DEF ResourcesInv

(* Every step keeps the invariant.                                         *)
LEMMA ResourcesStep ==
    TableInv /\ ResourcesInv /\ [ResourcesNext]_allVars => ResourcesInv'
<1> SUFFICES ASSUME TableInv, ResourcesInv, [ResourcesNext]_allVars
             PROVE  ResourcesInv'
  OBVIOUS
<1>0. TypeOK'
  BY TableSteps, TypeStep DEF TableInv
<1>a. ASSUME Calm PROVE ResourcesInv'
  BY <1>0, <1>a DEF Calm, ResourcesInv, ResourcesTypeOK, LatestInv, PassInv,
     OwnerInv
<1>1. CASE TableStep \/ RenewWatch \/ SkipTombstone \/ LoseWatch
  BY <1>1, <1>a, TableStepsCalm DEF TableInv
<1>2. CASE Restart
  <2>1. /\ UNCHANGED <<api, created, owner>> /\ run' = [u \in Uids |-> "none"]
        /\ at' = [u \in Uids |-> "out"] /\ eds' = [u \in Uids |-> 0]
        /\ again' = [u \in Uids |-> 0]
    BY <1>2 DEF Restart, Crash, NoUid
  <2>2. ResourcesTypeOK'
    <3>1. "out" \in Places /\ 0 \in 0 .. MaxUid
      BY MaxUidAssumption DEF Places
    <3>2. at' \in [Uids -> Places] /\ eds' \in [Uids -> 0 .. MaxUid]
          /\ again' \in [Uids -> 0 .. MaxUid]
          /\ \A u \in Uids : at'[u] = "out" /\ run'[u] # "busy"
      BY <2>1, <3>1
    <3> QED  BY <1>0, <2>1, <3>2 DEF ResourcesInv, ResourcesTypeOK, Places
  <2>3. LatestInv'
    BY <2>1 DEF ResourcesInv, LatestInv
  <2>4. \A u \in Uids : created[u[1]] \in Nat
    BY PassType
  <2>5. PassInv'
    BY <2>1, <2>4 DEF PassInv
  <2>6. OwnerInv'
    BY <2>1 DEF OwnerInv, After
  <2> QED  BY <2>2, <2>3, <2>5, <2>6 DEF ResourcesInv
<1>3. CASE Outside /\ Untouched
  BY <1>0, <1>3, OutsideStep
<1>4. ASSUME NEW u \in Uids, UpdateStatus(u) \/ Fail(u) \/ Call(u)
      PROVE  ResourcesInv'
  BY <1>0, <1>4, GetStep, EnsureStep, StatusStep, ReturnStep
     DEF Call, Fail, OperatePods
<1>5. ASSUME NEW n \in Names, NEW kind \in Kinds, CollectGarbage(n, kind)
      PROVE  ResourcesInv'
  BY <1>5, CollectStep
<1>6. CASE UNCHANGED allVars
  BY <1>6, <1>a DEF allVars, table, vars, watch, Calm
<1> QED
  BY <1>1, <1>2, <1>3, <1>4, <1>5, <1>6 DEF ResourcesNext, Disturb

(* The invariant holds at all times.                                       *)
LEMMA ResourcesCorrect == ResourcesSpec => []ResourcesInv
<1>1. ResourcesInit => ResourcesInv
  <2> SUFFICES ASSUME ResourcesInit PROVE ResourcesInv
    OBVIOUS
  <2>1. Init /\ TypeOK
    BY InitType DEF ResourcesInit
  <2>2. /\ at = [u \in Uids |-> "out"] /\ eds = [u \in Uids |-> 0]
        /\ again = [u \in Uids |-> 0]
        /\ owner = [n \in Names |-> [k \in Kinds |-> 0]]
    BY DEF ResourcesInit, NoUid
  <2>3. "out" \in Places /\ 0 \in 0 .. MaxUid
    BY MaxUidAssumption DEF Places
  <2>4. /\ at \in [Uids -> Places] /\ eds \in [Uids -> 0 .. MaxUid]
        /\ again \in [Uids -> 0 .. MaxUid]
        /\ owner \in [Names -> [Kinds -> 0 .. MaxUid]]
    BY <2>2, <2>3
  <2>5. ResourcesTypeOK
    BY <2>1, <2>2, <2>4 DEF ResourcesTypeOK, Places, Init
  <2>6. LatestInv
    BY <2>1 DEF Init, LatestInv
  <2>7. PassInv
    BY <2>1, <2>2 DEF Init, PassInv, Uids
  <2>8. OwnerInv
    BY <2>2 DEF OwnerInv, After
  <2> QED  BY <2>5, <2>6, <2>7, <2>8 DEF ResourcesInv
<1> QED  BY <1>1, ResourcesStep, TableHolds, PTL DEF ResourcesSpec

(* The table, the passes and the objects keep their types; a loop has a    *)
(* call to make exactly while it is in a pass.                             *)
THEOREM ResourcesTypeCorrect == ResourcesSpec => []ResourcesTypeOK
<1>1. ResourcesInv => ResourcesTypeOK
  BY DEF ResourcesInv
<1> QED  BY <1>1, ResourcesCorrect, PTL

(* A pass touches pods only when the EDS it works for, while it exists,    *)
(* owns the PodDisruptionBudget, the Service and the StatefulSet: however  *)
(* EDS of the same name, their loops and the garbage collector come in     *)
(* between the calls of the pass.                                          *)
THEOREM PodsProtected == ResourcesSpec => []PodsAreProtected
<1>1. ResourcesInv => PodsAreProtected
  <2>1. \A kind \in Kinds : "pods" \in After(kind)
    BY DEF After
  <2> QED  BY <2>1 DEF ResourcesInv, OwnerInv, PodsAreProtected
<1> QED  BY <1>1, ResourcesCorrect, PTL
=============================================================================
