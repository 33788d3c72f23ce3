------------------------------ MODULE ESClient ------------------------------
(***************************************************************************)
(* The Elasticsearch clients of several ElasticsearchDataSets (EDS) that   *)
(* form one Elasticsearch cluster, and the cluster settings they share:    *)
(* Drain, excludePodIP, waitForEmptyEsNode and Cleanup of es_client.go,    *)
(* called by the operating loop (module Operator, which has one client).   *)
(*                                                                         *)
(* Elasticsearch has no conditional write.  A client reads the settings,   *)
(* changes one of them and writes all of them back; the mutex is a field   *)
(* of the client, so what another client wrote in between is lost.  Lists  *)
(* of addresses are sets here.                                             *)
(***************************************************************************)
EXTENDS Naturals, FiniteSets

CONSTANTS
    Clients,        \* one for each EDS
    IPs,            \* addresses of nodes
    Owner,          \* the EDS that the node of an address belongs to
    FirstNodes,     \* the nodes the cluster starts with
    UserSettings,   \* transient settings that users write
    Unset,          \* a setting without a value
    NoIP,           \* no pod is being drained
    Disturbances    \* "users" and "fail", see below

ASSUME OwnerAssumption == Owner \in [IPs -> Clients] /\ NoIP \notin IPs
ASSUME FirstNodesAssumption == FirstNodes \subseteq IPs
ASSUME UserSettingsAssumption ==
    UserSettings \subseteq
        [exclude : SUBSET IPs, rebalance : {"all", "none", Unset}]
ASSUME UnsetAssumption == Unset \notin {"all", "none"}
ASSUME ClientDisturbancesAssumption == Disturbances \subseteq {"users", "fail"}

VARIABLES
    persistent, \* cluster.routing: allocation.exclude._ip, rebalance.enable
    transient,  \* the same settings; they take precedence
    node,       \* the node of each address: not started, up, or gone
    data,       \* nodes with shards
    outdated,   \* nodes whose pod the operator has to replace
    pc,         \* where each client is
    target,     \* address of the pod it drains
    doc,        \* the settings it read, as it will write them
    known,      \* the nodes it has listed
    fresh,      \* history: nobody changed what the client read since
    disturbed,  \* history: clients whose drain met a write by a user or a
                \* write based on an outdated copy
    gaveUp      \* history: clients whose drain ran out of retries

settings == <<persistent, transient>>
cluster == <<node, data, outdated>>
history == <<fresh, disturbed, gaveUp>>
vars == <<settings, cluster, pc, target, doc, known, history>>

-----------------------------------------------------------------------------

Settings == [exclude : SUBSET IPs, rebalance : {"all", "none", Unset}]
NoSettings == [exclude |-> {}, rebalance |-> Unset]

Locations == {"idle", "disable", "exclude", "addIP", "wait", "delete",
              "cleanup", "settings", "setIPs", "enable"}

TypeOK ==
    /\ persistent \in Settings /\ transient \in Settings
    /\ node \in [IPs -> {"new", "up", "gone"}]
    /\ data \in SUBSET IPs /\ outdated \in SUBSET IPs
    /\ pc \in [Clients -> Locations]
    /\ target \in [Clients -> IPs \cup {NoIP}]
    /\ doc \in [Clients -> Settings]
    /\ known \in [Clients -> SUBSET IPs]
    /\ fresh \in [Clients -> BOOLEAN]
    /\ disturbed \in SUBSET Clients /\ gaveUp \in SUBSET Clients

(* A change of the EDS has made some pods outdated; nodes that are started *)
(* later are up to date.                                                   *)
Init ==
    /\ persistent = NoSettings /\ transient = NoSettings
    /\ node = [i \in IPs |-> IF i \in FirstNodes THEN "up" ELSE "new"]
    /\ data = FirstNodes /\ outdated \in SUBSET FirstNodes
    /\ pc = [c \in Clients |-> "idle"]
    /\ target = [c \in Clients |-> NoIP]
    /\ doc = [c \in Clients |-> NoSettings]
    /\ known = [c \in Clients |-> {}]
    /\ fresh = [c \in Clients |-> FALSE]
    /\ disturbed = {} /\ gaveUp = {}

Up == {i \in IPs : node[i] = "up"}

(* What Elasticsearch goes by.                                             *)
Effective(p, t) ==
    [exclude |-> IF t.exclude # {} THEN t.exclude ELSE p.exclude,
     rebalance |-> IF t.rebalance # Unset THEN t.rebalance ELSE p.rebalance]
Excluded == Effective(persistent, transient).exclude

-----------------------------------------------------------------------------
(* Reading and writing the settings.                                       *)

(* MergeNonEmptyTransientSettings, applied to every response.              *)
MergeOverwriting(p, t) ==               \* mutant: transient ones replace
    Effective(p, t)
MergeWithoutComma(p, t) ==              \* mutant: two lists, one bad address
    [exclude |-> IF p.exclude = {} \/ t.exclude = {}
                 THEN p.exclude \cup t.exclude
                 ELSE {NoIP},
     rebalance |-> IF t.rebalance # Unset THEN t.rebalance ELSE p.rebalance]
MergeNonEmptyTransientSettings(p, t) ==
    [exclude |-> p.exclude \cup t.exclude,
     rebalance |-> IF t.rebalance # Unset THEN t.rebalance ELSE p.rebalance]

GetClusterSettings(c) ==
    /\ doc' = [doc EXCEPT
                 ![c] = MergeNonEmptyTransientSettings(persistent, transient)]
    /\ fresh' = [fresh EXCEPT ![c] = TRUE]

(* The body has every setting; null resets the transient ones.  The copies *)
(* of the other clients are outdated now, and if this one was then their   *)
(* drains are disturbed.  A copy is not used after its last write.         *)
Draining == {c \in Clients : target[c] # NoIP}
PutClusterSettings(c, new, last) ==
    /\ persistent' = new /\ transient' = NoSettings
    /\ fresh' = [d \in Clients |-> d = c /\ ~last]
    /\ disturbed' = IF fresh[c] THEN disturbed
                    ELSE disturbed \cup (Draining \ {c})
    /\ doc' = IF last THEN [doc EXCEPT ![c] = NoSettings] ELSE doc

Goto(c, location) == pc' = [pc EXCEPT ![c] = location]

-----------------------------------------------------------------------------
(* Drain.                                                                  *)

(* The operating loop picks a pod.  The cluster is green and the settings  *)
(* are read.                                                               *)
PodsToUpdate(c) == {i \in outdated \cap Up : Owner[i] = c}
Drain(c, i) ==
    /\ pc[c] = "idle" /\ i \in PodsToUpdate(c)
    /\ target' = [target EXCEPT ![c] = i]
    /\ GetClusterSettings(c)
    /\ Goto(c, "disable")
    /\ UNCHANGED <<settings, cluster, known, disturbed, gaveUp>>

(* updateAutoRebalance("none").                                            *)
DisableRebalance(c) ==
    /\ pc[c] = "disable"
    /\ PutClusterSettings(c, [doc[c] EXCEPT !.rebalance = "none"], TRUE)
    /\ Goto(c, "exclude")
    /\ UNCHANGED <<cluster, target, known, gaveUp>>

(* excludePodIP: nothing is written if the address is on the list.         *)
ReadExcludeList(c) ==
    LET read == MergeNonEmptyTransientSettings(persistent, transient)
    IN  IF target[c] \in read.exclude
        THEN Goto(c, "wait") /\ UNCHANGED <<doc, fresh>>
        ELSE Goto(c, "addIP") /\ GetClusterSettings(c)

StartExcluding(c) ==
    /\ pc[c] = "exclude"
    /\ ReadExcludeList(c)
    /\ UNCHANGED <<settings, cluster, target, known, disturbed, gaveUp>>

ExcludePodIP(c) ==
    /\ pc[c] = "addIP"
    /\ PutClusterSettings(c,
          [doc[c] EXCEPT !.exclude = @ \cup {target[c]}], TRUE)
    /\ Goto(c, "wait")
    /\ UNCHANGED <<cluster, target, known, gaveUp>>

(* A poll of waitForEmptyEsNode that finds no shard on the node.           *)
NodeUnchecked(c) ==                     \* mutant: shards are not counted
    /\ pc[c] = "wait"
    /\ Goto(c, "delete")
    /\ UNCHANGED <<settings, cluster, target, doc, known, history>>
NodeIsEmpty(c) ==
    /\ pc[c] = "wait" /\ target[c] \notin data
    /\ Goto(c, "delete")
    /\ UNCHANGED <<settings, cluster, target, doc, known, history>>

(* Shards are left: "make sure the IP is still excluded, this could have   *)
(* been updated in the meantime."                                          *)
NodeIsNotEmptyYet(c) ==                 \* mutant: only waits
    /\ pc[c] = "wait" /\ target[c] \in data
    /\ UNCHANGED vars
NodeIsNotEmpty(c) ==
    /\ pc[c] = "wait" /\ target[c] \in data
    /\ ReadExcludeList(c)
    /\ UNCHANGED <<settings, cluster, target, known, disturbed, gaveUp>>

(* The last retry; its response is not looked at by the caller.            *)
GiveUp(c) ==
    /\ pc[c] = "wait" /\ target[c] \in data
    /\ gaveUp' = gaveUp \cup {c}
    /\ Goto(c, "delete")
    /\ UNCHANGED <<settings, cluster, target, doc, known, fresh, disturbed>>

EndDrain(c) ==
    /\ target' = [target EXCEPT ![c] = NoIP]
    /\ disturbed' = disturbed \ {c} /\ gaveUp' = gaveUp \ {c}

(* The operating loop deletes the pod; its successor has another address.  *)
DeletePod(c) ==
    /\ pc[c] = "delete"
    /\ node' = [node EXCEPT ![target[c]] = "gone"]
    /\ data' = data \ {target[c]} /\ outdated' = outdated \ {target[c]}
    /\ EndDrain(c)
    /\ Goto(c, "cleanup")
    /\ UNCHANGED <<settings, doc, known, fresh>>

-----------------------------------------------------------------------------
(* Cleanup, at the end of a pass, after its drain if there was a pod to    *)
(* update.                                                                 *)

GetNodes(c) ==
    /\ pc[c] = "cleanup" \/ (pc[c] = "idle" /\ PodsToUpdate(c) = {})
    /\ known' = [known EXCEPT ![c] = Up]
    /\ Goto(c, "settings")
    /\ UNCHANGED <<settings, cluster, target, doc, history>>

(* Addresses without a node are dropped.  A list of several addresses is   *)
(* also written when users left it unsorted.                               *)
Unsorted(list) ==
    IF "users" \in Disturbances /\ Cardinality(list) > 1 THEN BOOLEAN
    ELSE {FALSE}

CleanList(list, nodes) == list \cap nodes

ReadForCleanup(c) ==
    /\ pc[c] = "settings"
    /\ LET read == MergeNonEmptyTransientSettings(persistent, transient)
           list == CleanList(read.exclude, known[c])
           on == read.rebalance = "all"
       IN  \E unsorted \in Unsorted(read.exclude) :
              LET write == unsorted \/ list # read.exclude IN
              IF ~write /\ on
              THEN Goto(c, "idle") /\ UNCHANGED <<doc, fresh>>
              ELSE /\ doc' = [doc EXCEPT ![c] = [read EXCEPT !.exclude = list]]
                   /\ fresh' = [fresh EXCEPT ![c] = Up \subseteq known[c]]
                   /\ Goto(c, IF write THEN "setIPs" ELSE "enable")
    /\ known' = [known EXCEPT ![c] = {}]
    /\ UNCHANGED <<settings, cluster, target, disturbed, gaveUp>>

(* setExcludeIPs, then updateAutoRebalance("all") with the settings read   *)
(* before both.                                                            *)
SetExcludeIPs(c) ==
    /\ pc[c] = "setIPs"
    /\ LET on == doc[c].rebalance = "all"
       IN  /\ PutClusterSettings(c, doc[c], on)
           /\ Goto(c, IF on THEN "idle" ELSE "enable")
    /\ UNCHANGED <<cluster, target, known, gaveUp>>

EnableRebalance(c) ==
    /\ pc[c] = "enable"
    /\ PutClusterSettings(c, [doc[c] EXCEPT !.rebalance = "all"], TRUE)
    /\ Goto(c, "idle")
    /\ UNCHANGED <<cluster, target, known, gaveUp>>

-----------------------------------------------------------------------------
(* A request fails, the cluster is not green, the context is cancelled or  *)
(* the process ends: the pass ends here.                                   *)
Fail(c) ==
    /\ "fail" \in Disturbances
    /\ pc[c] # "idle"
    /\ EndDrain(c)
    /\ doc' = [doc EXCEPT ![c] = NoSettings]
    /\ known' = [known EXCEPT ![c] = {}]
    /\ fresh' = [fresh EXCEPT ![c] = FALSE]
    /\ Goto(c, "idle")
    /\ UNCHANGED <<settings, cluster>>

(* A user writes transient settings, a leftover of former releases.        *)
WriteTransient(new) ==
    /\ "users" \in Disturbances
    /\ new # transient
    /\ transient' = new
    /\ fresh' = [c \in Clients |-> FALSE] /\ disturbed' = Draining
    /\ UNCHANGED <<persistent, cluster, pc, target, doc, known, gaveUp>>

Join(i) ==
    /\ node[i] = "new"
    /\ node' = [node EXCEPT ![i] = "up"]
    /\ fresh' = [c \in Clients |-> fresh[c] /\ pc[c] \notin {"setIPs", "enable"}]
    /\ UNCHANGED <<settings, data, outdated, pc, target, doc, known,
                   disturbed, gaveUp>>

Usable == Up \ Excluded

Allocate(i) ==
    /\ i \in Usable \ data
    /\ data' = data \cup {i}
    /\ UNCHANGED <<settings, node, outdated, pc, target, doc, known, history>>

Relocate(i, j) ==
    /\ i \in data \cap Excluded /\ j \in Usable
    /\ data' = (data \ {i}) \cup {j}
    /\ UNCHANGED <<settings, node, outdated, pc, target, doc, known, history>>

-----------------------------------------------------------------------------

Call(c) ==
    \/ \E i \in IPs : Drain(c, i)
    \/ DisableRebalance(c) \/ StartExcluding(c) \/ ExcludePodIP(c)
    \/ NodeIsEmpty(c) \/ NodeIsNotEmpty(c) \/ DeletePod(c)
    \/ GetNodes(c) \/ ReadForCleanup(c) \/ SetExcludeIPs(c)
    \/ EnableRebalance(c)

Platform ==
    \/ \E i \in IPs : Join(i) \/ Allocate(i) \/ \E j \in IPs : Relocate(i, j)

Disturb ==
    \/ \E c \in Clients : Fail(c)
    \/ \E new \in UserSettings : WriteTransient(new)

Next ==
    \/ \E c \in Clients : Call(c) \/ GiveUp(c)
    \/ Platform \/ Disturb

Spec == Init /\ [][Next]_vars

(* Every client goes on and drains what is outdated, a drain that cannot   *)
(* succeed uses up its retries, Elasticsearch moves shards off excluded    *)
(* nodes; failures and changes by users end some time.                     *)
NowhereToDrain(c) == GiveUp(c) /\ Usable = {}
CalmSpec ==
    /\ Spec
    /\ \A c \in Clients :
          WF_vars(Call(c)) /\ WF_vars(NowhereToDrain(c))
    /\ \A i \in IPs : WF_vars(\E j \in IPs : Relocate(i, j))
    /\ <>[][Platform \/ \E c \in Clients : Call(c) \/ NowhereToDrain(c)]_vars

-----------------------------------------------------------------------------
(* Properties.                                                             *)

(* A client's write that is based on settings and nodes nobody changed     *)
(* since it read them never makes a running node available for shards that *)
(* users or the operator listed in either kind of settings: not when it    *)
(* moves the transient list to the persistent one                          *)
(* (docs/migrating-from-transient-settings.md), and not in Cleanup.        *)
ExclusionsKept ==
    [][\A c \in Clients : fresh[c] /\ pc'[c] # pc[c] /\ settings' # settings
          => \A i \in Up : i \in persistent.exclude \cup transient.exclude
                => i \in Effective(persistent', transient').exclude]_vars

(* A pod is deleted with shards on it only if its drain ran out of         *)
(* retries, or users or another client's outdated copy of the settings     *)
(* interfered: drains, exclusions and cleanups of several clients that do  *)
(* not overlap in a read and its write are safe in any order.              *)
DeletedNodeIsEmpty ==
    \A c \in Clients :
        pc[c] = "delete" /\ c \notin disturbed \cup gaveUp
            => target[c] \notin data /\ target[c] \in Excluded

(* However many updates the clients took from each other, once users and   *)
(* failures are quiet every outdated pod is replaced, rebalancing is on    *)
(* again and no running node is left excluded but those that users listed. *)
(* There is one exception: a transient list that a user writes during a    *)
(* drain hides the persistent one with the pod on it, and excludePodIP,    *)
(* which looks at the merged list, does not notice: the drain waits on.    *)
UserExcluded == UNION {u.exclude : u \in UserSettings}
Hidden(c) ==
    /\ pc[c] = "wait" /\ target[c] \in data
    /\ target[c] \in persistent.exclude \ Excluded
DrainsComplete ==
    \/ <>[](/\ outdated = {} /\ Excluded \cap Up \subseteq UserExcluded
            /\ Effective(persistent, transient).rebalance = "all")
    \/ \E c \in Clients : <>[]Hidden(c)
=============================================================================
