--------------------------- MODULE ESClientProofs ---------------------------
(***************************************************************************)
(* Proofs about ESClient, for any number of clients, nodes and settings    *)
(* that users write.                                                       *)
(***************************************************************************)
EXTENDS ESClient, TLAPS

(* A client has a target exactly while it drains; the target is a running  *)
(* node of its own EDS, so no two clients drain, or delete, the same one.  *)
DrainLocations == {"disable", "exclude", "addIP", "wait", "delete"}
TargetInv ==
    \A c \in Clients :
        /\ pc[c] \in DrainLocations <=> target[c] # NoIP
        /\ target[c] # NoIP => Owner[target[c]] = c /\ node[target[c]] = "up"

-----------------------------------------------------------------------------
(* What the calls of a client write and read.                              *)

(* The list that is read is the union of both lists.                       *)
LEMMA MergedSettings ==
    ASSUME TypeOK
    PROVE  /\ MergeNonEmptyTransientSettings(persistent, transient) \in Settings
           /\ MergeNonEmptyTransientSettings(persistent, transient).exclude
                = persistent.exclude \cup transient.exclude
           /\ NoSettings \in Settings /\ NoSettings.exclude = {}
BY DEF TypeOK, Settings, MergeNonEmptyTransientSettings, NoSettings

(* Every write keeps the addresses of the client's copy, excludePodIP adds *)
(* the target; a copy that is used for a second write is written as it is. *)
Writes(c) ==
    \/ DisableRebalance(c) \/ ExcludePodIP(c)
    \/ SetExcludeIPs(c) \/ EnableRebalance(c)
WritesSettings(c, new, last) ==
    /\ PutClusterSettings(c, new, last)
    /\ doc[c].exclude \subseteq new.exclude
    /\ ~last => new = doc[c]
    /\ \/ pc[c] = "disable" /\ last /\ Goto(c, "exclude")
       \/ /\ pc[c] = "addIP" /\ last /\ Goto(c, "wait")
          /\ target[c] \in new.exclude
       \/ pc[c] \in {"setIPs", "enable"} /\ last /\ Goto(c, "idle")
       \/ pc[c] = "setIPs" /\ ~last /\ Goto(c, "enable")
    /\ UNCHANGED <<cluster, target, known, gaveUp>>

(* Every write of a client is of this form.                                *)
LEMMA WritesOfClient ==
    ASSUME TypeOK, TargetInv, NEW c \in Clients, Writes(c)
    PROVE  \E new \in Settings, last \in BOOLEAN : WritesSettings(c, new, last)
<1> USE DEF WritesSettings
<1>1. doc[c] \in Settings
  BY DEF TypeOK
<1>2. CASE DisableRebalance(c)
  <2> DEFINE new == [doc[c] EXCEPT !.rebalance = "none"]
  <2>1. new \in Settings /\ new.exclude = doc[c].exclude
    BY <1>1 DEF Settings
  <2>2. PutClusterSettings(c, new, TRUE)
    BY <1>2 DEF DisableRebalance
  <2> HIDE DEF new
  <2> QED  BY <1>2, <2>1, <2>2 DEF DisableRebalance
<1>3. CASE ExcludePodIP(c)
  <2> DEFINE new == [doc[c] EXCEPT !.exclude = @ \cup {target[c]}]
  <2>1. target[c] \in IPs
    BY <1>3 DEF ExcludePodIP, TypeOK, TargetInv, DrainLocations
  <2>2. new \in Settings /\ new.exclude = doc[c].exclude \cup {target[c]}
    BY <1>1, <2>1 DEF Settings
  <2>3. PutClusterSettings(c, new, TRUE)
    BY <1>3 DEF ExcludePodIP
  <2> HIDE DEF new
  <2> QED  BY <1>3, <2>2, <2>3 DEF ExcludePodIP
<1>4. CASE SetExcludeIPs(c)
  <2> DEFINE on == doc[c].rebalance = "all"
  <2>1. PutClusterSettings(c, doc[c], on) /\ on \in BOOLEAN
    BY <1>4 DEF SetExcludeIPs
  <2>2. IF on THEN Goto(c, "idle") ELSE Goto(c, "enable")
    BY <1>4 DEF SetExcludeIPs, Goto
  <2>3. pc[c] = "setIPs" /\ UNCHANGED <<cluster, target, known, gaveUp>>
    BY <1>4 DEF SetExcludeIPs
  <2> HIDE DEF on
  <2> QED  BY <1>1, <2>1, <2>2, <2>3
<1>5. CASE EnableRebalance(c)
  <2> DEFINE new == [doc[c] EXCEPT !.rebalance = "all"]
  <2>1. new \in Settings /\ new.exclude = doc[c].exclude
    BY <1>1 DEF Settings
  <2>2. PutClusterSettings(c, new, TRUE)
    BY <1>5 DEF EnableRebalance
  <2> HIDE DEF new
  <2> QED  BY <1>5, <2>1, <2>2 DEF EnableRebalance
<1> QED  BY <1>2, <1>3, <1>4, <1>5 DEF Writes

(* excludePodIP reads: the address is on one of the lists, or the copy has *)
(* all of both.                                                            *)
ReadsList(c, new) ==
    \/ /\ target[c] \in persistent.exclude \cup transient.exclude
       /\ Goto(c, "wait") /\ UNCHANGED <<doc, fresh>>
    \/ /\ new.exclude = persistent.exclude \cup transient.exclude
       /\ Goto(c, "addIP")
       /\ doc' = [doc EXCEPT ![c] = new]
       /\ fresh' = [fresh EXCEPT ![c] = TRUE]

(* So is what a drain reads,                                               *)
LEMMA ReadsOfDrain ==
    ASSUME TypeOK, NEW c \in Clients, ReadExcludeList(c)
    PROVE  \E new \in Settings : ReadsList(c, new)
BY MergedSettings DEF ReadExcludeList, GetClusterSettings, ReadsList

(* Cleanup's copy has what both lists say of the nodes that were listed.   *)
ReadsNodes(c, new, complete) ==
    /\ pc[c] = "settings" /\ known' = [known EXCEPT ![c] = {}]
    /\ UNCHANGED <<settings, cluster, target, disturbed, gaveUp>>
    /\ new.exclude
          = (persistent.exclude \cup transient.exclude) \cap known[c]
    /\ \/ Goto(c, "idle") /\ UNCHANGED <<doc, fresh>>
       \/ /\ doc' = [doc EXCEPT ![c] = new]
          /\ fresh' = [fresh EXCEPT ![c] = complete]
          /\ complete => Up \subseteq known[c]
          /\ Goto(c, "setIPs") \/ Goto(c, "enable")

(* and what Cleanup reads.                                                 *)
LEMMA ReadsOfCleanup ==
    ASSUME TypeOK, NEW c \in Clients, ReadForCleanup(c)
    PROVE  \E new \in Settings, complete \in BOOLEAN :
              ReadsNodes(c, new, complete)
<1> DEFINE read == MergeNonEmptyTransientSettings(persistent, transient)
           list == CleanList(read.exclude, known[c])
           new == [read EXCEPT !.exclude = list]
           complete == Up \subseteq known[c]
<1>1. read \in Settings
      /\ read.exclude = persistent.exclude \cup transient.exclude
  BY MergedSettings
<1>2. new \in Settings
      /\ new.exclude = (persistent.exclude \cup transient.exclude) \cap known[c]
  <2> HIDE DEF read
  <2> QED  BY <1>1 DEF Settings, CleanList
<1>3. \/ Goto(c, "idle") /\ UNCHANGED <<doc, fresh>>
      \/ /\ doc' = [doc EXCEPT ![c] = new]
         /\ fresh' = [fresh EXCEPT ![c] = complete]
         /\ Goto(c, "setIPs") \/ Goto(c, "enable")
  <2> HIDE DEF new
  <2> QED  BY DEF ReadForCleanup, Goto, new
<1>4. /\ pc[c] = "settings" /\ known' = [known EXCEPT ![c] = {}]
      /\ UNCHANGED <<settings, cluster, target, disturbed, gaveUp>>
  BY DEF ReadForCleanup
<1>5. complete \in BOOLEAN /\ (complete => Up \subseteq known[c])
  OBVIOUS
<1> HIDE DEF new, complete
<1> QED  BY <1>2, <1>3, <1>4, <1>5 DEF ReadsNodes

-----------------------------------------------------------------------------
(* Types.                                                                  *)

(* No step of any client, of the platform or of users takes a variable out *)
(* of its type or a target out of TargetInv.                               *)
LEMMA TypeStep ==
    TypeOK /\ TargetInv /\ [Next]_vars => TypeOK' /\ TargetInv'
<1> SUFFICES ASSUME TypeOK, TargetInv, [Next]_vars
             PROVE  TypeOK' /\ TargetInv'
  OBVIOUS
<1> USE OwnerAssumption DEF TypeOK, TargetInv, DrainLocations, Locations, Goto
<1> USE DEF settings, cluster, history
<1>1. ASSUME NEW c \in Clients, NEW i \in IPs, Drain(c, i)
      PROVE  TypeOK' /\ TargetInv'
  BY <1>1, MergedSettings DEF Drain, PodsToUpdate, Up, GetClusterSettings
<1>2. ASSUME NEW c \in Clients, Writes(c)
      PROVE  TypeOK' /\ TargetInv'
  <2>1. PICK new \in Settings, last \in BOOLEAN : WritesSettings(c, new, last)
    BY <1>2, WritesOfClient
  <2>2. NoSettings \in Settings
    BY MergedSettings
  <2> QED  BY <2>1, <2>2 DEF WritesSettings, PutClusterSettings, Draining
<1>3. ASSUME NEW c \in Clients, StartExcluding(c) \/ NodeIsNotEmpty(c)
      PROVE  TypeOK' /\ TargetInv'
  <2>1. PICK new \in Settings : ReadsList(c, new)
    BY <1>3, ReadsOfDrain DEF StartExcluding, NodeIsNotEmpty
  <2>2. /\ pc[c] \in {"exclude", "wait"}
        /\ UNCHANGED <<settings, cluster, target, known, disturbed, gaveUp>>
    BY <1>3 DEF StartExcluding, NodeIsNotEmpty
  <2>3. CASE Goto(c, "wait") /\ UNCHANGED <<doc, fresh>>
    BY <2>2, <2>3
  <2>4. CASE /\ Goto(c, "addIP")
             /\ doc' = [doc EXCEPT ![c] = new]
             /\ fresh' = [fresh EXCEPT ![c] = TRUE]
    BY <2>2, <2>4
  <2> QED  BY <2>1, <2>3, <2>4 DEF ReadsList
<1>4. ASSUME NEW c \in Clients, NodeIsEmpty(c) \/ GiveUp(c)
      PROVE  TypeOK' /\ TargetInv'
  BY <1>4 DEF NodeIsEmpty, GiveUp
<1>5. ASSUME NEW c \in Clients, DeletePod(c)
      PROVE  TypeOK' /\ TargetInv'
  BY <1>5 DEF DeletePod, EndDrain
<1>6. ASSUME NEW c \in Clients, GetNodes(c)
      PROVE  TypeOK' /\ TargetInv'
  BY <1>6 DEF GetNodes, Up
<1>7. ASSUME NEW c \in Clients, ReadForCleanup(c)
      PROVE  TypeOK' /\ TargetInv'
  <2>1. PICK new \in Settings, complete \in BOOLEAN :
                ReadsNodes(c, new, complete)
    BY <1>7, ReadsOfCleanup
  <2>2. doc' \in [Clients -> Settings] /\ fresh' \in [Clients -> BOOLEAN]
    BY <2>1 DEF ReadsNodes
  <2>3. Goto(c, "idle") \/ Goto(c, "setIPs") \/ Goto(c, "enable")
    BY <2>1 DEF ReadsNodes
  <2>4. /\ pc[c] = "settings" /\ known' = [known EXCEPT ![c] = {}]
        /\ UNCHANGED <<settings, cluster, target, disturbed, gaveUp>>
    BY <2>1 DEF ReadsNodes
  <2> QED  BY <2>2, <2>3, <2>4
<1>8. ASSUME NEW c \in Clients, Fail(c)
      PROVE  TypeOK' /\ TargetInv'
  BY <1>8, MergedSettings DEF Fail, EndDrain
<1>9. ASSUME NEW new \in UserSettings, WriteTransient(new)
      PROVE  TypeOK' /\ TargetInv'
  BY <1>9, UserSettingsAssumption DEF WriteTransient, Draining, Settings
<1>10. ASSUME NEW i \in IPs, Join(i)
       PROVE  TypeOK' /\ TargetInv'
  BY <1>10 DEF Join
<1>11. ASSUME NEW i \in IPs,
              Allocate(i) \/ \E j \in IPs : Relocate(i, j)
       PROVE  TypeOK' /\ TargetInv'
  BY <1>11 DEF Allocate, Relocate, Usable, Up
<1>12. CASE UNCHANGED vars
  BY <1>12 DEF vars
<1> QED
  BY <1>1, <1>2, <1>3, <1>4, <1>5, <1>6, <1>7, <1>8, <1>9, <1>10, <1>11,
     <1>12 DEF Next, Call, Platform, Disturb, Writes

(* TypeOK and TargetInv are inductive together.                            *)
LEMMA TargetsCorrect == Spec => [](TypeOK /\ TargetInv)
<1>1. Init => TypeOK /\ TargetInv
  BY OwnerAssumption, FirstNodesAssumption
     DEF Init, TypeOK, TargetInv, DrainLocations, Locations, Settings,
         NoSettings
<1> QED  BY <1>1, TypeStep, PTL DEF Spec

(* Every variable of the clients and the cluster keeps its type, for any   *)
(* number of clients (es_client.go).                                       *)
THEOREM TypeCorrect == Spec => []TypeOK
BY TargetsCorrect, PTL

-----------------------------------------------------------------------------
(* Exclusions.                                                             *)

(* A copy that nobody outdated, at the time it is written, has all the     *)
(* addresses of both lists; in Cleanup those of running nodes.             *)
Listed == persistent.exclude \cup transient.exclude
CopyInv ==
    \A c \in Clients :
        fresh[c] => /\ pc[c] \in {"disable", "addIP"}
                         => Listed \subseteq doc[c].exclude
                    /\ pc[c] \in {"setIPs", "enable"}
                         => Listed \cap Up \subseteq doc[c].exclude

(* Nobody's step makes a copy out of date without `fresh' recording it.    *)
LEMMA CopyStep ==
    TypeOK /\ TargetInv /\ CopyInv /\ [Next]_vars => CopyInv'
<1> SUFFICES ASSUME TypeOK, TargetInv, CopyInv, [Next]_vars
             PROVE  CopyInv'
  OBVIOUS
<1> USE DEF TypeOK, CopyInv, Listed, Locations, Goto, settings, cluster, history
<1>1. ASSUME NEW c \in Clients, NEW i \in IPs, Drain(c, i)
      PROVE  CopyInv'
  BY <1>1, MergedSettings DEF Drain, GetClusterSettings, Up
<1>2. ASSUME NEW c \in Clients, Writes(c)
      PROVE  CopyInv'
  <2>1. PICK new \in Settings, last \in BOOLEAN : WritesSettings(c, new, last)
    BY <1>2, WritesOfClient
  <2>2. NoSettings.exclude = {}
    BY DEF NoSettings
  <2> QED  BY <2>1, <2>2 DEF WritesSettings, PutClusterSettings, Up
<1>3. ASSUME NEW c \in Clients, StartExcluding(c) \/ NodeIsNotEmpty(c)
      PROVE  CopyInv'
  <2>1. PICK new \in Settings : ReadsList(c, new)
    BY <1>3, ReadsOfDrain DEF StartExcluding, NodeIsNotEmpty
  <2>2. UNCHANGED <<settings, cluster>>
    BY <1>3 DEF StartExcluding, NodeIsNotEmpty
  <2> QED  BY <2>1, <2>2 DEF ReadsList, Up
<1>4. ASSUME NEW c \in Clients, NodeIsEmpty(c) \/ GiveUp(c) \/ GetNodes(c)
      PROVE  CopyInv'
  BY <1>4 DEF NodeIsEmpty, GiveUp, GetNodes, Up
<1>5. ASSUME NEW c \in Clients, DeletePod(c)
      PROVE  CopyInv'
  BY <1>5 DEF DeletePod, Up
<1>6. ASSUME NEW c \in Clients, ReadForCleanup(c)
      PROVE  CopyInv'
  <2>1. PICK new \in Settings, complete \in BOOLEAN :
                ReadsNodes(c, new, complete)
    BY <1>6, ReadsOfCleanup
  <2> QED  BY <2>1 DEF ReadsNodes, Up
<1>7. ASSUME NEW c \in Clients, Fail(c)
      PROVE  CopyInv'
  BY <1>7 DEF Fail, Up
<1>8. ASSUME NEW new \in UserSettings, WriteTransient(new)
      PROVE  CopyInv'
  BY <1>8 DEF WriteTransient
<1>9. ASSUME NEW i \in IPs, Join(i)
      PROVE  CopyInv'
  BY <1>9 DEF Join
<1>10. ASSUME NEW i \in IPs,
              Allocate(i) \/ \E j \in IPs : Relocate(i, j)
       PROVE  CopyInv'
  BY <1>10 DEF Allocate, Relocate, Up
<1>11. CASE UNCHANGED vars
  BY <1>11 DEF vars, Up
<1> QED
  BY <1>1, <1>2, <1>3, <1>4, <1>5, <1>6, <1>7, <1>8, <1>9, <1>10, <1>11
     DEF Next, Call, Platform, Disturb, Writes

(* In every state a copy is complete or known to be out of date.           *)
LEMMA CopiesCorrect == Spec => [](TypeOK /\ TargetInv /\ CopyInv)
<1>1. Init => CopyInv
  BY DEF Init, CopyInv
<1> QED  BY <1>1, CopyStep, TargetsCorrect, PTL DEF Spec

(* No write of a client that is based on what is still in force makes a    *)
(* running node available again that either list excludes: neither the     *)
(* move of transient settings to persistent ones nor Cleanup.              *)
THEOREM ExclusionsAreKept == Spec => ExclusionsKept
<1> DEFINE Keeps == \A c \in Clients :
              fresh[c] /\ pc'[c] # pc[c] /\ settings' # settings
                 => \A i \in Up : i \in persistent.exclude \cup transient.exclude
                       => i \in Effective(persistent', transient').exclude
<1>1. ASSUME TypeOK, TargetInv, CopyInv, [Next]_vars
      PROVE  [Keeps]_vars
  <2> USE DEF settings, cluster, history
  <2>1. ASSUME NEW c \in Clients, Writes(c)
        PROVE  Keeps
    <3>1. PICK new \in Settings, last \in BOOLEAN :
                  WritesSettings(c, new, last)
      BY <1>1, <2>1, WritesOfClient
    <3>2. /\ persistent' = new /\ transient' = NoSettings
          /\ doc[c].exclude \subseteq new.exclude
          /\ pc[c] \in {"disable", "addIP", "setIPs", "enable"}
      BY <3>1 DEF WritesSettings, PutClusterSettings
    <3>3. Effective(persistent', transient').exclude = new.exclude
      BY <3>2 DEF Effective, NoSettings
    <3>4. \A d \in Clients : pc'[d] # pc[d] => d = c
      BY <1>1, <3>1 DEF WritesSettings, Goto, TypeOK
    <3>5. fresh[c] => Listed \cap Up \subseteq doc[c].exclude
      BY <1>1, <3>2 DEF CopyInv
    <3> QED  BY <3>2, <3>3, <3>4, <3>5 DEF Listed
  <2>2. CASE \A c \in Clients : ~Writes(c)
    <3>1. UNCHANGED settings \/ UNCHANGED pc
      BY <1>1, <2>2 DEF Next, Call, Platform, Disturb, Writes, vars, Drain,
         StartExcluding, NodeIsEmpty, NodeIsNotEmpty, GiveUp, DeletePod,
         GetNodes, ReadForCleanup, Fail, WriteTransient, Join, Allocate,
         Relocate
    <3> QED  BY <3>1
  <2> QED  BY <2>1, <2>2
<1> QED  BY <1>1, CopiesCorrect, PTL DEF Spec, ExclusionsKept

-----------------------------------------------------------------------------
(* Drains.                                                                 *)

(* A drain that nobody disturbed: since its first write no transient list  *)
(* hides the persistent one; from the moment it waits its node is on that  *)
(* list; and once the node was found empty it stays empty, as no shard is  *)
(* put on an excluded node.                                                *)
DrainInv ==
    /\ disturbed \subseteq Draining
    /\ \A c \in Clients : c \notin disturbed =>
          /\ pc[c] \in {"exclude", "addIP", "wait", "delete"}
               => transient.exclude = {}
          /\ pc[c] \in {"wait", "delete"} => target[c] \in persistent.exclude
          /\ pc[c] = "delete" /\ c \notin gaveUp => target[c] \notin data

(* Steps of all actors keep it: a write based on an outdated copy, which   *)
(* may drop the node, disturbs the drain.                                  *)
LEMMA DrainStep ==
    TypeOK /\ TargetInv /\ CopyInv /\ DrainInv /\ [Next]_vars => DrainInv'
<1> SUFFICES ASSUME TypeOK, TargetInv, CopyInv, DrainInv, [Next]_vars
             PROVE  DrainInv'
  OBVIOUS
<1> USE DEF TypeOK, TargetInv, DrainLocations, DrainInv, Draining, Locations,
            Goto, settings, cluster, history
<1>1. ASSUME NEW c \in Clients, NEW i \in IPs, Drain(c, i)
      PROVE  DrainInv'
  BY <1>1, OwnerAssumption DEF Drain, GetClusterSettings
<1>2. ASSUME NEW c \in Clients, Writes(c)
      PROVE  DrainInv'
  <2>1. PICK new \in Settings, last \in BOOLEAN : WritesSettings(c, new, last)
    BY <1>2, WritesOfClient
  <2>2. NoSettings.exclude = {}
    BY DEF NoSettings
  <2>3. ASSUME NEW d \in Clients, d # c, d \notin disturbed', pc[d] \in {"wait", "delete"}
        PROVE  target[d] \in new.exclude
    <3>1. fresh[c] /\ d \notin disturbed /\ target[d] \in Listed \cap Up
      BY <2>1, <2>3 DEF WritesSettings, PutClusterSettings, Listed, Up
    <3>2. Listed \cap Up \subseteq doc[c].exclude
      BY <2>1, <3>1 DEF CopyInv, WritesSettings
    <3> QED  BY <2>1, <3>1, <3>2 DEF WritesSettings
  <2> QED  BY <2>1, <2>2, <2>3 DEF WritesSettings, PutClusterSettings
<1>3. ASSUME NEW c \in Clients, StartExcluding(c) \/ NodeIsNotEmpty(c)
      PROVE  DrainInv'
  <2>1. PICK new \in Settings : ReadsList(c, new)
    BY <1>3, ReadsOfDrain DEF StartExcluding, NodeIsNotEmpty
  <2>2. /\ pc[c] \in {"exclude", "wait"}
        /\ UNCHANGED <<settings, cluster, target, disturbed, gaveUp>>
    BY <1>3 DEF StartExcluding, NodeIsNotEmpty
  <2> QED  BY <2>1, <2>2 DEF ReadsList
<1>4. ASSUME NEW c \in Clients, NodeIsEmpty(c) \/ GiveUp(c) \/ GetNodes(c)
      PROVE  DrainInv'
  BY <1>4 DEF NodeIsEmpty, GiveUp, GetNodes
<1>5. ASSUME NEW c \in Clients, DeletePod(c)
      PROVE  DrainInv'
  BY <1>5 DEF DeletePod, EndDrain
<1>6. ASSUME NEW c \in Clients, ReadForCleanup(c)
      PROVE  DrainInv'
  <2>1. PICK new \in Settings, complete \in BOOLEAN :
                ReadsNodes(c, new, complete)
    BY <1>6, ReadsOfCleanup
  <2> QED  BY <2>1 DEF ReadsNodes
<1>7. ASSUME NEW c \in Clients, Fail(c)
      PROVE  DrainInv'
  BY <1>7 DEF Fail, EndDrain
<1>8. ASSUME NEW new \in UserSettings, WriteTransient(new)
      PROVE  DrainInv'
  BY <1>8 DEF WriteTransient
<1>9. ASSUME NEW i \in IPs, Join(i)
      PROVE  DrainInv'
  BY <1>9 DEF Join
<1>10. ASSUME NEW i \in IPs,
              Allocate(i) \/ \E j \in IPs : Relocate(i, j)
       PROVE  DrainInv'
  BY <1>10 DEF Allocate, Relocate, Usable, Excluded, Effective
<1>11. CASE UNCHANGED vars
  BY <1>11 DEF vars
<1> QED
  BY <1>1, <1>2, <1>3, <1>4, <1>5, <1>6, <1>7, <1>8, <1>9, <1>10, <1>11
     DEF Next, Call, Platform, Disturb, Writes

(* No pod is deleted with shards on it unless its drain ran out of retries *)
(* or met a user's write or an outdated copy of another client.            *)
THEOREM DeletionIsSafe == Spec => []DeletedNodeIsEmpty
<1>1. Init => DrainInv
  BY DEF Init, DrainInv
<1>2. DrainInv => DeletedNodeIsEmpty
  BY DEF DrainInv, DeletedNodeIsEmpty, Excluded, Effective
<1> QED  BY <1>1, <1>2, DrainStep, CopiesCorrect, PTL DEF Spec
=============================================================================
