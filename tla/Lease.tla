------------------------------- MODULE Lease -------------------------------
(***************************************************************************)
(* What the operating table promises: who may work on the EDS of a name.   *)
(* Every incarnation of the EDS has a number.  A loop takes the lease for  *)
(* an incarnation only when no loop has it for any incarnation of the      *)
(* name, never goes back to an earlier incarnation, and gives the lease    *)
(* back between two passes, not in one.  Module OperatingTable implements  *)
(* this with a table, contexts and channels.                               *)
(***************************************************************************)
EXTENDS Naturals

CONSTANTS
    Names,      \* names of EDS
    MaxUid      \* bound on the number of incarnations

VARIABLES
    made,       \* how many incarnations there have been
    holders,    \* name and incarnation for which a loop has the lease
    working,    \* holders in the middle of a pass
    newest      \* latest incarnation with a lease since the process started

vars == <<made, holders, working, newest>>

Init ==
    /\ made = [n \in Names |-> 0]
    /\ holders = {} /\ working = {}
    /\ newest = [n \in Names |-> 0]

Make(n) ==
    /\ made[n] < MaxUid
    /\ made' = [made EXCEPT ![n] = @ + 1]
    /\ UNCHANGED <<holders, working, newest>>

Acquire(n, k) ==
    /\ \A h \in holders : h[1] # n
    /\ k \in newest[n] .. made[n]
    /\ holders' = holders \cup {<<n, k>>}
    /\ newest' = [newest EXCEPT ![n] = k]
    /\ UNCHANGED <<made, working>>

Begin(h) ==
    /\ h \in holders \ working
    /\ working' = working \cup {h}
    /\ UNCHANGED <<made, holders, newest>>

End(h) ==
    /\ h \in working
    /\ working' = working \ {h}
    /\ UNCHANGED <<made, holders, newest>>

Release(h) ==
    /\ h \in holders \ working
    /\ holders' = holders \ {h}
    /\ UNCHANGED <<made, working, newest>>

(* The process is killed: leases and their history are gone.               *)
Crash ==
    /\ holders' = {} /\ working' = {}
    /\ newest' = [n \in Names |-> 0]
    /\ UNCHANGED made

Next ==
    \/ Crash
    \/ \E h \in holders : Begin(h) \/ End(h) \/ Release(h)
    \/ \E n \in Names : Make(n) \/ \E k \in 1 .. MaxUid : Acquire(n, k)

Spec == Init /\ [][Next]_vars
=============================================================================
