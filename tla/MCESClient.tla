----------------------------- MODULE MCESClient -----------------------------
(* Instances of ESClient for TLC.                                          *)
EXTENDS ESClient

(* Two EDS; the second node of the first one is started later.             *)
MCOwner == [i \in {"a1", "a2", "b1"} |-> IF i = "b1" THEN "b" ELSE "a"]

MCUserSettings == {[exclude |-> {"b1"}, rebalance |-> Unset],
                   [exclude |-> {}, rebalance |-> "none"]}
=============================================================================
