---------------------------- MODULE MCAutoscaler ----------------------------
(* Instances of Autoscaler for TLC.                                        *)
EXTENDS Autoscaler

(* Two indices of different size.                                          *)
MCPrimaries == [i \in {"a", "b"} |-> IF i = "a" THEN 1 ELSE 4]
=============================================================================
