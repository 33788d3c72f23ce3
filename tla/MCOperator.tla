----------------------------- MODULE MCOperator -----------------------------
(* Instances of Operator for TLC; the other constants are in the .cfg      *)
(* files.                                                                  *)
EXTENDS Operator

(* Scaling operations: of both indices, and of one of them.                *)
MCChanges == {[i \in {"a", "b"} |-> 0], [i \in {"b"} |-> 1]}
=============================================================================
