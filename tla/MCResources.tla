----------------------------- MODULE MCResources -----------------------------
(* Instances of Resources for TLC.                                         *)
EXTENDS Resources
=============================================================================
