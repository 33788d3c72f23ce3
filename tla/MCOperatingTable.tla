-------------------------- MODULE MCOperatingTable --------------------------
(* Instances of OperatingTable for TLC.                                    *)
EXTENDS OperatingTable
=============================================================================
