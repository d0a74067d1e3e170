----------------------------- MODULE MCWorkloadNode -----------------------------
(***************************************************************************)
(* Instances of WorkloadNode for TLC.                                      *)
(***************************************************************************)
EXTENDS WorkloadNodeInv

\* Two blocks of one family: the API server takes only one of them.
SameFamily == [b \in Blocks |-> "v6"]
================================================================================
