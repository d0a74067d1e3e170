--------------------------- MODULE MCKrumkakeMachine ---------------------------
(***************************************************************************)
(* Instances of KrumkakeMachine for TLC.                                   *)
(***************************************************************************)
EXTENDS KrumkakeMachineInv, TLC

\* Instance IDs are interchangeable.
IdSymmetry == Permutations(Ids)
================================================================================
