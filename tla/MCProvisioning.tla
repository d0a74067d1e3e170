----------------------------- MODULE MCProvisioning -----------------------------
(***************************************************************************)
(* Instances of Provisioning for TLC.                                      *)
(***************************************************************************)
EXTENDS ProvisioningInv

CONSTANTS m1, m2, k1

\* m1 has a selector, m2 names an image of another version than its own.
OtherVersion == [x \in Machines \cup Images |-> IF x = m2 THEN "old" ELSE "new"]
SecondNames == [m \in Machines |-> IF m = m2 THEN k1 ELSE None]
================================================================================
