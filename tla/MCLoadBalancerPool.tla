--------------------------- MODULE MCLoadBalancerPool ---------------------------
(***************************************************************************)
(* Instances of LoadBalancerPool for TLC.                                  *)
(***************************************************************************)
EXTENDS LoadBalancerPoolInv, TLC

\* Machines are interchangeable, and so are addresses.
Symmetry == Permutations(Machines) \cup Permutations(Addresses)
================================================================================
