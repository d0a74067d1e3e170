--------------------------- MODULE LoadBalancerPoolInv ---------------------------
(***************************************************************************)
(* The inductive invariant of LoadBalancerPool: what relates the machines, *)
(* the copies of them in the cache, the list of origins and the copy of it *)
(* that a pass is about to write back.                                     *)
(***************************************************************************)
EXTENDS LoadBalancerPool

Active == pass.step # "idle"

\* The copies lag behind, and what a pass read of a Machine behind them.
Lags ==
    /\ \A m \in Machines :
          /\ cache[m].infra = "gone" => infra[m] = "gone"
          /\ cache[m].infra = "deleting" => infra[m] # "live"
          /\ cache[m].machine.deleting => machine[m].deleting
    /\ Active /\ pass.leaving => infra[pass.machine] # "live"
    /\ Active /\ pass.object.deleting => cache[pass.machine].machine.deleting

\* An address belongs to one instance at a time.
Unique ==
    \A m, n \in Machines :
        /\ m # n /\ infra[m] # "gone" /\ infra[n] # "gone"
        /\ machine[m].address \in Addresses
        => machine[m].address # machine[n].address

\* Without a slip a pass knows its machine, and a pass that joins has an address;
\* only such a pass checks the limit.
Knows ==
    /\ pass.step = "check" => ~pass.leaving
    /\ Active /\ ~pass.leaving => pass.object.address # NoAddress
    /\ Active /\ faults.slips = 0 =>
          /\ pass.object.address = machine[pass.machine].address
          /\ infra[pass.machine] # "gone"

\* Without a race a pass writes back all it did not mean to take away.
Complete ==
    Exposed /\ faults.races = 0 =>
        pool \ (IF pass.leaving THEN Own ELSE {}) \subseteq pass.origins

\* What a pass may write keeps within what is allowed, raced or not.
Fits ==
    /\ IsFiniteSet(pool) /\ IsFiniteSet(pass.origins)
    /\ Total <= MaxOrigins + faults.races
    /\ pass.step = "check" =>
          Cardinality(pass.origins) <= Cardinality(pool) + faults.races
    /\ pass.step = "list" =>
          /\ Own \cap pass.origins # {}
          /\ Cardinality(pass.origins) <= Cardinality(pool) + faults.races
          /\ Cardinality(pass.origins) + others <= MaxOrigins + faults.races
    /\ pass.step = "edit" =>
          /\ Cardinality(pass.origins) <= Cardinality(pool) + 1 + faults.races
          /\ Cardinality(pass.origins) + others <= MaxOrigins + faults.races

\* What is in the pool, or may come to be by the pass under way.
Prospect == pool \cup (IF Exposed THEN pass.origins ELSE {})
                 \cup (IF Active /\ ~pass.leaving THEN {pass.object.address} ELSE {})

\* The addresses that are stray in it, ...
Astray == {a \in Prospect : Free(a)}
\* ... those another pass may yet add, by a copy of a machine that is gone or
\* has another address, ...
Outdated ==
    {cache[n].machine.address : n \in
        {n \in Machines : /\ ~cache[n].machine.deleting
                          /\ \/ cache[n].machine.address # machine[n].address
                             \/ infra[n] = "gone"}}
\* ... those of infrastructure deleted without its Machine, ...
Orphaned == {machine[m].address : m \in {m \in Machines :
                infra[m] # "live" /\ ~machine[m].deleting}}
\* ... and the one the pass under way will set free without having taken it from
\* the pool, or without having known.
Forgotten ==
    IF /\ Active /\ pass.leaving /\ infra[pass.machine] # "gone"
       /\ \/ pass.object.address # machine[pass.machine].address
          \/ ~pass.object.deleting
          \/ pass.step = "edit" /\ machine[pass.machine].address \in pass.origins
          \/ pass.step = "rest" /\ machine[pass.machine].address \in pool
      THEN {machine[pass.machine].address} ELSE {}

\* What a slip may leave behind in the pool, and already did.
Debt == (Astray \cup Outdated \cup Orphaned \cup Forgotten) \cap Addresses

Charged == IsFiniteSet(Debt) /\ Cardinality(Debt) <= faults.slips

\* Races and slips are among the faults counted.
Counts == faults.slips <= faults.all /\ faults.races <= faults.all

PoolInv == TypeOK /\ Counts /\ Lags /\ Unique /\ Knows /\ Complete /\ Fits

DebtInv == PoolInv /\ Charged
================================================================================
