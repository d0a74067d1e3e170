------------------------- MODULE KrumkakeClusterProofs -------------------------
(***************************************************************************)
(* Theorems about KrumkakeCluster, for every set of machines and of faults.*)
(***************************************************************************)
EXTENDS KrumkakeCluster, TLAPS

-----------------------------------------------------------------------------
\* The KrumkakeCluster is gone, is somebody else's, or holds the finalizer: once
\* so, always so, for the finalizer is only taken away with the object.
Held == infra.phase = "gone" \/ infra.external \/ infra.finalizer

\* The same of the owner reference.
Claimed == infra = NoInfra \/ infra.owned

\* Each copy, and each decision taken from one, is evidence of what is so by now.
Evidence ==
    /\ infra.phase = "gone" => infra = NoInfra
    /\ cache.infra.owned \/ pass # "none" => Claimed
    /\ cache.infra.finalizer \/ pass = "provision" => Held
    /\ infra.provisioned \/ cluster.provisioned \/ cache.cluster.provisioned => Held
    /\ \A m \in Machines : machine[m].running => Held

AdoptionInv == TypeOK /\ Evidence

\* A fault keeps the record of faults well typed.
LEMMA FaultType ==
    ASSUME TypeOK, NEW kind, Fault(kind)
    PROVE  faults' \in [all : 0..MaxFaults, direct : BOOLEAN, dropped : BOOLEAN]
  BY ConstantsAssumption DEF TypeOK, Fault

\* The initial states satisfy the invariant.
LEMMA InitInv == Init => AdoptionInv
  <1>. SUFFICES ASSUME Init PROVE AdoptionInv
    OBVIOUS
  <1>1. cluster \in Clusters /\ infra \in Infras
    BY DEF Init, Clusters, Infras, Phases
  <1>2. cache \in [cluster : Clusters, infra : Infras]
    BY DEF Init, Clusters, Infras, Phases, NoCluster, NoInfra
  <1>3. machine \in [Machines -> [phase : Phases, adopted : BOOLEAN, running : BOOLEAN]]
    BY DEF Init, Phases
  <1>4. faults \in [all : 0..MaxFaults, direct : BOOLEAN, dropped : BOOLEAN]
    BY ConstantsAssumption DEF Init
  <1>5. TypeOK
    BY <1>1, <1>2, <1>3, <1>4 DEF Init, TypeOK
  <1>6. Evidence
    BY DEF Init, Evidence, NoInfra, NoCluster
  <1>. QED BY <1>5, <1>6 DEF AdoptionInv

-----------------------------------------------------------------------------
\* What a step may make of the KrumkakeCluster, and that it stays well typed.
LEMMA InfraStep ==
    ASSUME AdoptionInv, [Next]_vars
    PROVE  /\ infra' \in Infras
           /\ infra'.phase = "gone" => infra' = NoInfra
           /\ Held => Held'
           /\ Claimed => Claimed'
           /\ infra'.provisioned => infra.provisioned \/ Held'
  <1>a. /\ infra \in Infras
        /\ infra.phase = "gone" => infra = NoInfra
    BY DEF AdoptionInv, TypeOK, Evidence
  <1>1. CASE SetOwner
    <2>1. /\ infra.phase = "live"
          /\ infra' = [infra EXCEPT !.owned = TRUE]
      BY <1>1 DEF SetOwner
    <2>2. infra' \in Infras
      BY <1>a, <2>1 DEF Infras
    <2>3. /\ infra'.phase = infra.phase /\ infra'.paused = infra.paused
          /\ infra'.external = infra.external
          /\ infra'.finalizer = infra.finalizer /\ infra'.provisioned = infra.provisioned /\ infra'.owned
      BY <1>a, <2>1 DEF Infras
    <2>. QED BY <2>1, <2>2, <2>3 DEF NoInfra, Held, Claimed
  <1>2. CASE ProvisionExternal
    <2>1. /\ infra.phase = "live" /\ infra.external
          /\ infra' = [infra EXCEPT !.provisioned = TRUE]
      BY <1>2 DEF ProvisionExternal
    <2>2. infra' \in Infras
      BY <1>a, <2>1 DEF Infras
    <2>3. /\ infra'.phase = infra.phase /\ infra'.paused = infra.paused
          /\ infra'.external = infra.external
          /\ infra'.owned = infra.owned /\ infra'.finalizer = infra.finalizer /\ infra'.provisioned
      BY <1>a, <2>1 DEF Infras
    <2>. QED BY <2>1, <2>2, <2>3 DEF NoInfra, Held, Claimed
  <1>3. CASE PauseInfra
    <2>1. /\ infra.phase # "gone"
          /\ infra' = [infra EXCEPT !.paused = ~infra.paused]
      BY <1>3 DEF PauseInfra
    <2>2. infra' \in Infras
      BY <1>a, <2>1 DEF Infras
    <2>3. /\ infra'.phase = infra.phase /\ infra'.external = infra.external
          /\ infra'.owned = infra.owned
          /\ infra'.finalizer = infra.finalizer /\ infra'.provisioned = infra.provisioned
      BY <1>a, <2>1 DEF Infras
    <2>. QED BY <2>1, <2>2, <2>3 DEF NoInfra, Held, Claimed
  <1>4. CASE DeleteInfra
    BY <1>4 DEF DeleteInfra, AdoptionInv, TypeOK, Infras, Phases, NoInfra, Held,
                Claimed, Evidence
  <1>5. CASE Patch
    <2>1. CASE infra' = [infra EXCEPT !.finalizer = TRUE]
      <3>1. infra' \in Infras
        BY <1>a, <2>1 DEF Infras
      <3>2. /\ infra'.phase = infra.phase /\ infra'.external = infra.external
            /\ infra'.owned = infra.owned /\ infra'.provisioned = infra.provisioned
            /\ infra'.finalizer
        BY <1>a, <2>1 DEF Infras
      <3>3. infra.phase # "gone" => infra'.phase # "gone"
        BY <3>2
      <3>4. infra.phase = "gone" => infra' \in {infra, NoInfra}
        BY <1>a, <1>5 DEF Patch, Patched
      <3>. QED BY <1>a, <3>1, <3>2, <3>3, <3>4 DEF NoInfra, Held, Claimed
    <2>2. CASE infra' = [infra EXCEPT !.provisioned = TRUE] /\ pass = "provision"
                 /\ infra.phase # "gone"
      <3>1. infra' \in Infras
        BY <1>a, <2>2 DEF Infras
      <3>2. /\ infra'.phase = infra.phase /\ infra'.external = infra.external
            /\ infra'.owned = infra.owned /\ infra'.finalizer = infra.finalizer
        BY <1>a, <2>2 DEF Infras
      <3>3. Held
        BY <2>2 DEF AdoptionInv, Evidence
      <3>. QED BY <2>2, <3>1, <3>2, <3>3 DEF NoInfra, Held, Claimed
    <2>3. CASE infra' = NoInfra
      BY <2>3 DEF NoInfra, Infras, Phases, Held, Claimed
    <2>4. CASE UNCHANGED infra
      BY <2>4, <1>a DEF Held, Claimed
    <2>5. pass \in {"adopt", "provision", "release"}
      BY <1>5 DEF Patch, AdoptionInv, TypeOK
    <2>. QED BY <1>5, <2>1, <2>2, <2>3, <2>4, <2>5 DEF Patch, Patched
  <1>6. CASE UNCHANGED infra
    BY <1>6, <1>a DEF Held, Claimed
  <1>. QED
    BY <1>1, <1>2, <1>3, <1>4, <1>5, <1>6
    DEF Next, vars, Controls, Handles, InfrastructureProvisioned, DeleteCluster,
        PauseCluster, InfraEvent, ClusterEvent, Resync, Crash, ReconcileNothing,
        Reconcile, DeleteMachine, MachineStops, MachineReconciles

\* What a step may make of the copies and of the pass.
LEMMA CopyStep ==
    ASSUME AdoptionInv, [Next]_vars
    PROVE  /\ cache' \in [cluster : Clusters, infra : Infras]
           /\ pass' \in {"none", "adopt", "provision", "release"}
           /\ cache'.infra \in {cache.infra, infra}
           /\ cache'.cluster \in {cache.cluster, cluster}
           /\ pass' # "none" => pass' = pass \/ cache.infra.owned
           /\ pass' = "provision" => pass = "provision" \/ cache.infra.finalizer
  <1>. USE DEF AdoptionInv, TypeOK
  <1>1. CASE InfraEvent
    BY <1>1 DEF InfraEvent
  <1>2. CASE ClusterEvent
    BY <1>2 DEF ClusterEvent
  <1>3. CASE Crash
    BY <1>3 DEF Crash
  <1>4. CASE Reconcile
    BY <1>4 DEF Reconcile, Ignored, Adopted
  <1>5. CASE Patch
    BY <1>5 DEF Patch
  <1>6. CASE UNCHANGED <<cache, pass>>
    BY <1>6
  <1>. QED
    BY <1>1, <1>2, <1>3, <1>4, <1>5, <1>6
    DEF Next, vars, Controls, Handles, SetOwner, ProvisionExternal,
        InfrastructureProvisioned, DeleteCluster, DeleteInfra, PauseCluster,
        PauseInfra, Resync, ReconcileNothing, DeleteMachine, MachineStops,
        MachineReconciles

\* What a step may make of the Cluster, which learns of provisioned from the
\* KrumkakeCluster alone.
LEMMA ClusterStep ==
    ASSUME AdoptionInv, [Next]_vars
    PROVE  /\ cluster' \in Clusters
           /\ cluster'.provisioned => cluster.provisioned \/ infra.provisioned
  <1>. USE DEF AdoptionInv, TypeOK, Clusters, Phases
  <1>1. CASE InfrastructureProvisioned
    BY <1>1 DEF InfrastructureProvisioned
  <1>2. CASE DeleteCluster
    <2>1. CASE cluster' = [cluster EXCEPT !.phase = "deleting"]
      BY <2>1
    <2>2. CASE cluster' = NoCluster
      BY <2>2 DEF NoCluster
    <2>. QED BY <1>2, <2>1, <2>2 DEF DeleteCluster
  <1>3. CASE PauseCluster
    BY <1>3 DEF PauseCluster
  <1>4. CASE UNCHANGED cluster
    BY <1>4
  <1>. QED
    BY <1>1, <1>2, <1>3, <1>4
    DEF Next, vars, Controls, Handles, SetOwner, ProvisionExternal, DeleteInfra,
        PauseInfra, InfraEvent, ClusterEvent, Resync, Crash, ReconcileNothing,
        Reconcile, Patch, DeleteMachine, MachineStops, MachineReconciles

\* What a step may make of the machines: one begins to run only by a copy of the
\* Cluster that is provisioned.
LEMMA MachineStep ==
    ASSUME AdoptionInv, [Next]_vars
    PROVE  /\ machine' \in [Machines -> [phase : Phases, adopted : BOOLEAN,
                                         running : BOOLEAN]]
           /\ \A m \in Machines :
                 machine'[m].running => machine[m].running \/ cache.cluster.provisioned
  <1>. USE DEF AdoptionInv, TypeOK, Phases
  <1>1. ASSUME NEW m \in Machines, DeleteMachine(m)
        PROVE  /\ machine' \in [Machines -> [phase : Phases, adopted : BOOLEAN,
                                             running : BOOLEAN]]
               /\ \A n \in Machines : machine'[n].running => machine[n].running
    BY <1>1 DEF DeleteMachine
  <1>2. ASSUME NEW m \in Machines, MachineReconciles(m)
        PROVE  /\ machine' \in [Machines -> [phase : Phases, adopted : BOOLEAN,
                                             running : BOOLEAN]]
               /\ \A n \in Machines :
                     machine'[n].running => machine[n].running \/ cache.cluster.provisioned
    <2>1. cache.cluster.provisioned \in BOOLEAN
      BY DEF Clusters
    <2>2. CASE machine' = [machine EXCEPT ![m].adopted = TRUE]
      BY <2>2
    <2>3. CASE machine' = [machine EXCEPT ![m].phase = "gone", ![m].running = FALSE]
      BY <2>3
    <2>4. CASE machine' = [machine EXCEPT
                             ![m].running = @ \/ cache.cluster.provisioned]
      BY <2>1, <2>4
    <2>. QED BY <1>2, <2>2, <2>3, <2>4 DEF MachineReconciles, Provisioned
  <1>3. CASE UNCHANGED machine
    BY <1>3
  <1>. QED
    BY <1>1, <1>2, <1>3
    DEF Next, vars, Controls, Handles, SetOwner, ProvisionExternal,
        InfrastructureProvisioned, DeleteCluster, DeleteInfra, PauseCluster,
        PauseInfra, InfraEvent, ClusterEvent, Resync, Crash, ReconcileNothing,
        Reconcile, Patch, MachineStops

\* What a step may make of the queues and of the record of faults.
LEMMA QueueStep ==
    ASSUME AdoptionInv, [Next]_vars
    PROVE  /\ queued' \in BOOLEAN
           /\ waiting' \subseteq Machines
           /\ faults' \in [all : 0..MaxFaults, direct : BOOLEAN, dropped : BOOLEAN]
  <1>. USE DEF AdoptionInv, TypeOK
  <1>1. faults' \in [all : 0..MaxFaults, direct : BOOLEAN, dropped : BOOLEAN]
    BY FaultType
    DEF Next, vars, Controls, Handles, SetOwner, ProvisionExternal,
        InfrastructureProvisioned, DeleteCluster, DeleteInfra, PauseCluster,
        PauseInfra, InfraEvent, ClusterEvent, Resync, Crash, ReconcileNothing,
        Reconcile, Patch, DeleteMachine, MachineStops, MachineReconciles
  <1>2. queued' \in BOOLEAN
    BY DEF Next, vars, Controls, Handles, SetOwner, ProvisionExternal,
        InfrastructureProvisioned, DeleteCluster, DeleteInfra, PauseCluster,
        PauseInfra, InfraEvent, ClusterEvent, Resync, Crash, ReconcileNothing,
        Reconcile, Patch, DeleteMachine, MachineStops, MachineReconciles
  <1>3. waiting' \subseteq Machines
    BY DEF Next, vars, Controls, Handles, SetOwner, ProvisionExternal,
        InfrastructureProvisioned, DeleteCluster, DeleteInfra, PauseCluster,
        PauseInfra, InfraEvent, ClusterEvent, Resync, Crash, ReconcileNothing,
        Reconcile, Patch, DeleteMachine, MachineStops, MachineReconciles
  <1>. QED BY <1>1, <1>2, <1>3

\* Every step, stuttering included, keeps the invariant: what was evidence stays
\* so, and new evidence is taken from old.
LEMMA StepInv == AdoptionInv /\ [Next]_vars => AdoptionInv'
  <1>. SUFFICES ASSUME AdoptionInv, [Next]_vars PROVE AdoptionInv'
    OBVIOUS
  <1>1. Evidence'
    <2>. USE DEF AdoptionInv
    <2>1. infra'.phase = "gone" => infra' = NoInfra
      BY InfraStep
    <2>2. cache'.infra.owned \/ pass' # "none" => Claimed'
      BY InfraStep, CopyStep DEF Evidence, Claimed
    <2>3. cache'.infra.finalizer \/ pass' = "provision" => Held'
      BY InfraStep, CopyStep DEF Evidence, Held
    <2>4. infra'.provisioned \/ cluster'.provisioned \/ cache'.cluster.provisioned
            => Held'
      BY InfraStep, CopyStep, ClusterStep DEF Evidence
    <2>5. \A m \in Machines : machine'[m].running => Held'
      BY InfraStep, MachineStep DEF Evidence
    <2>. QED BY <2>1, <2>2, <2>3, <2>4, <2>5 DEF Evidence
  <1>2. TypeOK'
    BY <1>1, InfraStep, CopyStep, ClusterStep, MachineStep, QueueStep
    DEF TypeOK, Evidence, Claimed
  <1>. QED BY <1>1, <1>2 DEF AdoptionInv

-----------------------------------------------------------------------------
\* Whatever the lag of the copies, the dropped patches and the restarts, each
\* copy and each decision taken from one stays evidence of what is so.
THEOREM AdoptionInvariance == Spec => []AdoptionInv
  BY InitInv, StepInv, PTL DEF Spec

\* The objects, their copies, the queues and the record of faults keep their
\* types, and a pass that will patch found the owner reference.
THEOREM TypeCorrect == Spec => []TypeOK
  <1>1. AdoptionInv => TypeOK
    BY DEF AdoptionInv
  <1>. QED BY <1>1, AdoptionInvariance, PTL

\* For any number of machines and of faults: an instance runs only under a
\* KrumkakeCluster that is adopted, gone or somebody else's.
THEOREM RunsOnlyAdoptedHolds == Spec => []RunsOnlyAdopted
  <1>1. AdoptionInv => RunsOnlyAdopted
    BY DEF AdoptionInv, Evidence, Held, RunsOnlyAdopted
  <1>. QED BY <1>1, AdoptionInvariance, PTL
================================================================================
