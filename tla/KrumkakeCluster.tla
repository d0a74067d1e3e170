----------------------------- MODULE KrumkakeCluster -----------------------------
(***************************************************************************)
(* The KrumkakeCluster controller, between Cluster API's Cluster and the   *)
(* machines.  It owns no resource; what matters is the order in which the  *)
(* three come and go, each side reading the others from lagging copies and *)
(* waking up by their events only.  Of a machine's pass the outcome is     *)
(* kept; KrumkakeMachine has its calls and its failures.                   *)
(***************************************************************************)
EXTENDS Naturals

CONSTANTS
    Machines,     \* the KrumkakeMachines of the Cluster
    FaultKinds,   \* the faults that may occur
    MaxFaults     \* bound: how many faults occur in one behaviour

AllFaults == {"patch", "crash", "direct"}

ASSUME ConstantsAssumption ==
    /\ FaultKinds \subseteq AllFaults
    /\ MaxFaults \in Nat

VARIABLES
    cluster,    \* Cluster API's Cluster
    infra,      \* its KrumkakeCluster
    cache,      \* the copies of both in the manager's informer caches
    queued,     \* whether the KrumkakeCluster is in its controller's queue
    pass,       \* what the controller's pass will patch
    machine,    \* machine[m]: a KrumkakeMachine and whether its instance runs
    waiting,    \* the machines in their controller's queue
    faults      \* how many faults have occurred, whether one was "direct", and
                \* whether one dropped a patch

vars == <<cluster, infra, cache, queued, pass, machine, waiting, faults>>

-----------------------------------------------------------------------------
Phases == {"live", "deleting", "gone"}

\* The Cluster's provisioned is status.initialization.infrastructureProvisioned.
Clusters == [phase : Phases, paused : BOOLEAN, provisioned : BOOLEAN]
NoCluster == [phase |-> "gone", paused |-> FALSE, provisioned |-> FALSE]

\* paused and external are annotations, owned tells of the owner reference.
Infras == [phase : Phases, paused : BOOLEAN, external : BOOLEAN, owned : BOOLEAN,
           finalizer : BOOLEAN, provisioned : BOOLEAN]
NoInfra == [phase |-> "gone", paused |-> FALSE, external |-> FALSE, owned |-> FALSE,
            finalizer |-> FALSE, provisioned |-> FALSE]

TypeOK ==
    /\ cluster \in Clusters /\ infra \in Infras
    /\ cache \in [cluster : Clusters, infra : Infras]
    /\ queued \in BOOLEAN
    /\ pass \in {"none", "adopt", "provision", "release"}
    /\ pass # "none" => infra = NoInfra \/ infra.owned
    /\ machine \in [Machines -> [phase : Phases, adopted : BOOLEAN, running : BOOLEAN]]
    /\ waiting \subseteq Machines
    /\ faults \in [all : 0..MaxFaults, direct : BOOLEAN, dropped : BOOLEAN]

Fault(kind) ==
    /\ kind \in FaultKinds
    /\ faults.all < MaxFaults
    /\ faults' = [all     |-> faults.all + 1,
                  direct  |-> faults.direct \/ kind = "direct",
                  dropped |-> faults.dropped \/ kind = "patch"]

\* The informers have not listed anything yet.
Init ==
    /\ cluster = [phase |-> "live", paused |-> FALSE, provisioned |-> FALSE]
    /\ infra \in [phase : {"live"}, paused : {FALSE}, external : BOOLEAN, owned : {FALSE},
                  finalizer : {FALSE}, provisioned : {FALSE}]
    /\ cache = [cluster |-> NoCluster, infra |-> NoInfra]
    /\ queued = FALSE
    /\ pass = "none"
    /\ machine = [m \in Machines |->
                    [phase |-> "live", adopted |-> FALSE, running |-> FALSE]]
    /\ waiting = Machines
    /\ faults = [all |-> 0, direct |-> FALSE, dropped |-> FALSE]

-----------------------------------------------------------------------------
(***************************************************************************)
(* The user and Cluster API.                                               *)
(***************************************************************************)

SetOwner ==
    /\ cluster.phase # "gone" /\ infra.phase = "live" /\ ~infra.owned
    /\ infra' = [infra EXCEPT !.owned = TRUE]
    /\ UNCHANGED <<cluster, cache, queued, pass, machine, waiting, faults>>

\* Whoever manages an external KrumkakeCluster provisions it.
ProvisionExternal ==
    /\ infra.phase = "live" /\ infra.external /\ ~infra.provisioned
    /\ infra' = [infra EXCEPT !.provisioned = TRUE]
    /\ UNCHANGED <<cluster, cache, queued, pass, machine, waiting, faults>>

InfrastructureProvisioned ==
    /\ cluster.phase = "live" /\ ~cluster.paused /\ ~cluster.provisioned
    /\ infra.provisioned
    /\ cluster' = [cluster EXCEPT !.provisioned = TRUE]
    /\ UNCHANGED <<infra, cache, queued, pass, machine, waiting, faults>>

\* An unpaused Cluster leaves after its machines and its KrumkakeCluster.
DeleteCluster ==
    /\ \/ cluster.phase = "live" /\ cluster' = [cluster EXCEPT !.phase = "deleting"]
       \/ /\ cluster.phase = "deleting" /\ ~cluster.paused
          /\ \A m \in Machines : machine[m].phase = "gone"
          /\ infra.phase = "gone"
          /\ cluster' = NoCluster
    /\ UNCHANGED <<infra, cache, queued, pass, machine, waiting, faults>>

PauseCluster ==
    /\ cluster.phase # "gone"
    /\ cluster' = [cluster EXCEPT !.paused = ~@]
    /\ UNCHANGED <<infra, cache, queued, pass, machine, waiting, faults>>

PauseInfra ==
    /\ infra.phase # "gone"
    /\ infra' = [infra EXCEPT !.paused = ~@]
    /\ UNCHANGED <<cluster, cache, queued, pass, machine, waiting, faults>>

\* The user deletes a machine, or Cluster API does with its Cluster.
DeleteMachine(m) ==
    /\ machine[m].phase = "live"
    /\ machine' = [machine EXCEPT
                     ![m].phase = IF machine[m].adopted THEN "deleting" ELSE "gone"]
    /\ waiting' = waiting \cup {m}
    /\ UNCHANGED <<cluster, infra, cache, queued, pass, faults>>

\* Cluster API deletes the KrumkakeCluster after the machines; a user may
\* delete it at any time.
DeleteInfra ==
    /\ infra.phase = "live"
    /\ infra' = IF infra.finalizer THEN [infra EXCEPT !.phase = "deleting"] ELSE NoInfra
    /\ \/ /\ cluster.phase = "deleting" /\ ~cluster.paused
          /\ \A m \in Machines : machine[m].phase = "gone"
          /\ UNCHANGED faults
       \/ Fault("direct")
    /\ UNCHANGED <<cluster, cache, queued, pass, machine, waiting>>

-----------------------------------------------------------------------------
(***************************************************************************)
(* Wake-ups: events are filtered, then mapped to objects of the queues.    *)
(***************************************************************************)

Mappable == cache.infra.phase # "gone" /\ ~cache.infra.external

\* ResourceNotPaused is about the object's own annotation.  The event wakes the
\* machines if the owner Cluster is in the cache.
InfraEvent ==
    /\ cache.infra # infra
    /\ cache' = [cache EXCEPT !.infra = infra]
    /\ queued' = (queued \/ ~(infra.paused \/ infra.external))
    /\ waiting' = IF ~infra.paused /\ infra.owned /\ cache.cluster.phase # "gone"
                    THEN Machines ELSE waiting
    /\ UNCHANGED <<cluster, infra, pass, machine, faults>>

\* ClusterUnpaused wakes the KrumkakeCluster; a change of paused or the
\* provisioning of the infrastructure wakes the machines.
UnpausedOnce == cache.cluster.phase = "gone" /\ ~cluster.paused
Unpaused == ~cluster.paused /\ (cache.cluster.phase = "gone" \/ cache.cluster.paused)
WakesNoMachine == FALSE
WakesMachines == /\ cache.cluster.phase # "gone"
                 /\ \/ cluster.paused # cache.cluster.paused
                    \/ cluster.provisioned /\ ~cache.cluster.provisioned

ClusterEvent ==
    /\ cache.cluster # cluster
    /\ cache' = [cache EXCEPT !.cluster = cluster]
    /\ queued' = (queued \/ (Unpaused /\ Mappable))
    /\ waiting' = IF WakesMachines THEN Machines ELSE waiting
    /\ UNCHANGED <<cluster, infra, pass, machine, faults>>

Resync ==
    /\ queued' = (queued \/ ~(cache.infra.phase = "gone" \/ cache.infra.paused
                                \/ cache.infra.external))
    /\ waiting' = Machines
    /\ UNCHANGED <<cluster, infra, cache, pass, machine, faults>>

\* The restarted manager lists everything, and every object is an event.
Crash ==
    /\ Fault("crash")
    /\ pass' = "none"
    /\ cache' = [cluster |-> cluster, infra |-> infra]
    /\ queued' = /\ infra.phase # "gone" /\ ~infra.external
                 /\ ~(infra.paused /\ cluster.paused)
    /\ waiting' = Machines
    /\ UNCHANGED <<cluster, infra, machine>>

-----------------------------------------------------------------------------
(***************************************************************************)
(* Reconcile of the KrumkakeCluster.                                       *)
(***************************************************************************)

Paused == cache.cluster.paused \/ cache.infra.paused

\* Without an owner the pass ends; an owner that cannot be read is an error,
\* and the KrumkakeCluster stays in the queue.
IgnoredIfPaused ==
    \/ cache.infra.phase = "gone" \/ cache.infra.external
    \/ cache.cluster.phase # "gone" /\ Paused
Ignored == \/ cache.infra.phase = "gone" \/ cache.infra.external \/ ~cache.infra.owned
           \/ cache.cluster.phase # "gone" /\ Paused

ReconcileNothing ==
    /\ pass = "none" /\ queued /\ Ignored
    /\ queued' = FALSE
    /\ UNCHANGED <<cluster, infra, cache, pass, machine, waiting, faults>>

\* The copy holds the finalizer.
AdoptedAnyway == TRUE
Adopted == cache.infra.finalizer

\* What the branch taken patches; nothing where provisioned is set already.
Reconcile ==
    /\ pass = "none" /\ queued
    /\ ~Ignored /\ cache.cluster.phase # "gone"
    /\ queued' = FALSE
    /\ \/ ~Adopted /\ pass' = "adopt"
       \/ Adopted /\ cache.infra.phase = "deleting" /\ pass' = "release"
       \/ /\ Adopted /\ cache.infra.phase = "live"
          /\ pass' = IF cache.infra.provisioned THEN "none" ELSE "provision"
    /\ UNCHANGED <<cluster, infra, cache, machine, waiting, faults>>

\* The deferred patch; an error is dropped.  An object being deleted takes no
\* new finalizer, and leaves with its last one.
Patched ==
    CASE infra.phase = "gone" \/ pass = "release" -> NoInfra
      [] infra.phase # "gone" /\ pass = "adopt" -> [infra EXCEPT !.finalizer = TRUE]
      [] infra.phase # "gone" /\ pass = "provision" -> [infra EXCEPT !.provisioned = TRUE]

Patch ==
    /\ pass # "none"
    /\ \/ infra' = Patched /\ UNCHANGED faults
       \/ Fault("patch") /\ UNCHANGED infra
    /\ pass' = "none"
    /\ UNCHANGED <<cluster, cache, queued, machine, waiting>>

-----------------------------------------------------------------------------
(***************************************************************************)
(* Reconcile of a KrumkakeMachine, by what it reads of the two.            *)
(***************************************************************************)

\* A missing KrumkakeCluster ends the pass, of a machine being deleted too; a
\* missing Cluster is an error, and the machine stays in the queue.
Stops(m) == \/ machine[m].phase = "gone"
            \/ cache.cluster.phase # "gone" /\ (cache.infra.phase = "gone" \/ Paused)

MachineStops(m) ==
    /\ m \in waiting /\ Stops(m)
    /\ waiting' = waiting \ {m}
    /\ UNCHANGED <<cluster, infra, cache, queued, pass, machine, faults>>

\* reconcileNormal goes on once the Cluster says its infrastructure is there,
\* reconcileDelete at any time.
Provisioned == cache.cluster.provisioned
LeavingProvisioned(m) == machine[m].phase = "deleting" /\ Provisioned
Leaving(m) == machine[m].phase = "deleting"

\* The event of its own patch brings an adopted machine back.
MachineReconciles(m) ==
    /\ m \in waiting /\ ~Stops(m) /\ cache.cluster.phase # "gone"
    /\ \/ /\ ~machine[m].adopted
          /\ machine' = [machine EXCEPT ![m].adopted = TRUE]
          /\ UNCHANGED waiting
       \/ /\ machine[m].adopted /\ Leaving(m)
          /\ machine' = [machine EXCEPT ![m].phase = "gone", ![m].running = FALSE]
          /\ waiting' = waiting \ {m}
       \/ /\ machine[m].adopted /\ ~Leaving(m)
          /\ machine' = [machine EXCEPT ![m].running = @ \/ Provisioned]
          /\ waiting' = waiting \ {m}
    /\ UNCHANGED <<cluster, infra, cache, queued, pass, faults>>

-----------------------------------------------------------------------------
Controls == ReconcileNothing \/ Reconcile \/ Patch
Handles(m) == MachineStops(m) \/ MachineReconciles(m)

Next == \/ SetOwner \/ ProvisionExternal \/ InfrastructureProvisioned
        \/ DeleteCluster \/ DeleteInfra \/ PauseCluster \/ PauseInfra
        \/ InfraEvent \/ ClusterEvent \/ Resync \/ Crash
        \/ Controls
        \/ \E m \in Machines : DeleteMachine(m) \/ Handles(m)

Spec == Init /\ [][Next]_vars

\* Both workers work, the watch streams deliver, and Cluster API does its part:
\* it deletes what belongs to a Cluster being deleted unless that is paused.  The
\* periodic resync comes every ten hours: it is counted on only after a patch
\* was dropped.
FairSpec ==
    /\ Spec
    /\ WF_vars(Controls)
    /\ \A m \in Machines : WF_vars(Handles(m))
    /\ WF_vars(InfraEvent) /\ WF_vars(ClusterEvent)
    /\ WF_vars(SetOwner) /\ WF_vars(ProvisionExternal)
    /\ WF_vars(InfrastructureProvisioned)
    /\ WF_vars(cluster.phase = "deleting" /\ (DeleteCluster \/ DeleteInfra))
    /\ \A m \in Machines :
          WF_vars(cluster.phase = "deleting" /\ ~cluster.paused /\ DeleteMachine(m))
    /\ WF_vars(faults.dropped /\ Resync)

-----------------------------------------------------------------------------
(***************************************************************************)
(* Properties.                                                             *)
(***************************************************************************)

\* An instance runs only under a KrumkakeCluster that the controller had
\* adopted before, so that deleting it takes a pass of the controller, unless
\* somebody else manages it: the finalizer comes before provisioned, and a
\* machine acts on provisioned by way of two copies.
RunsOnlyAdopted ==
    (\E m \in Machines : machine[m].running)
        => infra.phase = "gone" \/ infra.external \/ infra.finalizer

Settled == ~cluster.paused /\ ~infra.paused

\* A machine that stays in a Cluster that stays and does not stay paused comes
\* to run: the KrumkakeCluster is adopted and provisioned, the Cluster learns of
\* it and the machine learns of that, each by an event.
MachinesProvision ==
    \A m \in Machines :
        <>[](cluster.phase = "live" /\ infra.phase = "live" /\ Settled)
            => <>(machine[m].running \/ machine[m].phase # "live")

\* What is deleted leaves, a machine, and the Cluster after its machines and the
\* KrumkakeCluster, unless the KrumkakeCluster was deleted before them: then no
\* pass reaches a machine's deletion any more.
DeletionsEnd ==
    <>[](Settled /\ ~faults.direct)
        => /\ \A m \in Machines :
                 [](machine[m].phase = "deleting" => <>(machine[m].phase = "gone"))
           /\ [](cluster.phase = "deleting" => <>(cluster.phase = "gone"))
================================================================================
