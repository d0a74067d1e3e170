-------------------------- MODULE KrumkakeMachineInv --------------------------
(***************************************************************************)
(* The inductive invariant of KrumkakeMachine: what relates the API        *)
(* server, the cache, the pass under way and the cloud, however stale each *)
(* copy is.                                                                *)
(***************************************************************************)
EXTENDS KrumkakeMachine

\* An object only moves from live to deleting to gone.
Reaches(p, q) == p = q \/ p = "live" \/ q = "gone"

HoldsFinalizer(o) == o.phase # "gone" /\ o.finalizer

\* The steps between reading the object and returning.
Calls == {"create", "get", "detach", "find", "destroy"}

\* The pass read the object before the cache's copy was taken, and that before
\* the API server's copy: no copy is ahead of a later one.
Ordered ==
    /\ \A m \in Machines : Reaches(cache[m].phase, obj[m].phase)
    /\ pass.step # "idle" => /\ pass.base.phase # "gone"
                             /\ Reaches(pass.base.phase, cache[pass.machine].phase)

\* A copy that is live and holds the finalizer proves that the object still
\* does, for only a pass over a deleting copy takes the finalizer away.
Guarded ==
    /\ \A m \in Machines :
          cache[m].phase = "live" /\ cache[m].finalizer => HoldsFinalizer(obj[m])
    /\ pass.step # "idle" /\ pass.base.phase = "live" /\ pass.base.finalizer
          => HoldsFinalizer(obj[pass.machine])

\* Every step of a pass has passed the checks on its way there.
Dispatched ==
    /\ pass.step \in Calls => pass.view = pass.base /\ pass.base.finalizer
    /\ pass.step \in {"create", "get"} => pass.base.phase = "live"
    /\ pass.step \in {"detach", "find", "destroy"} => pass.base.phase = "deleting"
    /\ pass.step = "create" => pass.base.providerID = None
    /\ pass.step = "patchSpec" /\ pass.base.finalizer /\ ~pass.view.finalizer
          => pass.base.phase = "deleting"

\* A copy of m names only an instance that was created for m.
Names(o, m) ==
    o.providerID \in Ids =>
        instance[o.providerID].owner = m /\ instance[o.providerID].state # "unused"

Owned ==
    /\ \A m \in Machines : Names(obj[m], m) /\ Names(cache[m], m)
    /\ pass.step # "idle" => Names(pass.base, pass.machine) /\ Names(pass.view, pass.machine)

SafetyInv == TypeOK /\ Ordered /\ Guarded /\ Dispatched /\ Owned

-----------------------------------------------------------------------------
\* A named instance is protected by its object's finalizer.
Protected == \A m \in Machines : obj[m].providerID \in Ids => obj[m].finalizer

\* The pass about to patch gives up an instance only when it is dead, and
\* writes down a new one only over a live object that named none.
Settled ==
    pass.step = "patchSpec" =>
        /\ pass.base.providerID \in Ids =>
              \/ pass.view.providerID = pass.base.providerID /\ pass.view.finalizer
              \/ ~Alive(pass.base.providerID)
        /\ pass.view.providerID # pass.base.providerID =>
              /\ pass.base.finalizer /\ pass.view.finalizer
              /\ pass.view.providerID # None =>
                    pass.base.phase = "live" /\ pass.base.providerID = None

\* A pass that works on an outdated providerID may still leak the instance the
\* object names by now; the stale read that made it so is paid already.
Debt == IF /\ pass.step \notin {"idle", "patchStatus"}
           /\ obj[pass.machine].phase # "gone"
           /\ obj[pass.machine].providerID # pass.base.providerID
          THEN 1 ELSE 0

Accounted == IsFiniteSet(Leaked) /\ Cardinality(Leaked) + Debt <= faults.slips

LeakInv == SafetyInv /\ Protected /\ Settled /\ Accounted
================================================================================
