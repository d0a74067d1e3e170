------------------------ MODULE KrumkakeMachineProofs ------------------------
(***************************************************************************)
(* Theorems about KrumkakeMachine, for every set of machines, of instance  *)
(* IDs and of faults.                                                      *)
(***************************************************************************)
EXTENDS KrumkakeMachineInv, FiniteSetTheorems, TLAPS

-----------------------------------------------------------------------------
(***************************************************************************)
(* Types.                                                                  *)
(***************************************************************************)

\* A fault keeps both counters within the bound, slips below all faults.
LEMMA FaultType ==
    ASSUME TypeOK, NEW kind, Fault(kind)
    PROVE  /\ faults' \in [all : 0..MaxFaults, slips : 0..MaxFaults, dropped : BOOLEAN]
           /\ faults'.slips <= faults'.all
  BY ConstantsAssumption DEF TypeOK, Fault

\* The worker's idle state is a pass.
LEMMA IdleType == Idle \in Passes
  BY DEF Idle, Passes, Steps, Gone, Objects, Phases

\* The initial states are well typed.
LEMMA InitType == Init => TypeOK
  <1>. SUFFICES ASSUME Init PROVE TypeOK
    OBVIOUS
  <1>1. obj \in [Machines -> Objects]
    <2>1. {[phase |-> "live", finalizer |-> FALSE, providerID |-> p,
            provisioned |-> FALSE] : p \in {None, Foreign}} \subseteq Objects
      <3>1. ASSUME NEW p \in {None, Foreign}
            PROVE  [phase |-> "live", finalizer |-> FALSE, providerID |-> p,
                    provisioned |-> FALSE] \in Objects
        BY <3>1 DEF Objects, Phases
      <3>. QED BY <3>1
    <2>. QED BY <2>1 DEF Init
  <1>2. instance \in [Ids -> Instances]
    BY DEF Init, Instances
  <1>3. gate \in [Machines -> GateValues]
    BY ConstantsAssumption DEF Init
  <1>4. faults \in [all : 0..MaxFaults, slips : 0..MaxFaults, dropped : BOOLEAN] /\ faults.slips <= faults.all
    BY ConstantsAssumption DEF Init
  <1>. QED BY <1>1, <1>2, <1>3, <1>4, IdleType DEF Init, TypeOK, Idle

\* What Picks leaves alone, and that its fault is well typed.
LEMMA PicksType ==
    ASSUME TypeOK, NEW m \in Machines, Picks(m)
    PROVE  /\ UNCHANGED <<obj, cache, gate, instance>>
           /\ faults' \in [all : 0..MaxFaults, slips : 0..MaxFaults, dropped : BOOLEAN]
           /\ faults'.slips <= faults'.all
  BY FaultType DEF TypeOK, Picks

\* A call that returns goes on to the deferred patch.
LEMMA ReturnsType ==
    ASSUME TypeOK, NEW view \in Objects, NEW again \in BOOLEAN, Returns(view, again)
    PROVE  /\ pass' \in Passes
           /\ pass'.step = "patchSpec"
           /\ pass'.machine = pass.machine
  BY DEF Returns, TypeOK, Passes, Steps

\* Merging the pass's changes into an object yields an object.
LEMMA MergeType ==
    ASSUME TypeOK, NEW o \in Objects
    PROVE  Merge(o) \in Objects
  <1>. DEFINE f == IF pass.base.finalizer # pass.view.finalizer
                     THEN pass.view.finalizer ELSE o.finalizer
              p == IF pass.base.providerID # pass.view.providerID
                     THEN pass.view.providerID ELSE o.providerID
  <1>1. f \in BOOLEAN
    BY DEF TypeOK, Passes, Objects
  <1>2. p \in Ids \cup {None, Foreign}
    BY DEF TypeOK, Passes, Objects
  <1>3. Merge(o) \in {Gone, [o EXCEPT !.finalizer = f, !.providerID = p]}
    BY DEF Merge
  <1>. HIDE DEF f, p
  <1>4. [o EXCEPT !.finalizer = f, !.providerID = p] \in Objects
    BY <1>1, <1>2 DEF Objects
  <1>5. Gone \in Objects
    BY DEF Gone, Objects, Phases
  <1>. QED BY <1>3, <1>4, <1>5

\* Every step, stuttering included, keeps the types.
LEMMA StepType ==
    ASSUME TypeOK, [Next]_vars
    PROVE  TypeOK'
  <1>. USE ConstantsAssumption
  <1>1. ASSUME NEW m \in Machines, RequestDeletion(m) PROVE TypeOK'
    BY <1>1 DEF RequestDeletion, TypeOK, Objects, Phases, Gone
  <1>2. ASSUME NEW m \in Machines, OwnerChange(m) PROVE TypeOK'
    <2>1. gate' \in [Machines -> GateValues] /\ queue' \subseteq Machines
      BY <1>2 DEF OwnerChange, TypeOK
    <2>2. UNCHANGED <<obj, cache, pass, instance, faults>>
      BY <1>2 DEF OwnerChange
    <2>. QED BY <2>1, <2>2 DEF TypeOK
  <1>3. ASSUME NEW m \in Machines, CacheSync(m) PROVE TypeOK'
    BY <1>3 DEF CacheSync, TypeOK
  <1>4. ASSUME NEW m \in Machines, Resync(m) PROVE TypeOK'
    BY <1>4 DEF Resync, TypeOK
  <1>5. ASSUME NEW m \in Machines, Begin(m) PROVE TypeOK'
    <2>1. cache[m] \in Objects
      BY DEF TypeOK
    <2>2. CASE ReconcileNothing(m)
      BY <2>2, PicksType DEF ReconcileNothing, TypeOK
    <2>3. CASE ReconcileFinalizer(m)
      <3>1. /\ Picks(m)
            /\ Starts(m, "patchSpec", [cache[m] EXCEPT !.finalizer = TRUE], FALSE)
        BY <2>3 DEF ReconcileFinalizer
      <3>2. [cache[m] EXCEPT !.finalizer = TRUE] \in Objects
        BY <2>1 DEF Objects
      <3>. QED BY <2>1, <3>1, <3>2, PicksType DEF Starts, TypeOK, Passes, Steps
    <2>4. CASE reconcileDelete(m)
      BY <2>1, <2>4, PicksType DEF reconcileDelete, Starts, TypeOK, Passes, Steps
    <2>5. CASE reconcileNormal(m)
      <3>1. PICK step \in {"patchSpec", "create", "get"}, view \in Objects,
                 again \in BOOLEAN :
              /\ Starts(m, step, view, again)
              /\ step = "get" => view.providerID \in Ids
        BY <2>1, <2>5 DEF reconcileNormal, HostedId, Objects
      <3>2. /\ Picks(m)
        BY <2>5 DEF reconcileNormal
      <3>. QED BY <2>1, <3>1, <3>2, PicksType DEF Starts, TypeOK, Passes, Steps
    <2>. QED BY <1>5, <2>2, <2>3, <2>4, <2>5 DEF Begin
  <1>6. ASSUME NEW i \in Ids, InstanceReady(i) PROVE TypeOK'
    BY <1>6 DEF InstanceReady, TypeOK, Instances
  <1>7. ASSUME NEW i \in Ids, Vanish(i) PROVE TypeOK'
    BY <1>7, FaultType DEF Vanish, TypeOK, Instances
  <1>8. CASE InstanceCreate
    <2>1. PICK view \in Objects, again \in BOOLEAN : Returns(view, again)
      BY <1>8 DEF InstanceCreate, Forget, OnError, TypeOK, Passes, Objects
    <2>2. instance' \in [Ids -> Instances]
      <3>1. pass.machine \in Machines
        BY <1>8 DEF InstanceCreate, TypeOK
      <3>2. [owner |-> pass.machine, state |-> "installing"] \in Instances
        BY <3>1 DEF Instances
      <3>3. \/ UNCHANGED instance
            \/ \E i \in Ids :
                 instance' = [instance EXCEPT ![i] =
                                [owner |-> pass.machine, state |-> "installing"]]
        BY <1>8 DEF InstanceCreate
      <3>. QED BY <3>2, <3>3 DEF TypeOK
    <2>. QED BY <1>8, <2>1, <2>2, FaultType, ReturnsType DEF InstanceCreate, Returns, TypeOK
  <1>9. CASE InstanceGet
    <2>1. PICK view \in Objects, again \in BOOLEAN : Returns(view, again)
      BY <1>9 DEF InstanceGet, Forget, OnError, Polls, TypeOK, Passes, Objects
    <2>. QED BY <1>9, <2>1, FaultType, ReturnsType DEF InstanceGet, Returns, TypeOK
  <1>10. CASE reconcileLoadBalancer
    <2>1. CASE pass.view.providerID \in Ids /\ Goes("find")
      BY <1>10, <2>1, FaultType
      DEF reconcileLoadBalancer, Goes, TypeOK, Passes, Steps
    <2>2. ASSUME NEW view \in Objects, Returns(view, FALSE) \/ Returns(view, TRUE)
          PROVE  TypeOK'
      BY <1>10, <2>2, FaultType, ReturnsType
      DEF reconcileLoadBalancer, Returns, TypeOK
    <2>. QED BY <1>10, <2>1, <2>2
             DEF reconcileLoadBalancer, Released, OnError, TypeOK, Passes, Objects
  <1>11. CASE FindForDelete
    <2>1. CASE Goes("destroy")
      BY <1>11, <2>1, FaultType DEF FindForDelete, Goes, TypeOK, Passes, Steps
    <2>2. ASSUME NEW view \in Objects, Returns(view, FALSE) \/ Returns(view, TRUE)
          PROVE  TypeOK'
      BY <1>11, <2>2, FaultType, ReturnsType DEF FindForDelete, Returns, TypeOK
    <2>. QED BY <1>11, <2>1, <2>2
             DEF FindForDelete, Forget, OnError, TypeOK, Passes, Objects
  <1>12. CASE InstanceDelete
    <2>1. PICK view \in Objects, again \in BOOLEAN : Returns(view, again)
      BY <1>12 DEF InstanceDelete, Released, OnError, TypeOK, Passes, Objects
    <2>2. instance' \in [Ids -> Instances]
      <3>1. \/ UNCHANGED instance
            \/ \E i \in Ids : instance' = [instance EXCEPT ![i].state = "gone"]
        BY <1>12 DEF InstanceDelete, TypeOK
      <3>. QED BY <3>1 DEF TypeOK, Instances
    <2>. QED BY <1>12, <2>1, <2>2, FaultType, ReturnsType DEF InstanceDelete, Returns, TypeOK
  <1>13. CASE PatchSpec
    <2>1. Merge(obj[pass.machine]) \in Objects
      BY <1>13, MergeType DEF PatchSpec, TypeOK
    <2>2. obj' \in [Machines -> Objects]
      BY <1>13, <2>1 DEF PatchSpec, TypeOK
    <2>. QED BY <1>13, <2>2, FaultType DEF PatchSpec, Goes, TypeOK, Passes, Steps
  <1>14. CASE PatchStatus
    <2>1. obj' \in [Machines -> Objects]
      BY <1>14 DEF PatchStatus, TypeOK, Passes, Objects
    <2>. QED BY <1>14, <2>1, IdleType, FaultType DEF PatchStatus, TypeOK, Idle
  <1>15. CASE Crash
    BY <1>15, IdleType, FaultType DEF Crash, TypeOK, Idle
  <1>16. CASE UNCHANGED vars
    BY <1>16 DEF vars, TypeOK
  <1>. QED BY <1>1, <1>2, <1>3, <1>4, <1>5, <1>6, <1>7, <1>8, <1>9, <1>10,
              <1>11, <1>12, <1>13, <1>14, <1>15, <1>16 DEF Next, Works

\* The objects, the cache, the pass, the instances and the fault counters keep
\* their types; a pass that asks Vultr about an instance has an ID to ask for.
THEOREM TypeCorrect == Spec => []TypeOK
  BY InitType, StepType, PTL DEF Spec
-----------------------------------------------------------------------------
(***************************************************************************)
(* What the two kinds of step of the worker do to the pass.                *)
(***************************************************************************)

\* A pass begins with the cache's copy as its base, and goes on to a call only
\* with a copy that has passed the checks.
LEMMA BeginFacts ==
    ASSUME TypeOK, NEW m \in Machines, Begin(m)
    PROVE  /\ UNCHANGED <<obj, cache, gate, instance>>
           /\ pass.step = "idle"
           /\ \/ UNCHANGED pass
              \/ /\ pass'.machine = m /\ pass'.base = cache[m]
                 /\ pass'.step \in {"patchSpec", "create", "get", "detach"}
                 /\ cache[m].phase # "gone"
                 /\ pass'.view.providerID = cache[m].providerID
                 /\ pass'.view.finalizer
                 /\ pass'.step \in Calls =>
                       pass'.view = cache[m] /\ cache[m].finalizer
                 /\ pass'.step \in {"create", "get"} => cache[m].phase = "live"
                 /\ pass'.step = "create" => cache[m].providerID = None
                 /\ pass'.step = "detach" => cache[m].phase = "deleting"
           /\ \/ cache[m] = obj[m] /\ UNCHANGED faults
              \/ Fault("stale")
  <1>. DEFINE New(step, view) ==
                 /\ pass'.machine = m /\ pass'.base = cache[m]
                 /\ pass'.step = step /\ pass'.view = view
  <1>1. cache[m] \in Objects /\ cache[m].phase \in Phases
    BY DEF TypeOK, Objects
  <1>2. Picks(m)
    BY DEF Begin, ReconcileNothing, ReconcileFinalizer, reconcileDelete, reconcileNormal
  <1>3. /\ UNCHANGED <<obj, cache, gate, instance>>
        /\ pass.step = "idle"
        /\ (cache[m] = obj[m] /\ UNCHANGED faults) \/ Fault("stale")
    BY <1>2 DEF Picks
  <1>4. CASE ReconcileNothing(m)
    BY <1>3, <1>4 DEF ReconcileNothing
  <1>5. CASE ReconcileFinalizer(m)
    <2>1. /\ New("patchSpec", [cache[m] EXCEPT !.finalizer = TRUE])
          /\ cache[m].phase # "gone"
      BY <1>5 DEF ReconcileFinalizer, Starts, Reconcilable
    <2>. QED BY <1>1, <1>3, <2>1 DEF Objects, Calls
  <1>6. CASE reconcileDelete(m)
    <2>1. /\ New("detach", cache[m])
          /\ cache[m].phase = "deleting" /\ cache[m].finalizer
      BY <1>1, <1>6 DEF reconcileDelete, Starts, Reconcilable, Adopted, Wanted, Phases
    <2>. QED BY <1>3, <2>1
  <1>7. CASE reconcileNormal(m)
    <2>1. /\ cache[m].phase = "live" /\ cache[m].finalizer
          /\ \/ New("patchSpec", cache[m])
             \/ New("patchSpec", [cache[m] EXCEPT !.provisioned = TRUE])
             \/ New("create", cache[m]) /\ cache[m].providerID = None
             \/ New("get", cache[m])
      <3>1. cache[m].phase = "live" /\ cache[m].finalizer
        BY <1>7 DEF reconcileNormal, Adopted, Wanted
      <3>2. \E again \in BOOLEAN :
               \/ Starts(m, "patchSpec", cache[m], again)
               \/ Starts(m, "patchSpec", [cache[m] EXCEPT !.provisioned = TRUE], again)
               \/ Starts(m, "create", cache[m], again) /\ cache[m].providerID = None
               \/ Starts(m, "get", cache[m], again)
        BY <1>7 DEF reconcileNormal
      <3>3. ASSUME NEW step, NEW view, NEW again, Starts(m, step, view, again)
            PROVE  New(step, view)
        BY <3>3 DEF Starts
      <3>. QED BY <3>1, <3>2, <3>3
    <2>. QED BY <1>1, <1>3, <2>1 DEF Objects, Calls
  <1>. QED BY <1>4, <1>5, <1>6, <1>7 DEF Begin

\* A call leaves the objects, the cache and the pass's base alone.  Either it
\* goes on to the next call or it returns; it gives up the instance, or the
\* finalizer, only when no instance is left, and writes an ID down only when
\* Vultr has just given it out.
LEMMA CallFacts ==
    ASSUME TypeOK, Dispatched,
           \/ InstanceCreate \/ InstanceGet \/ reconcileLoadBalancer
           \/ FindForDelete \/ InstanceDelete
    PROVE  /\ UNCHANGED <<obj, cache, queue, gate>>
           /\ pass.step \in Calls
           /\ pass'.machine = pass.machine /\ pass'.base = pass.base
           /\ pass.step = "detach" => pass'.step \in {"find", "patchSpec"}
           /\ pass.step = "find" => pass'.step \in {"destroy", "patchSpec"}
           /\ pass.step \notin {"detach", "find"} => pass'.step = "patchSpec"
           /\ \/ pass'.view = pass.view
              \/ /\ pass'.step = "patchSpec"
                 /\ pass'.view.finalizer = pass.view.finalizer
                 /\ pass'.view.providerID = pass.view.providerID
              \/ /\ pass'.step = "patchSpec"
                 /\ pass'.view.finalizer = pass.view.finalizer
                 /\ pass'.view.providerID = None
                 /\ pass.view.providerID \in Ids =>
                       instance'[pass.view.providerID].state \notin {"installing", "ok"}
              \/ /\ pass'.step = "patchSpec"
                 /\ pass.step \in {"detach", "destroy"}
                 /\ pass'.view.finalizer = FALSE
                 /\ pass'.view.providerID = pass.view.providerID
                 /\ pass.view.providerID \in Ids =>
                       instance'[pass.view.providerID].state \notin {"installing", "ok"}
              \/ /\ pass'.step = "patchSpec"
                 /\ pass.step = "create"
                 /\ pass'.view.finalizer = pass.view.finalizer
                 /\ pass'.view.providerID \in Ids
                 /\ instance[pass'.view.providerID].state = "unused"
                 /\ instance' = [instance EXCEPT ![pass'.view.providerID] =
                                   [owner |-> pass.machine, state |-> "installing"]]
  <1>. DEFINE Dead == instance'[pass.view.providerID].state \notin {"installing", "ok"}
              Same == pass'.machine = pass.machine /\ pass'.base = pass.base
  <1>. pass \in Passes /\ pass.view \in Objects
    BY DEF TypeOK, Passes
  <1>a. ASSUME NEW view, NEW again, Returns(view, again)
        PROVE  Same /\ pass'.step = "patchSpec" /\ pass'.view = view
    BY <1>a DEF Returns, Passes
  <1>b. ASSUME NEW step, Goes(step)
        PROVE  Same /\ pass'.step = step /\ pass'.view = pass.view
    BY <1>b DEF Goes, Passes
  <1>1. CASE InstanceCreate
    <2>1. pass.step = "create" /\ pass.view.providerID = None
      BY <1>1 DEF InstanceCreate, Dispatched, Calls
    <2>2. /\ Same /\ pass'.step = "patchSpec"
          /\ \/ \E i \in Ids :
                    /\ instance[i].state = "unused"
                    /\ instance' = [instance EXCEPT ![i] =
                                      [owner |-> pass.machine, state |-> "installing"]]
                    /\ pass'.view = [pass.view EXCEPT !.providerID = i]
             \/ pass'.view \in {pass.view, [pass.view EXCEPT !.providerID = None]}
      BY <1>1, <1>a DEF InstanceCreate, OnError, Forget
    <2>3. UNCHANGED <<obj, cache, queue, gate>>
      BY <1>1 DEF InstanceCreate
    <2>. QED BY <2>1, <2>2, <2>3, ConstantsAssumption DEF Calls, Objects
  <1>2. CASE InstanceGet
    <2>1. /\ Same /\ pass'.step = "patchSpec"
          /\ \/ pass'.view \in {pass.view, [pass.view EXCEPT !.provisioned = TRUE]}
             \/ /\ ~Alive(pass.view.providerID)
                /\ pass'.view = [pass.view EXCEPT !.providerID = None]
      BY <1>2, <1>a DEF InstanceGet, OnError, Forget
    <2>2. pass.step = "get" /\ UNCHANGED <<obj, cache, queue, gate, instance>>
      BY <1>2 DEF InstanceGet
    <2>. QED BY <2>1, <2>2 DEF Calls, Objects, Alive
  <1>3. CASE reconcileLoadBalancer
    <2>1. /\ Same
          /\ \/ pass'.step \in {"find", "patchSpec"} /\ pass'.view = pass.view
             \/ /\ pass'.step = "patchSpec"
                /\ pass.view.providerID \notin Ids
                /\ pass'.view = [pass.view EXCEPT !.finalizer = FALSE]
      BY <1>3, <1>a, <1>b DEF reconcileLoadBalancer, OnError, Released
    <2>2. pass.step = "detach" /\ UNCHANGED <<obj, cache, queue, gate, instance>>
      BY <1>3 DEF reconcileLoadBalancer
    <2>. QED BY <2>1, <2>2 DEF Calls, Objects
  <1>4. CASE FindForDelete
    <2>1. /\ Same
          /\ \/ pass'.step \in {"destroy", "patchSpec"} /\ pass'.view = pass.view
             \/ /\ pass'.step = "patchSpec"
                /\ ~Alive(pass.view.providerID)
                /\ pass'.view = [pass.view EXCEPT !.providerID = None]
      BY <1>4, <1>a, <1>b DEF FindForDelete, OnError, Forget
    <2>2. pass.step = "find" /\ UNCHANGED <<obj, cache, queue, gate, instance>>
      BY <1>4 DEF FindForDelete
    <2>. QED BY <2>1, <2>2 DEF Calls, Objects, Alive
  <1>5. CASE InstanceDelete
    <2>1. pass.step = "destroy" /\ pass.view.providerID \in Ids
      BY <1>5 DEF InstanceDelete, TypeOK
    <2>2. /\ Same /\ pass'.step = "patchSpec"
          /\ \/ pass'.view = pass.view
             \/ /\ instance' = [instance EXCEPT ![pass.view.providerID].state = "gone"]
                /\ pass'.view = [pass.view EXCEPT !.finalizer = FALSE]
      BY <1>5, <1>a DEF InstanceDelete, OnError, Released
    <2>3. UNCHANGED <<obj, cache, queue, gate>>
      BY <1>5 DEF InstanceDelete
    <2>4. instance' = [instance EXCEPT ![pass.view.providerID].state = "gone"]
             => Dead
      BY <2>1, <2>2 DEF TypeOK, Instances
    <2>. QED BY <2>1, <2>2, <2>3, <2>4 DEF Calls, Objects
  <1>. QED BY <1>1, <1>2, <1>3, <1>4, <1>5

\* Instances that were handed out keep their owner, and a dead one stays dead.
LEMMA InstanceFacts ==
    ASSUME TypeOK, [Next]_vars, NEW i \in Ids, instance[i].state # "unused"
    PROVE  /\ instance'[i].owner = instance[i].owner
           /\ instance'[i].state # "unused"
           /\ Alive(i)' => Alive(i)
  <1>. USE DEF TypeOK, Instances, Alive
  <1>1. ASSUME NEW m \in Machines,
               \/ RequestDeletion(m) \/ OwnerChange(m) \/ CacheSync(m) \/ Resync(m)
        PROVE  UNCHANGED instance
    BY <1>1 DEF RequestDeletion, OwnerChange, CacheSync, Resync
  <1>2. ASSUME NEW m \in Machines, Begin(m) PROVE UNCHANGED instance
    BY <1>2, BeginFacts
  <1>3. CASE \/ InstanceGet \/ reconcileLoadBalancer \/ FindForDelete
             \/ PatchSpec \/ PatchStatus \/ Crash
    BY <1>3 DEF InstanceGet, reconcileLoadBalancer, FindForDelete, PatchSpec,
                PatchStatus, Crash
  <1>4. ASSUME NEW j \in Ids, InstanceReady(j) \/ Vanish(j)
        PROVE  instance' \in {[instance EXCEPT ![j].state = s] : s \in {"ok", "gone"}}
               /\ Alive(j)
    BY <1>4 DEF InstanceReady, Vanish
  <1>5. CASE InstanceCreate
    <2>1. \/ UNCHANGED instance
          \/ \E j \in Ids :
               /\ j # i
               /\ instance' = [instance EXCEPT ![j] =
                                 [owner |-> pass.machine, state |-> "installing"]]
      BY <1>5 DEF InstanceCreate
    <2>. QED BY <2>1
  <1>6. CASE InstanceDelete
    <2>1. \/ UNCHANGED instance
          \/ \E j \in Ids : instance' = [instance EXCEPT ![j].state = "gone"]
      BY <1>6 DEF InstanceDelete
    <2>. QED BY <2>1
  <1>. QED BY <1>1, <1>2, <1>3, <1>4, <1>5, <1>6 DEF Next, Works, vars

\* The patch of metadata and spec writes only what the pass changed, and only
\* over an object that is still there.
LEMMA PatchSpecFacts ==
    ASSUME TypeOK, PatchSpec
    PROVE  LET f == IF pass.base.finalizer # pass.view.finalizer
                      THEN pass.view.finalizer ELSE obj[pass.machine].finalizer
               p == IF pass.base.providerID # pass.view.providerID
                      THEN pass.view.providerID ELSE obj[pass.machine].providerID
           IN  /\ UNCHANGED <<cache, queue, gate, instance>>
               /\ pass.step = "patchSpec" /\ pass'.step = "patchStatus"
               /\ pass'.machine = pass.machine /\ pass'.base = pass.base
               /\ pass'.view = pass.view
               /\ \A n \in Machines : n # pass.machine => obj'[n] = obj[n]
               /\ \/ /\ UNCHANGED obj
                     /\ \/ /\ SpecDiffers => obj[pass.machine].phase = "gone"
                           /\ UNCHANGED faults
                        \/ Fault("patch")
                  \/ /\ UNCHANGED faults
                     /\ obj[pass.machine].phase = "deleting" /\ ~f
                     /\ obj'[pass.machine] = Gone
                  \/ /\ UNCHANGED faults
                     /\ obj[pass.machine].phase # "gone"
                     /\ obj[pass.machine].phase = "deleting" => f
                     /\ obj'[pass.machine].phase = obj[pass.machine].phase
                     /\ obj'[pass.machine].finalizer = f
                     /\ obj'[pass.machine].providerID = p
  <1>. DEFINE f == IF pass.base.finalizer # pass.view.finalizer
                     THEN pass.view.finalizer ELSE obj[pass.machine].finalizer
              p == IF pass.base.providerID # pass.view.providerID
                     THEN pass.view.providerID ELSE obj[pass.machine].providerID
  <1>1. /\ UNCHANGED <<cache, queue, gate, instance>>
        /\ pass.step = "patchSpec" /\ pass.machine \in Machines
        /\ pass'.step = "patchStatus"
        /\ pass'.machine = pass.machine /\ pass'.base = pass.base
        /\ pass'.view = pass.view
    BY DEF PatchSpec, Goes, TypeOK, Passes
  <1>2. CASE UNCHANGED obj
    <2>1. \/ (SpecDiffers => obj[pass.machine].phase = "gone") /\ UNCHANGED faults
          \/ Fault("patch")
          \/ /\ SpecDiffers /\ obj[pass.machine].phase # "gone" /\ UNCHANGED faults
             /\ obj'[pass.machine] = Merge(obj[pass.machine])
      BY <1>1 DEF PatchSpec, Refused, TypeOK
    <2>2. ASSUME /\ SpecDiffers /\ obj[pass.machine].phase # "gone" /\ UNCHANGED faults
                 /\ obj'[pass.machine] = Merge(obj[pass.machine])
          PROVE  \/ /\ obj[pass.machine].phase = "deleting" /\ ~f
                    /\ obj'[pass.machine] = Gone
                 \/ /\ obj[pass.machine].phase = "deleting" => f
                    /\ obj'[pass.machine].phase = obj[pass.machine].phase
                    /\ obj'[pass.machine].finalizer = f
                    /\ obj'[pass.machine].providerID = p
      BY <1>1, <2>2 DEF Merge, TypeOK, Objects
    <2>. QED BY <1>1, <1>2, <2>1, <2>2
  <1>3. CASE /\ SpecDiffers /\ obj[pass.machine].phase # "gone"
             /\ obj' = [obj EXCEPT ![pass.machine] = Merge(obj[pass.machine])]
             /\ UNCHANGED faults
    <2>1. /\ obj'[pass.machine] = Merge(obj[pass.machine])
          /\ obj[pass.machine] \in Objects
          /\ \A n \in Machines : n # pass.machine => obj'[n] = obj[n]
      BY <1>1, <1>3 DEF TypeOK
    <2>2. \/ /\ obj[pass.machine].phase = "deleting" /\ ~f
             /\ obj'[pass.machine] = Gone
          \/ /\ obj[pass.machine].phase = "deleting" => f
             /\ obj'[pass.machine] = [obj[pass.machine] EXCEPT !.finalizer = f,
                                                               !.providerID = p]
      BY <2>1 DEF Merge
    <2>3. [obj[pass.machine] EXCEPT !.finalizer = f, !.providerID = p].phase
             = obj[pass.machine].phase
          /\ [obj[pass.machine] EXCEPT !.finalizer = f, !.providerID = p].finalizer = f
          /\ [obj[pass.machine] EXCEPT !.finalizer = f, !.providerID = p].providerID = p
      BY <2>1 DEF Objects
    <2>. HIDE DEF f, p
    <2>. QED BY <1>1, <1>3, <2>1, <2>2, <2>3 DEF f, p
  <1>. QED BY <1>1, <1>2, <1>3 DEF PatchSpec, Refused

\* The patch of the status disturbs nothing else, and ends the pass.
LEMMA PatchStatusFacts ==
    ASSUME TypeOK, PatchStatus
    PROVE  /\ UNCHANGED <<cache, gate, instance>>
           /\ pass.step = "patchStatus" /\ pass'.step = "idle"
           /\ \A m \in Machines : /\ obj'[m].phase = obj[m].phase
                                  /\ obj'[m].finalizer = obj[m].finalizer
                                  /\ obj'[m].providerID = obj[m].providerID
           /\ UNCHANGED faults \/ Fault("patch")
  <1>1. \A m \in Machines : obj[m] \in Objects
    BY DEF TypeOK
  <1>2. UNCHANGED obj \/ obj' = [obj EXCEPT ![pass.machine].provisioned =
                                               pass.view.provisioned]
    BY DEF PatchStatus
  <1>3. \A m \in Machines : /\ obj'[m].phase = obj[m].phase
                            /\ obj'[m].finalizer = obj[m].finalizer
                            /\ obj'[m].providerID = obj[m].providerID
    <2>1. DOMAIN obj = Machines
      BY DEF TypeOK
    <2>. QED BY <1>1, <1>2, <2>1 DEF Objects
  <1>. QED BY <1>3 DEF PatchStatus, Idle

-----------------------------------------------------------------------------
(***************************************************************************)
(* The inductive invariant.                                                *)
(***************************************************************************)

\* The steps that touch neither the objects, nor the pass, nor the instances,
\* except that the cache may catch up.
LEMMA QuietFacts ==
    ASSUME TypeOK, NEW m \in Machines,
           OwnerChange(m) \/ CacheSync(m) \/ Resync(m)
    PROVE  /\ UNCHANGED <<obj, pass, instance, faults>>
           /\ \A n \in Machines : cache'[n] \in {cache[n], obj[n]}
  BY DEF OwnerChange, CacheSync, Resync, TypeOK

\* The cloud's own moves leave everything but the instances alone.
LEMMA CloudFacts ==
    ASSUME TypeOK, NEW i \in Ids, InstanceReady(i) \/ Vanish(i)
    PROVE  UNCHANGED <<obj, cache, queue, gate, pass>>
  BY DEF InstanceReady, Vanish

\* A request for deletion touches one object, and loses it only when the
\* object held no finalizer.
LEMMA RequestFacts ==
    ASSUME TypeOK, NEW m \in Machines, RequestDeletion(m)
    PROVE  /\ UNCHANGED <<cache, queue, gate, pass, instance, faults>>
           /\ \A n \in Machines : n # m => obj'[n] = obj[n]
           /\ obj[m].phase = "live"
           /\ \/ ~obj[m].finalizer /\ obj'[m] = Gone
              \/ /\ obj'[m].phase = "deleting"
                 /\ obj[m].finalizer /\ obj'[m].finalizer
                 /\ obj'[m].providerID = obj[m].providerID
  BY DEF RequestDeletion, TypeOK, Objects

\* SafetyInv holds in the initial states.
LEMMA InitInv == Init => SafetyInv
  <1>. SUFFICES ASSUME Init PROVE SafetyInv
    OBVIOUS
  <1>1. TypeOK
    BY InitType
  <1>2. \A m \in Machines : /\ cache[m] = obj[m] /\ obj[m].phase = "live"
                            /\ ~obj[m].finalizer /\ obj[m].providerID \notin Ids
    BY ConstantsAssumption DEF Init
  <1>3. pass.step = "idle"
    BY DEF Init, Idle
  <1>4. Ordered /\ Guarded /\ Owned
    BY <1>2, <1>3 DEF Ordered, Guarded, Owned, Reaches, Names
  <1>5. Dispatched
    BY <1>3 DEF Dispatched, Calls
  <1>. QED BY <1>1, <1>4, <1>5 DEF SafetyInv

\* No copy of an object is ahead of a later one.
LEMMA OrderedStep ==
    ASSUME SafetyInv, [Next]_vars
    PROVE  Ordered'
  <1>. USE DEF SafetyInv
  <1>t. /\ \A m \in Machines : /\ obj[m].phase \in Phases /\ cache[m].phase \in Phases
        /\ pass.base.phase \in Phases
        /\ pass.step # "idle" => pass.machine \in Machines
    BY DEF TypeOK, Objects, Passes
  <1>. USE DEF Ordered, Reaches, Phases
  <1>1. ASSUME NEW m \in Machines, RequestDeletion(m) PROVE Ordered'
    BY <1>t, <1>1, RequestFacts DEF Gone
  <1>2. ASSUME NEW m \in Machines, OwnerChange(m) \/ CacheSync(m) \/ Resync(m)
        PROVE  Ordered'
    BY <1>t, <1>2, QuietFacts
  <1>3. ASSUME NEW m \in Machines, Begin(m) PROVE Ordered'
    BY <1>t, <1>3, BeginFacts
  <1>4. ASSUME NEW i \in Ids, InstanceReady(i) \/ Vanish(i) PROVE Ordered'
    BY <1>4, CloudFacts
  <1>5. CASE \/ InstanceCreate \/ InstanceGet \/ reconcileLoadBalancer
             \/ FindForDelete \/ InstanceDelete
    BY <1>5, CallFacts DEF Calls
  <1>6. CASE PatchSpec
    BY <1>t, <1>6, PatchSpecFacts DEF Gone
  <1>7. CASE PatchStatus
    BY <1>7, PatchStatusFacts
  <1>8. CASE Crash
    BY <1>8 DEF Crash, Idle
  <1>9. CASE UNCHANGED vars
    BY <1>9 DEF vars
  <1>. QED BY <1>1, <1>2, <1>3, <1>4, <1>5, <1>6, <1>7, <1>8, <1>9 DEF Next, Works

\* A live copy that holds the finalizer still proves that the object does.
LEMMA GuardedStep ==
    ASSUME SafetyInv, [Next]_vars
    PROVE  Guarded'
  <1>. USE DEF SafetyInv
  <1>t. /\ \A m \in Machines : /\ obj[m].phase \in Phases /\ cache[m].phase \in Phases
                               /\ obj[m].finalizer \in BOOLEAN
                               /\ cache[m].finalizer \in BOOLEAN
        /\ pass.base.phase \in Phases
        /\ pass.step # "idle" => pass.machine \in Machines
    BY DEF TypeOK, Objects, Passes
  <1>. USE DEF Guarded, HoldsFinalizer
  <1>1. ASSUME NEW m \in Machines, RequestDeletion(m) PROVE Guarded'
    BY <1>t, <1>1, RequestFacts DEF Gone
  <1>2. ASSUME NEW m \in Machines, OwnerChange(m) \/ CacheSync(m) \/ Resync(m)
        PROVE  Guarded'
    BY <1>t, <1>2, QuietFacts
  <1>3. ASSUME NEW m \in Machines, Begin(m) PROVE Guarded'
    BY <1>t, <1>3, BeginFacts
  <1>4. ASSUME NEW i \in Ids, InstanceReady(i) \/ Vanish(i) PROVE Guarded'
    BY <1>4, CloudFacts
  <1>5. CASE \/ InstanceCreate \/ InstanceGet \/ reconcileLoadBalancer
             \/ FindForDelete \/ InstanceDelete
    BY <1>5, CallFacts DEF Calls
  <1>6. CASE PatchSpec
    <2>1. UNCHANGED cache /\ pass'.machine = pass.machine /\ pass'.base = pass.base
          /\ pass.step # "idle" /\ pass.machine \in Machines
      BY <1>t, <1>6, PatchSpecFacts
    <2>2. \A n \in Machines : n # pass.machine => obj'[n] = obj[n]
      BY <1>6, PatchSpecFacts
    <2>3. pass.base.phase = "live" => (HoldsFinalizer(obj[pass.machine])
                                         => HoldsFinalizer(obj'[pass.machine]))
      <3>1. pass.base.phase = "live" /\ pass.base.finalizer => pass.view.finalizer
        BY <1>6 DEF PatchSpec, Dispatched
      <3>2. pass.base.finalizer \in BOOLEAN /\ pass.view.finalizer \in BOOLEAN
        BY DEF TypeOK, Passes, Objects
      <3>. QED BY <1>t, <1>6, <2>1, <3>1, <3>2, PatchSpecFacts
    <2>4. pass.base.phase # "live" => cache[pass.machine].phase # "live"
      BY <1>t, <2>1 DEF Ordered, Reaches, Phases
    <2>. QED BY <2>1, <2>2, <2>3, <2>4
  <1>7. CASE PatchStatus
    BY <1>7, PatchStatusFacts
  <1>8. CASE Crash
    BY <1>8, <1>t DEF Crash, Idle
  <1>9. CASE UNCHANGED vars
    BY <1>9 DEF vars
  <1>. QED BY <1>1, <1>2, <1>3, <1>4, <1>5, <1>6, <1>7, <1>8, <1>9 DEF Next, Works

\* Every step of the pass has passed the checks on its way there.
LEMMA DispatchedStep ==
    ASSUME SafetyInv, [Next]_vars
    PROVE  Dispatched'
  <1>. USE DEF SafetyInv
  <1>1. ASSUME NEW m \in Machines,
               \/ RequestDeletion(m) \/ OwnerChange(m) \/ CacheSync(m) \/ Resync(m)
        PROVE  Dispatched'
    BY <1>1, RequestFacts, QuietFacts DEF Dispatched
  <1>2. ASSUME NEW m \in Machines, Begin(m) PROVE Dispatched'
    BY <1>2, BeginFacts DEF Dispatched, Calls
  <1>3. ASSUME NEW i \in Ids, InstanceReady(i) \/ Vanish(i) PROVE Dispatched'
    BY <1>3, CloudFacts DEF Dispatched
  <1>4. CASE \/ InstanceCreate \/ InstanceGet \/ reconcileLoadBalancer
             \/ FindForDelete \/ InstanceDelete
    BY <1>4, CallFacts DEF Dispatched, Calls
  <1>5. CASE PatchSpec
    BY <1>5, PatchSpecFacts DEF Dispatched, Calls
  <1>6. CASE PatchStatus \/ Crash
    BY <1>6 DEF PatchStatus, Crash, Idle, Dispatched, Calls
  <1>7. CASE UNCHANGED vars
    BY <1>7 DEF vars, Dispatched
  <1>. QED BY <1>1, <1>2, <1>3, <1>4, <1>5, <1>6, <1>7 DEF Next, Works

\* A copy keeps naming only its own machine's instance.
LEMMA OwnedStep ==
    ASSUME SafetyInv, [Next]_vars
    PROVE  Owned'
  <1>. USE DEF SafetyInv
  <1>t. pass.step # "idle" => pass.machine \in Machines
    BY DEF TypeOK
  <1>k. \A i \in Ids : instance[i].state # "unused" =>
                           /\ instance'[i].owner = instance[i].owner
                           /\ instance'[i].state # "unused"
    BY InstanceFacts
  <1>1. ASSUME NEW m \in Machines, RequestDeletion(m) PROVE Owned'
    BY <1>t, <1>1, RequestFacts, ConstantsAssumption DEF Owned, Names, Gone
  <1>2. ASSUME NEW m \in Machines, OwnerChange(m) \/ CacheSync(m) \/ Resync(m)
        PROVE  Owned'
    BY <1>2, QuietFacts DEF Owned, Names
  <1>3. ASSUME NEW m \in Machines, Begin(m) PROVE Owned'
    BY <1>3, BeginFacts DEF Owned, Names
  <1>4. ASSUME NEW i \in Ids, InstanceReady(i) \/ Vanish(i) PROVE Owned'
    <2>1. UNCHANGED <<obj, cache, pass>>
      BY <1>4, CloudFacts
    <2>. QED BY <1>k, <2>1 DEF Owned, Names
  <1>5. CASE \/ InstanceCreate \/ InstanceGet \/ reconcileLoadBalancer
             \/ FindForDelete \/ InstanceDelete
    <2>1. /\ UNCHANGED <<obj, cache>> /\ pass.step # "idle"
          /\ pass'.machine = pass.machine /\ pass'.base = pass.base
      BY <1>5, CallFacts DEF Calls
    <2>2. pass'.view.providerID \in Ids =>
             /\ instance'[pass'.view.providerID].owner = pass.machine
             /\ instance'[pass'.view.providerID].state # "unused"
      <3>1. CASE pass'.view.providerID = pass.view.providerID
        BY <1>k, <2>1, <3>1 DEF Owned, Names
      <3>2. CASE pass'.view.providerID = None
        BY <3>2, ConstantsAssumption
      <3>3. CASE /\ pass'.view.providerID \in Ids
                 /\ instance' = [instance EXCEPT ![pass'.view.providerID] =
                                   [owner |-> pass.machine, state |-> "installing"]]
        BY <3>3 DEF TypeOK
      <3>. QED BY <1>5, <3>1, <3>2, <3>3, CallFacts
    <2>3. \A m \in Machines : Names(obj[m], m)' /\ Names(cache[m], m)'
      BY <1>k, <2>1 DEF Owned, Names
    <2>4. Names(pass.base, pass.machine)'
      BY <1>k, <2>1 DEF Owned, Names
    <2>5. Names(pass.view, pass.machine)'
      BY <2>1, <2>2 DEF Names
    <2>. QED BY <2>3, <2>4, <2>5 DEF Owned
  <1>6. CASE PatchSpec
    <2>1. /\ UNCHANGED <<cache, instance>> /\ pass.step # "idle"
          /\ pass'.machine = pass.machine /\ pass'.base = pass.base
          /\ pass'.view = pass.view
          /\ \A n \in Machines : n # pass.machine => obj'[n] = obj[n]
      BY <1>6, PatchSpecFacts
    <2>2. obj'[pass.machine].providerID \in
             {None, pass.view.providerID, obj[pass.machine].providerID}
      BY <1>6, PatchSpecFacts DEF Gone
    <2>. QED BY <1>t, <2>1, <2>2, ConstantsAssumption DEF Owned, Names
  <1>7. CASE PatchStatus
    BY <1>7, PatchStatusFacts DEF Owned, Names
  <1>8. CASE Crash
    BY <1>8 DEF Crash, Idle, Owned, Names
  <1>9. CASE UNCHANGED vars
    BY <1>9 DEF vars, Owned, Names
  <1>. QED BY <1>1, <1>2, <1>3, <1>4, <1>5, <1>6, <1>7, <1>8, <1>9 DEF Next, Works

\* SafetyInv holds from the start, and every step keeps it.
THEOREM SafetyInvariance == Spec => []SafetyInv
  <1>1. SafetyInv /\ [Next]_vars => SafetyInv'
    BY StepType, OrderedStep, GuardedStep, DispatchedStep, OwnedStep DEF SafetyInv
  <1>. QED BY InitInv, <1>1, PTL DEF Spec

\* However stale the copy a pass works on, the controller never asks Vultr for
\* an instance on behalf of a machine that has left or lost its finalizer.
THEOREM CreatesOnlyForPresentHolds == Spec => []CreatesOnlyForPresent
  <1>1. SafetyInv => CreatesOnlyForPresent
    BY DEF SafetyInv, Guarded, Dispatched, HoldsFinalizer, CreatesOnlyForPresent, Calls
  <1>. QED BY <1>1, SafetyInvariance, PTL

\* However stale the copy, the controller never deletes the instance of a
\* machine whose deletion nobody has requested.
THEOREM DestroysOnlyDeletedHolds == Spec => DestroysOnlyDeleted
  <1>. DEFINE Excused(i) == pass' = pass \/ obj[instance[i].owner].phase # "live"
  <1>1. ASSUME SafetyInv, [Next]_vars, NEW i \in Ids, Alive(i), ~Alive(i)'
        PROVE  Excused(i)
    <2>. USE <1>1 DEF SafetyInv
    <2>1. ASSUME NEW m \in Machines,
                 \/ RequestDeletion(m) \/ OwnerChange(m) \/ CacheSync(m) \/ Resync(m)
          PROVE  UNCHANGED instance
      BY <2>1, RequestFacts, QuietFacts
    <2>2. ASSUME NEW m \in Machines, Begin(m) PROVE UNCHANGED instance
      BY <2>2, BeginFacts
    <2>3. ASSUME NEW j \in Ids, InstanceReady(j) \/ Vanish(j) PROVE pass' = pass
      BY <2>3, CloudFacts
    <2>4. ASSUME \/ InstanceGet \/ reconcileLoadBalancer \/ FindForDelete
                 \/ PatchSpec \/ PatchStatus \/ Crash
          PROVE  UNCHANGED instance
      BY <2>4 DEF InstanceGet, reconcileLoadBalancer, FindForDelete, PatchSpec,
                  PatchStatus, Crash
    <2>5. CASE InstanceCreate
      <3>1. \/ UNCHANGED instance
            \/ \E j \in Ids : instance' = [instance EXCEPT ![j] =
                              [owner |-> pass.machine, state |-> "installing"]]
        BY <2>5 DEF InstanceCreate
      <3>. QED BY <3>1 DEF Alive, TypeOK
    <2>6. CASE InstanceDelete
      <3>1. i = pass.view.providerID
        BY <2>6 DEF InstanceDelete, Alive, TypeOK, Instances
      <3>2. /\ pass.machine \in Machines /\ pass.step = "destroy"
            /\ pass.base.phase = "deleting"
        BY <2>6 DEF InstanceDelete, TypeOK, Dispatched
      <3>3. instance[i].owner = pass.machine
        BY <3>1, <3>2 DEF Owned, Names
      <3>4. obj[pass.machine].phase # "live"
        BY <3>2 DEF Ordered, Reaches
      <3>. QED BY <3>3, <3>4
    <2>7. CASE UNCHANGED vars
      BY <2>7 DEF vars
    <2>. QED BY <2>1, <2>2, <2>3, <2>4, <2>5, <2>6, <2>7 DEF Next, Works, Alive
  <1>2. SafetyInv /\ [Next]_vars =>
           [\A i \in Ids : Alive(i) /\ ~Alive(i)' => Excused(i)]_vars
    BY <1>1
  <1>. QED BY <1>2, SafetyInvariance, PTL DEF Spec, DestroysOnlyDeleted

-----------------------------------------------------------------------------
(***************************************************************************)
(* The account of leaked instances.                                        *)
(***************************************************************************)

\* A fault never lowers the count of slips, and a slip raises it by one.
LEMMA FaultSlips ==
    ASSUME TypeOK, NEW kind, Fault(kind)
    PROVE  /\ faults.slips \in Nat /\ faults'.slips \in Nat
           /\ faults'.slips >= faults.slips
           /\ kind \in Slips => faults'.slips = faults.slips + 1
  BY ConstantsAssumption DEF TypeOK, Fault

\* Whatever is named is protected by its finalizer: the patch that takes the
\* finalizer away finds the object deleting, and removes it altogether.
LEMMA ProtectedStep ==
    ASSUME SafetyInv, Protected, Settled, [Next]_vars
    PROVE  Protected'
  <1>. USE DEF SafetyInv
  <1>1. ASSUME NEW m \in Machines, RequestDeletion(m) PROVE Protected'
    BY <1>1, RequestFacts, ConstantsAssumption DEF Protected, Gone
  <1>2. ASSUME NEW m \in Machines, \/ OwnerChange(m) \/ CacheSync(m) \/ Resync(m)
                                   \/ Begin(m)
        PROVE  Protected'
    BY <1>2, QuietFacts, BeginFacts DEF Protected
  <1>3. ASSUME NEW i \in Ids, InstanceReady(i) \/ Vanish(i) PROVE Protected'
    BY <1>3, CloudFacts DEF Protected
  <1>4. CASE \/ InstanceCreate \/ InstanceGet \/ reconcileLoadBalancer
             \/ FindForDelete \/ InstanceDelete
    BY <1>4, CallFacts DEF Protected
  <1>5. CASE PatchSpec
    <2>1. /\ pass.step = "patchSpec" /\ pass.machine \in Machines
          /\ \A n \in Machines : n # pass.machine => obj'[n] = obj[n]
      BY <1>5, PatchSpecFacts DEF TypeOK
    <2>2. /\ pass.base.finalizer \in BOOLEAN /\ pass.view.finalizer \in BOOLEAN
          /\ obj[pass.machine].phase \in Phases
      BY <2>1 DEF TypeOK, Passes, Objects
    <2>3. pass.base.finalizer /\ ~pass.view.finalizer
             => obj[pass.machine].phase \in {"deleting", "gone"}
      BY <2>1, <2>2 DEF Dispatched, Ordered, Reaches, Phases
    <2>4. pass.view.providerID # pass.base.providerID /\ pass.view.providerID \in Ids
             => /\ pass.base.finalizer = pass.view.finalizer
                /\ obj[pass.machine].finalizer
      BY <2>1, <2>2, ConstantsAssumption DEF Settled, Guarded, HoldsFinalizer
    <2>5. obj'[pass.machine].providerID \in Ids => obj'[pass.machine].finalizer
      BY <1>5, <2>1, <2>2, <2>3, <2>4, PatchSpecFacts, ConstantsAssumption
      DEF Protected, Gone
    <2>. QED BY <2>1, <2>5 DEF Protected
  <1>6. CASE PatchStatus
    BY <1>6, PatchStatusFacts DEF Protected
  <1>7. CASE Crash
    BY <1>7 DEF Crash, Protected
  <1>8. CASE UNCHANGED vars
    BY <1>8 DEF vars, Protected
  <1>. QED BY <1>1, <1>2, <1>3, <1>4, <1>5, <1>6, <1>7, <1>8 DEF Next, Works

\* A pass gives an instance up only when it is dead, and writes a new one down
\* only over a live object whose copy named none.
LEMMA SettledStep ==
    ASSUME SafetyInv, Settled, [Next]_vars
    PROVE  Settled'
  <1>. USE DEF SafetyInv
  <1>k. \A i \in Ids : instance[i].state # "unused" => (Alive(i)' => Alive(i))
    BY InstanceFacts
  <1>1. ASSUME NEW m \in Machines,
               \/ RequestDeletion(m) \/ OwnerChange(m) \/ CacheSync(m) \/ Resync(m)
        PROVE  Settled'
    BY <1>1, RequestFacts, QuietFacts DEF Settled, Alive
  <1>2. ASSUME NEW m \in Machines, Begin(m) PROVE Settled'
    BY <1>2, BeginFacts DEF Settled, Alive
  <1>3. ASSUME NEW i \in Ids, InstanceReady(i) \/ Vanish(i) PROVE Settled'
    <2>1. UNCHANGED pass
      BY <1>3, CloudFacts
    <2>2. pass.step = "patchSpec" /\ pass.base.providerID \in Ids
             => instance[pass.base.providerID].state # "unused"
      BY DEF Owned, Names
    <2>. QED BY <1>k, <2>1, <2>2 DEF Settled, Alive
  <1>4. CASE \/ InstanceCreate \/ InstanceGet \/ reconcileLoadBalancer
             \/ FindForDelete \/ InstanceDelete
    <2>1. pass.view = pass.base /\ pass.base.finalizer
      BY <1>4, CallFacts DEF Dispatched
    <2>2. pass'.base = pass.base
      BY <1>4, CallFacts
    <2>3. pass.step = "create" => /\ pass.base.phase = "live"
                                  /\ pass.base.providerID = None
      BY DEF Dispatched
    <2>. QED BY <1>4, <2>1, <2>2, <2>3, CallFacts, ConstantsAssumption
             DEF Settled, Alive
  <1>5. CASE PatchSpec \/ PatchStatus
    BY <1>5, PatchSpecFacts, PatchStatusFacts DEF Settled
  <1>6. CASE Crash
    BY <1>6 DEF Crash, Idle, Settled
  <1>7. CASE UNCHANGED vars
    BY <1>7 DEF vars, Settled, Alive
  <1>. QED BY <1>1, <1>2, <1>3, <1>4, <1>5, <1>6, <1>7 DEF Next, Works

\* The account stays balanced when nothing new leaks and the debt grows no
\* faster than the slips.
LEMMA NothingLeaks ==
    ASSUME TypeOK, TypeOK', Accounted,
           Leaked' \subseteq Leaked,
           Debt' + faults.slips <= Debt + faults'.slips
    PROVE  Accounted'
  <1>1. IsFiniteSet(Leaked') /\ Cardinality(Leaked') <= Cardinality(Leaked)
    BY FS_Subset DEF Accounted
  <1>2. Cardinality(Leaked) \in Nat /\ Cardinality(Leaked') \in Nat
    BY <1>1, FS_CardinalityType DEF Accounted
  <1>3. faults.slips \in Nat /\ faults'.slips \in Nat
    BY ConstantsAssumption DEF TypeOK
  <1>4. Debt \in Nat /\ Debt' \in Nat
    BY DEF Debt
  <1>. QED BY <1>1, <1>2, <1>3, <1>4 DEF Accounted

\* One instance may leak for one slip, or for the debt of one.
LEMMA OneLeaks ==
    ASSUME TypeOK, TypeOK', Accounted, NEW x,
           Leaked' \subseteq Leaked \cup {x},
           Debt' + 1 + faults.slips <= Debt + faults'.slips
    PROVE  Accounted'
  <1>1. /\ IsFiniteSet(Leaked \cup {x})
        /\ Cardinality(Leaked \cup {x}) <= Cardinality(Leaked) + 1
    BY FS_AddElement, FS_CardinalityType DEF Accounted
  <1>2. IsFiniteSet(Leaked') /\ Cardinality(Leaked') <= Cardinality(Leaked \cup {x})
    BY <1>1, FS_Subset
  <1>3. /\ Cardinality(Leaked) \in Nat /\ Cardinality(Leaked') \in Nat
        /\ Cardinality(Leaked \cup {x}) \in Nat
    BY <1>1, <1>2, FS_CardinalityType DEF Accounted
  <1>4. faults.slips \in Nat /\ faults'.slips \in Nat
    BY ConstantsAssumption DEF TypeOK
  <1>5. Debt \in Nat /\ Debt' \in Nat
    BY DEF Debt
  <1>. QED BY <1>1, <1>2, <1>3, <1>4, <1>5 DEF Accounted

\* The leaked instances and the debt together never grow by more than the
\* slips do.
LEMMA AccountedStep ==
    ASSUME LeakInv, TypeOK', [Next]_vars
    PROVE  Accounted'
  <1>. USE DEF LeakInv, SafetyInv
  <1>s. faults.slips \in Nat
    BY ConstantsAssumption DEF TypeOK
  <1>t. pass.step # "idle" => pass.machine \in Machines
    BY DEF TypeOK
  <1>1. ASSUME NEW m \in Machines, RequestDeletion(m) PROVE Accounted'
    <2>1. \A i \in Ids : Referenced(i) => Referenced(i)'
      BY <1>1, RequestFacts DEF Referenced, Protected
    <2>2. Leaked' \subseteq Leaked
      BY <1>1, <2>1, RequestFacts DEF Leaked, Alive, InHand
    <2>3. Debt' <= Debt
      BY <1>1, <1>t, RequestFacts DEF Debt, Gone
    <2>4. faults'.slips = faults.slips
      BY <1>1, RequestFacts
    <2>. QED BY <1>s, <2>2, <2>3, <2>4, NothingLeaks DEF Debt
  <1>2. ASSUME NEW m \in Machines, OwnerChange(m) \/ CacheSync(m) \/ Resync(m)
        PROVE  Accounted'
    BY <1>2, QuietFacts DEF Accounted, Leaked, Referenced, InHand, Alive, Debt
  <1>3. ASSUME NEW m \in Machines, Begin(m) PROVE Accounted'
    <2>1. Leaked' \subseteq Leaked
      BY <1>3, BeginFacts DEF Leaked, Referenced, InHand, Alive
    <2>2. Debt = 0 /\ pass.step = "idle"
      BY <1>3, BeginFacts DEF Debt
    <2>3. Debt' \in {0, 1} /\ (Debt' = 1 => cache[m] # obj[m])
      BY <1>3, <2>2, BeginFacts DEF Debt
    <2>4. faults'.slips \in Nat /\ faults'.slips >= faults.slips + Debt'
      <3>1. CASE cache[m] = obj[m] /\ UNCHANGED faults
        BY <1>s, <2>3, <3>1
      <3>2. CASE Fault("stale")
        BY <1>s, <2>3, <3>2, FaultSlips DEF Slips
      <3>. QED BY <1>3, <3>1, <3>2, BeginFacts
    <2>. QED BY <1>s, <2>1, <2>2, <2>3, <2>4, NothingLeaks
  <1>4. ASSUME NEW i \in Ids, InstanceReady(i) \/ Vanish(i) PROVE Accounted'
    <2>1. UNCHANGED <<obj, pass>>
      BY <1>4, CloudFacts
    <2>2. \A j \in Ids : Alive(j)' => Alive(j)
      BY <1>4 DEF InstanceReady, Vanish, Alive, TypeOK, Instances
    <2>3. Leaked' \subseteq Leaked
      BY <2>1, <2>2 DEF Leaked, Referenced, InHand
    <2>4. faults'.slips \in Nat /\ faults'.slips >= faults.slips
      BY <1>s, <1>4, FaultSlips DEF InstanceReady, Vanish
    <2>5. Debt' = Debt /\ Debt \in Nat
      BY <2>1 DEF Debt
    <2>. QED BY <1>s, <2>3, <2>4, <2>5, NothingLeaks
  <1>5. CASE \/ InstanceCreate \/ InstanceGet \/ reconcileLoadBalancer
             \/ FindForDelete \/ InstanceDelete
    <2>1. /\ UNCHANGED obj
          /\ pass.step \in Calls
          /\ pass'.machine = pass.machine /\ pass'.base = pass.base
          /\ pass'.step \notin {"idle", "patchStatus"}
      BY <1>5, CallFacts DEF Calls
    <2>2. Debt' = Debt /\ Debt \in Nat
      BY <2>1 DEF Debt, Calls
    <2>3. \A j \in Ids : ~InHand(j) /\ (Referenced(j)' <=> Referenced(j))
      BY <2>1 DEF InHand, Referenced, Calls
    <2>4. faults'.slips \in Nat /\ faults'.slips >= faults.slips
      <3>1. \/ UNCHANGED faults
            \/ Fault("lost") \/ Fault("api") \/ Fault("notfound")
        BY <1>5 DEF InstanceCreate, InstanceGet, reconcileLoadBalancer,
                    FindForDelete, InstanceDelete
      <3>. QED BY <1>s, <3>1, FaultSlips
    <2>5. CASE \A j \in Ids : Alive(j)' => Alive(j)
      <3>1. Leaked' \subseteq Leaked
        BY <2>3, <2>5 DEF Leaked
      <3>. QED BY <1>s, <2>2, <2>4, <3>1, NothingLeaks
    <2>6. CASE InstanceCreate
      <3>1. CASE UNCHANGED instance
        BY <2>5, <3>1 DEF Alive
      <3>2. ASSUME NEW i \in Ids, instance[i].state = "unused",
                   instance' = [instance EXCEPT ![i] =
                                  [owner |-> pass.machine, state |-> "installing"]],
                   \/ UNCHANGED faults /\ Returns([pass.view EXCEPT !.providerID = i], TRUE)
                   \/ Fault("lost") /\ Returns(OnError, TRUE)
            PROVE  Accounted'
        <4>1. \A j \in Ids : j # i => (Alive(j)' => Alive(j))
          BY <3>2 DEF Alive, TypeOK
        <4>2. Leaked' \subseteq Leaked \cup {i}
          BY <2>3, <4>1 DEF Leaked
        <4>3. CASE Fault("lost")
          <5>1. faults'.slips = faults.slips + 1
            BY <4>3, FaultSlips DEF Slips
          <5>. QED BY <1>s, <2>2, <4>2, <5>1, OneLeaks
        <4>4. CASE Returns([pass.view EXCEPT !.providerID = i], TRUE)
          <5>1. InHand(i)'
            <6>1. pass'.step = "patchSpec" /\ pass'.view.providerID = i
              BY <4>4 DEF Returns, TypeOK, Passes, Objects
            <6>2. pass.base.providerID = None
              BY <2>6 DEF InstanceCreate, Dispatched
            <6>. QED BY <2>1, <6>1, <6>2, ConstantsAssumption DEF InHand
          <5>2. Leaked' \subseteq Leaked
            BY <4>2, <5>1 DEF Leaked
          <5>. QED BY <1>s, <2>2, <2>4, <5>2, NothingLeaks
        <4>. QED BY <3>2, <4>3, <4>4
      <3>. QED BY <2>6, <3>1, <3>2 DEF InstanceCreate
    <2>7. CASE InstanceGet \/ reconcileLoadBalancer \/ FindForDelete
      BY <2>5, <2>7 DEF InstanceGet, reconcileLoadBalancer, FindForDelete, Alive
    <2>8. CASE InstanceDelete
      <3>1. \/ UNCHANGED instance
            \/ \E j \in Ids : instance' = [instance EXCEPT ![j].state = "gone"]
        BY <2>8 DEF InstanceDelete, TypeOK
      <3>2. \A j \in Ids : Alive(j)' => Alive(j)
        BY <3>1 DEF Alive, TypeOK, Instances
      <3>. QED BY <2>5, <3>2
    <2>. QED BY <1>5, <2>6, <2>7, <2>8
  <1>6. CASE PatchSpec
    <2>1. /\ UNCHANGED instance
          /\ pass.step = "patchSpec" /\ pass'.step = "patchStatus"
          /\ pass.machine \in Machines
          /\ \A n \in Machines : n # pass.machine => obj'[n] = obj[n]
      BY <1>6, PatchSpecFacts DEF TypeOK
    <2>2. Debt' = 0 /\ Debt \in {0, 1}
      BY <2>1 DEF Debt
    <2>3. /\ pass.base.finalizer \in BOOLEAN /\ pass.view.finalizer \in BOOLEAN
          /\ obj[pass.machine].phase \in Phases
          /\ obj[pass.machine].finalizer \in BOOLEAN
      BY <2>1 DEF TypeOK, Passes, Objects
    \* An instance in hand is in good hands: the object is there to name it.
    <2>4. ASSUME NEW i \in Ids, InHand(i)
          PROVE  /\ HoldsFinalizer(obj[pass.machine]) /\ SpecDiffers
                 /\ pass.base.finalizer /\ pass.view.finalizer
      BY <2>1, <2>4, ConstantsAssumption
      DEF InHand, Settled, Guarded, SpecDiffers
    <2>5. \A i \in Ids : i \in Leaked' => Alive(i) /\ ~Referenced(i)' /\ ~InHand(i)'
      BY <2>1 DEF Leaked, Alive
    <2>6. CASE /\ UNCHANGED <<obj, faults>>
               /\ SpecDiffers => obj[pass.machine].phase = "gone"
      <3>1. Leaked' \subseteq Leaked
        BY <2>4, <2>5, <2>6 DEF Leaked, Referenced, HoldsFinalizer
      <3>. QED BY <1>s, <2>2, <2>6, <3>1, NothingLeaks
    <2>7. CASE UNCHANGED obj /\ Fault("patch")
      <3>1. Leaked' \subseteq Leaked \cup {pass.view.providerID}
        BY <2>5, <2>7 DEF Leaked, Referenced, InHand
      <3>2. faults'.slips = faults.slips + 1
        BY <2>7, FaultSlips DEF Slips
      <3>. QED BY <1>s, <2>2, <3>1, <3>2, OneLeaks
    \* The patch goes through: only what the object names by now can be lost,
    \* and only if the pass started from another name.
    <2>8. ASSUME /\ UNCHANGED faults /\ obj[pass.machine].phase # "gone"
                 /\ \A i \in Ids : InHand(i) => Referenced(i)'
                 /\ \A i \in Ids : /\ obj[pass.machine].providerID = i
                                   /\ pass.base.providerID = i
                                   => Referenced(i)' \/ ~Alive(i)
          PROVE  Accounted'
      <3>1. \A i \in Ids : Referenced(i) /\ ~Referenced(i)'
                              => obj[pass.machine].providerID = i
        BY <2>1 DEF Referenced
      <3>2. Leaked' \subseteq Leaked \cup {obj[pass.machine].providerID}
        BY <2>5, <2>8, <3>1 DEF Leaked
      <3>3. CASE pass.base.providerID = obj[pass.machine].providerID
        <4>1. Leaked' \subseteq Leaked
          BY <2>5, <2>8, <3>1, <3>3 DEF Leaked
        <4>. QED BY <1>s, <2>2, <2>8, <4>1, NothingLeaks
      <3>4. CASE pass.base.providerID # obj[pass.machine].providerID
        <4>1. Debt = 1
          BY <2>1, <2>8, <3>4 DEF Debt
        <4>2. Debt' + 1 + faults.slips <= Debt + faults'.slips
          BY <1>s, <2>2, <2>8, <4>1
        <4>. QED BY <3>2, <4>2, OneLeaks
      <3>. QED BY <3>3, <3>4
    <2>9. CASE /\ UNCHANGED faults
               /\ obj[pass.machine].phase = "deleting"
               /\ obj'[pass.machine] = Gone
               /\ ~IF pass.base.finalizer # pass.view.finalizer
                     THEN pass.view.finalizer ELSE obj[pass.machine].finalizer
      <3>1. \A i \in Ids : ~InHand(i)
        BY <2>3, <2>4, <2>9 DEF HoldsFinalizer
      <3>2. ASSUME NEW i \in Ids, obj[pass.machine].providerID = i,
                   pass.base.providerID = i
            PROVE  ~Alive(i)
        BY <2>1, <2>3, <2>9, <3>2 DEF Protected, Settled
      <3>. QED BY <2>8, <2>9, <3>1, <3>2
    <2>10. CASE /\ UNCHANGED faults
                /\ obj[pass.machine].phase # "gone"
                /\ obj'[pass.machine].phase = obj[pass.machine].phase
                /\ obj'[pass.machine].providerID =
                      IF pass.base.providerID # pass.view.providerID
                        THEN pass.view.providerID ELSE obj[pass.machine].providerID
      <3>1. \A i \in Ids : InHand(i) => Referenced(i)'
        BY <2>1, <2>10 DEF InHand, Referenced
      <3>2. ASSUME NEW i \in Ids, obj[pass.machine].providerID = i,
                   pass.base.providerID = i
            PROVE  Referenced(i)' \/ ~Alive(i)
        BY <2>1, <2>10, <3>2 DEF Settled, Referenced
      <3>. QED BY <2>8, <2>10, <3>1, <3>2
    <2>. QED BY <1>6, <2>6, <2>7, <2>9, <2>10, PatchSpecFacts
  <1>7. CASE PatchStatus
    <2>1. Leaked' \subseteq Leaked
      BY <1>7, PatchStatusFacts DEF Leaked, Referenced, Alive, InHand
    <2>2. Debt = 0 /\ Debt' = 0
      BY <1>7, PatchStatusFacts DEF Debt
    <2>3. faults'.slips \in Nat /\ faults'.slips >= faults.slips
      BY <1>s, <1>7, FaultSlips, PatchStatusFacts
    <2>. QED BY <1>s, <2>1, <2>2, <2>3, NothingLeaks
  <1>8. CASE Crash
    <2>1. Leaked' \subseteq Leaked \cup {pass.view.providerID}
      BY <1>8 DEF Crash, Leaked, Referenced, Alive, InHand
    <2>2. faults'.slips = faults.slips + 1
      BY <1>8, FaultSlips DEF Crash, Slips
    <2>3. Debt' = 0 /\ Debt \in Nat
      BY <1>8 DEF Crash, Idle, Debt
    <2>. QED BY <1>s, <2>1, <2>2, <2>3, OneLeaks
  <1>9. CASE UNCHANGED vars
    BY <1>9 DEF vars, Accounted, Leaked, Referenced, InHand, Alive, Debt
  <1>. QED BY <1>1, <1>2, <1>3, <1>4, <1>5, <1>6, <1>7, <1>8, <1>9 DEF Next, Works

\* LeakInv holds in the initial states: nothing is leaked or owed.
LEMMA InitLeak == Init => LeakInv
  <1>. SUFFICES ASSUME Init PROVE LeakInv
    OBVIOUS
  <1>1. SafetyInv
    BY InitInv
  <1>2. Protected
    BY ConstantsAssumption DEF Init, Protected
  <1>3. pass.step = "idle"
    BY DEF Init, Idle
  <1>4. Leaked = {}
    BY DEF Init, Leaked, Alive
  <1>5. Accounted
    BY <1>3, <1>4, FS_EmptySet DEF Init, Accounted, Debt
  <1>. QED BY <1>1, <1>2, <1>3, <1>5 DEF LeakInv, Settled

\* LeakInv holds from the start, and every step keeps it.
THEOREM LeakInvariance == Spec => []LeakInv
  <1>1. LeakInv /\ [Next]_vars => LeakInv'
    <2>. SUFFICES ASSUME LeakInv, [Next]_vars PROVE LeakInv'
      OBVIOUS
    <2>1. SafetyInv'
      BY StepType, OrderedStep, GuardedStep, DispatchedStep, OwnedStep
      DEF LeakInv, SafetyInv
    <2>. QED BY <2>1, ProtectedStep, SettledStep, AccountedStep DEF LeakInv, SafetyInv
  <1>. QED BY InitLeak, <1>1, PTL DEF Spec

\* Every instance that runs without an object to name it is paid for by a slip
\* of its own: a patch that was dropped, a stale read, a crash or a lost answer.
\* Whatever Vultr and Cloudflare answer, and however the user's deletions fall,
\* nothing else loses track of an instance.
THEOREM LeakBoundHolds == Spec => []LeakBound
  <1>1. LeakInv => LeakBound
    <2>. SUFFICES ASSUME LeakInv PROVE LeakBound
      OBVIOUS
    <2>1. Cardinality(Leaked) \in Nat /\ Debt \in Nat /\ faults.slips \in Nat
      BY FS_CardinalityType, ConstantsAssumption
      DEF LeakInv, Accounted, SafetyInv, TypeOK, Debt
    <2>. QED BY <2>1 DEF LeakInv, Accounted, LeakBound
  <1>. QED BY <1>1, LeakInvariance, PTL
================================================================================
