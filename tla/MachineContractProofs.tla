------------------------- MODULE MachineContractProofs -------------------------
(***************************************************************************)
(* KrumkakeMachine implements MachineContract: for every set of machines,  *)
(* of instance IDs and of faults, each step of the controller, of the user *)
(* and of the cloud is a step of the contract or leaves it unchanged.      *)
(* LeakInv is what makes it so: until the first slip every instance that   *)
(* runs is named by its machine or in the hands of the pass that made it.  *)
(***************************************************************************)
EXTENDS KrumkakeMachineProofs

-----------------------------------------------------------------------------
(***************************************************************************)
(* What runs, until the first slip.                                        *)
(***************************************************************************)

\* An instance that runs is named by the object of its machine, or the pass that
\* has just created it still holds its ID; either way the machine is there and
\* holds its finalizer.
LEMMA RunsNamed ==
    ASSUME LeakInv, faults.slips = 0, NEW i \in Ids, Alive(i)
    PROVE  LET m == instance[i].owner IN
           /\ m \in Machines /\ HoldsFinalizer(obj[m])
           /\ \/ obj[m].providerID = i
              \/ InHand(i) /\ pass.machine = m /\ obj[m].providerID = None
  <1>. DEFINE m == instance[i].owner
  <1>. USE DEF LeakInv, SafetyInv
  <1>1. Leaked = {} /\ Debt = 0
    <2>1. Cardinality(Leaked) \in Nat /\ Debt \in Nat /\ IsFiniteSet(Leaked)
      BY FS_CardinalityType DEF Accounted, Debt
    <2>2. Cardinality(Leaked) = 0 /\ Debt = 0
      BY <2>1 DEF Accounted
    <2>. QED BY <2>1, <2>2, FS_EmptySet
  <1>2. Referenced(i) \/ InHand(i)
    BY <1>1 DEF Leaked
  <1>3. CASE Referenced(i)
    <2>1. PICK n \in Machines : obj[n].phase # "gone" /\ obj[n].providerID = i
      BY <1>3 DEF Referenced
    <2>2. n = m
      BY <2>1 DEF Owned, Names
    <2>. QED BY <2>1, <2>2 DEF Protected, HoldsFinalizer
  <1>4. CASE InHand(i)
    <2>1. /\ pass.step = "patchSpec" /\ pass.machine \in Machines
          /\ pass.view.providerID = i /\ pass.base.providerID # i
      BY <1>4 DEF InHand, TypeOK
    <2>2. pass.machine = m
      BY <2>1 DEF Owned, Names
    <2>3. /\ pass.base.phase = "live" /\ pass.base.finalizer
          /\ pass.base.providerID = None
      BY <2>1, ConstantsAssumption DEF Settled
    <2>4. HoldsFinalizer(obj[m])
      BY <2>1, <2>2, <2>3 DEF Guarded
    <2>5. obj[m].providerID = None
      BY <1>1, <2>1, <2>2, <2>3, <2>4 DEF Debt, HoldsFinalizer
    <2>. QED BY <1>4, <2>1, <2>2, <2>4, <2>5
  <1>. QED BY <1>2, <1>3, <1>4

\* A machine has at most one running instance.
LEMMA OneRuns ==
    ASSUME LeakInv, faults.slips = 0, NEW i \in Ids, NEW j \in Ids,
           Alive(i), Alive(j), instance[i].owner = instance[j].owner
    PROVE  i = j
  BY RunsNamed, ConstantsAssumption DEF InHand

-----------------------------------------------------------------------------
(***************************************************************************)
(* The refinement.                                                         *)
(***************************************************************************)

\* The state of the contract, before and after a step.
Phase == [m \in Machines |-> obj[m].phase]
Running == [m \in Machines |-> {i \in Ids : Alive(i) /\ instance[i].owner = m}]

\* What is left alone when no phase changes, nothing is created or destroyed, and
\* nothing goes wrong.
LEMMA Stutters ==
    ASSUME \A m \in Machines : obj'[m].phase = obj[m].phase,
           \A i \in Ids : Alive(i)' <=> Alive(i),
           \A i \in Ids : Alive(i) => instance'[i].owner = instance[i].owner
    PROVE  Phase' = Phase /\ Running' = Running
  BY DEF Phase, Running

\* The contract's actions, over the controller's state.
LEMMA ContractSteps ==
    ASSUME faults.slips = 0, faults'.slips = 0
    PROVE  /\ Phase' = Phase /\ Running' = Running /\ faults'.all = faults.all
                 => UNCHANGED Contract!vars
           /\ \A m \in Machines :
                 /\ obj[m].phase = "live" /\ Running' = Running
                 /\ faults'.all = faults.all
                 /\ \/ Phase' = [Phase EXCEPT ![m] = "deleting"]
                    \/ Running[m] = {} /\ Phase' = [Phase EXCEPT ![m] = "gone"]
                 => Contract!Next
           /\ \A m \in Machines, i \in Ids :
                 /\ obj[m].phase # "gone" /\ Running[m] = {} /\ ~Alive(i)
                 /\ Running' = [Running EXCEPT ![m] = {i}]
                 /\ Phase' = Phase /\ faults'.all = faults.all
                 => Contract!Next
           /\ \A m \in Machines :
                 /\ obj[m].phase = "deleting"
                 /\ Running' = [Running EXCEPT ![m] = {}]
                 /\ Phase' = Phase /\ faults'.all = faults.all
                 => Contract!Next
           /\ \A m \in Machines :
                 /\ obj[m].phase = "deleting" /\ Running[m] = {}
                 /\ Phase' = [Phase EXCEPT ![m] = "gone"]
                 /\ Running' = Running /\ faults'.all = faults.all
                 => Contract!Next
           /\ /\ faults'.all = faults.all + 1 /\ Phase' = Phase
              /\ \/ Running' = Running
                 \/ \E m \in Machines : Running' = [Running EXCEPT ![m] = {}]
              => Contract!Next
  <1>0. ~(faults'.slips > 0) /\ (faults.slips > 0 <=> faults'.slips > 0)
    OBVIOUS
  <1>. USE <1>0 DEF Contract!Next, Contract!Keeps
  <1>1. Phase' = Phase /\ Running' = Running /\ faults'.all = faults.all
           => UNCHANGED Contract!vars
    BY DEF Contract!vars, Phase, Running
  <1>2. ASSUME NEW m \in Machines, obj[m].phase = "live", Running' = Running,
               faults'.all = faults.all,
               \/ Phase' = [Phase EXCEPT ![m] = "deleting"]
               \/ Running[m] = {} /\ Phase' = [Phase EXCEPT ![m] = "gone"]
        PROVE  Contract!Request(m)
    BY <1>2 DEF Contract!Request, Phase, Running
  <1>3. ASSUME NEW m \in Machines, NEW i \in Ids,
               obj[m].phase # "gone", Running[m] = {}, ~Alive(i),
               Running' = [Running EXCEPT ![m] = {i}],
               Phase' = Phase, faults'.all = faults.all
        PROVE  Contract!Acquire(m, i)
    BY <1>3 DEF Contract!Acquire, Phase, Running
  <1>4. ASSUME NEW m \in Machines, obj[m].phase = "deleting",
               Running' = [Running EXCEPT ![m] = {}],
               Phase' = Phase, faults'.all = faults.all
        PROVE  Contract!Release(m)
    BY <1>4 DEF Contract!Release, Phase, Running
  <1>5. ASSUME NEW m \in Machines, obj[m].phase = "deleting", Running[m] = {},
               Phase' = [Phase EXCEPT ![m] = "gone"],
               Running' = Running, faults'.all = faults.all
        PROVE  Contract!Leave(m)
    BY <1>5 DEF Contract!Leave, Phase, Running
  <1>6. ASSUME faults'.all = faults.all + 1, Phase' = Phase,
               \/ Running' = Running
               \/ \E m \in Machines : Running' = [Running EXCEPT ![m] = {}]
        PROVE  Contract!Mishap
    BY <1>6 DEF Contract!Mishap, Phase, Running
  <1>. QED BY <1>1, <1>2, <1>3, <1>4, <1>5, <1>6


-----------------------------------------------------------------------------
(***************************************************************************)
(* Each action, as long as nothing has slipped.                            *)
(***************************************************************************)

\* Goal of the lemmas below.
Refines == Contract!Next \/ UNCHANGED Contract!vars

\* A fault that is no slip is one more mishap.
LEMMA FaultCounts ==
    ASSUME TypeOK, NEW kind, Fault(kind), faults.slips = 0, faults'.slips = 0
    PROVE  faults'.all = faults.all + 1 /\ kind \notin Slips
  BY FaultSlips DEF Fault

\* A call that fails without effect is a mishap.
LEMMA FaultRefines ==
    ASSUME TypeOK, NEW kind, Fault(kind), UNCHANGED <<obj, instance>>,
           faults.slips = 0, faults'.slips = 0
    PROVE  Refines
  <1>1. Phase' = Phase /\ Running' = Running
    BY Stutters DEF Alive
  <1>. QED BY <1>1, FaultCounts, ContractSteps DEF Refines

\* A step that moves no object and no instance leaves the contract alone.
LEMMA StillRefines ==
    ASSUME UNCHANGED <<obj, instance, faults>>, faults.slips = 0
    PROVE  Refines
  <1>1. Phase' = Phase /\ Running' = Running
    BY Stutters DEF Alive
  <1>. QED BY <1>1, ContractSteps DEF Refines

\* A machine whose object goes without a finalizer has nothing running.
LEMMA RequestRefines ==
    ASSUME LeakInv, NEW m \in Machines, RequestDeletion(m), faults.slips = 0
    PROVE  Refines
  <1>. TypeOK
    BY DEF LeakInv, SafetyInv
  <1>1. /\ UNCHANGED <<instance, faults>> /\ obj[m].phase = "live"
        /\ \A n \in Machines : n # m => obj'[n].phase = obj[n].phase
        /\ \/ obj'[m].phase = "deleting"
           \/ ~obj[m].finalizer /\ obj'[m].phase = "gone"
    BY RequestFacts DEF Gone
  <1>2. Running' = Running
    BY <1>1 DEF Running, Alive
  <1>3. ~obj[m].finalizer => Running[m] = {}
    BY RunsNamed DEF Running, HoldsFinalizer
  <1>4. \/ Phase' = [Phase EXCEPT ![m] = "deleting"]
        \/ Running[m] = {} /\ Phase' = [Phase EXCEPT ![m] = "gone"]
    BY <1>1, <1>3 DEF Phase
  <1>. QED BY <1>1, <1>2, <1>4, ContractSteps DEF Refines

\* An instance that an outsider takes was the only one of its machine.
LEMMA VanishRefines ==
    ASSUME LeakInv, NEW i \in Ids, Vanish(i), faults.slips = 0, faults'.slips = 0
    PROVE  Refines
  <1>. DEFINE m == instance[i].owner
  <1>. TypeOK
    BY DEF LeakInv, SafetyInv
  <1>1. /\ UNCHANGED obj /\ Alive(i) /\ Fault("vanish")
        /\ instance' = [instance EXCEPT ![i].state = "gone"]
    BY DEF Vanish
  <1>2. m \in Machines
    BY <1>1, RunsNamed
  <1>3. /\ \A j \in Ids : Alive(j)' <=> Alive(j) /\ j # i
        /\ \A j \in Ids : instance'[j].owner = instance[j].owner
    BY <1>1 DEF Alive, TypeOK, Instances
  <1>4. \A j \in Ids : Alive(j) /\ instance[j].owner = m => j = i
    BY <1>1, OneRuns
  <1>. HIDE DEF m
  <1>5. \A n \in Machines : Running'[n] = IF n = m THEN {} ELSE Running[n]
    BY <1>1, <1>3, <1>4 DEF Running, m
  <1>6. Running' = [Running EXCEPT ![m] = {}]
    BY <1>2, <1>5 DEF Running
  <1>7. Phase' = Phase
    BY <1>1 DEF Phase
  <1>. QED BY <1>1, <1>2, <1>6, <1>7, FaultCounts, ContractSteps DEF Refines

\* The controller asks for an instance only when the machine is there and has
\* none running: its object names none, and no other pass holds one in hand.
LEMMA CreateRefines ==
    ASSUME LeakInv, InstanceCreate, faults.slips = 0, faults'.slips = 0
    PROVE  Refines
  <1>. DEFINE m == pass.machine
  <1>. TypeOK
    BY DEF LeakInv, SafetyInv
  <1>1. /\ UNCHANGED obj /\ pass.step = "create" /\ m \in Machines
        /\ \/ \E kind \in {"api", "notfound", "lost"} : Fault(kind) /\ UNCHANGED instance
           \/ Fault("lost")
           \/ /\ UNCHANGED faults
              /\ \E i \in Ids :
                    /\ instance[i].state = "unused"
                    /\ instance' = [instance EXCEPT
                                      ![i] = [owner |-> m, state |-> "installing"]]
    BY DEF InstanceCreate, TypeOK
  <1>2. CASE \E kind \in {"api", "notfound", "lost"} : Fault(kind) /\ UNCHANGED instance
    BY <1>1, <1>2, FaultRefines
  <1>3. ~Fault("lost")
    BY FaultCounts DEF Slips
  <1>4. ASSUME UNCHANGED faults, NEW i \in Ids, instance[i].state = "unused",
               instance' = [instance EXCEPT
                              ![i] = [owner |-> m, state |-> "installing"]]
        PROVE  Refines
    <2>1. /\ HoldsFinalizer(obj[m]) /\ pass.base.providerID = None
      BY <1>1 DEF LeakInv, SafetyInv, Guarded, Dispatched, Calls
    <2>2. obj[m].providerID = None
      <3>1. Debt = 0
        <4>1. Cardinality(Leaked) \in Nat /\ Debt \in Nat
          BY FS_CardinalityType DEF LeakInv, Accounted, Debt
        <4>. QED BY <4>1 DEF LeakInv, Accounted
      <3>. QED BY <1>1, <2>1, <3>1 DEF Debt, HoldsFinalizer
    <2>3. Running[m] = {}
      <3>1. ASSUME NEW j \in Ids, Alive(j), instance[j].owner = m PROVE FALSE
        BY <1>1, <2>2, <3>1, RunsNamed, ConstantsAssumption DEF InHand
      <3>. QED BY <1>1, <3>1 DEF Running
    <2>4. /\ ~Alive(i) /\ instance'[i].owner = m
          /\ \A j \in Ids : Alive(j)' <=> Alive(j) \/ j = i
          /\ \A j \in Ids : j # i => instance'[j].owner = instance[j].owner
      BY <1>4 DEF Alive, TypeOK
    <2>. HIDE DEF m
    <2>5. \A n \in Machines : Running'[n] = IF n = m THEN {i} ELSE Running[n]
      BY <1>1, <2>3, <2>4 DEF Running
    <2>6. Running' = [Running EXCEPT ![m] = {i}]
      BY <1>1, <2>5 DEF Running
    <2>7. Phase' = Phase
      BY <1>1 DEF Phase
    <2>. QED BY <1>1, <1>4, <2>1, <2>3, <2>4, <2>6, <2>7, ContractSteps
         DEF Refines, HoldsFinalizer
  <1>. QED BY <1>1, <1>2, <1>3, <1>4

\* The controller destroys the one instance of a machine whose deletion was
\* requested and whose object is still there.
LEMMA DeleteRefines ==
    ASSUME LeakInv, InstanceDelete, faults.slips = 0, faults'.slips = 0
    PROVE  Refines
  <1>. DEFINE m == pass.machine
              i == pass.view.providerID
  <1>. TypeOK
    BY DEF LeakInv, SafetyInv
  <1>1. /\ UNCHANGED obj /\ pass.step = "destroy" /\ m \in Machines /\ i \in Ids
        /\ \/ UNCHANGED instance /\ (UNCHANGED faults \/ Fault("api"))
           \/ Fault("lost")
           \/ /\ UNCHANGED faults /\ Alive(i)
              /\ instance' = [instance EXCEPT ![i].state = "gone"]
    BY DEF InstanceDelete, TypeOK
  <1>2. CASE UNCHANGED instance /\ (UNCHANGED faults \/ Fault("api"))
    BY <1>1, <1>2, FaultRefines, StillRefines
  <1>3. ~Fault("lost")
    BY FaultCounts DEF Slips
  <1>4. CASE /\ UNCHANGED faults /\ Alive(i)
             /\ instance' = [instance EXCEPT ![i].state = "gone"]
    <2>1. instance[i].owner = m
      BY <1>1 DEF LeakInv, SafetyInv, Owned, Names
    <2>2. obj[m].phase = "deleting"
      <3>1. pass.base.phase = "deleting" /\ obj[m].phase # "live"
        BY <1>1 DEF LeakInv, SafetyInv, Dispatched, Ordered, Reaches
      <3>2. obj[m].phase # "gone"
        BY <1>1, <1>4, <2>1, RunsNamed DEF HoldsFinalizer
      <3>. QED BY <1>1, <3>1, <3>2 DEF TypeOK, Objects, Phases
    <2>3. /\ \A j \in Ids : Alive(j)' <=> Alive(j) /\ j # i
          /\ \A j \in Ids : instance'[j].owner = instance[j].owner
      BY <1>1, <1>4 DEF Alive, TypeOK, Instances
    <2>4. \A j \in Ids : Alive(j) /\ instance[j].owner = m => j = i
      BY <1>1, <1>4, <2>1, OneRuns
    <2>. HIDE DEF m, i
    <2>5. \A n \in Machines : Running'[n] = IF n = m THEN {} ELSE Running[n]
      BY <1>1, <2>1, <2>3, <2>4 DEF Running
    <2>6. Running' = [Running EXCEPT ![m] = {}]
      BY <1>1, <2>5 DEF Running
    <2>7. Phase' = Phase
      BY <1>1 DEF Phase
    <2>. QED BY <1>1, <1>4, <2>2, <2>6, <2>7, ContractSteps DEF Refines
  <1>. QED BY <1>1, <1>2, <1>3, <1>4

\* The patch that takes the last finalizer away finds no instance running.
LEMMA PatchRefines ==
    ASSUME LeakInv, PatchSpec, faults.slips = 0, faults'.slips = 0
    PROVE  Refines
  <1>. DEFINE m == pass.machine
  <1>. TypeOK
    BY DEF LeakInv, SafetyInv
  <1>1. /\ UNCHANGED instance /\ pass.step = "patchSpec" /\ m \in Machines
        /\ \A n \in Machines : n # m => obj'[n] = obj[n]
    BY PatchSpecFacts DEF TypeOK
  <1>2. ~Fault("patch")
    BY FaultCounts DEF Slips
  <1>3. /\ UNCHANGED faults
        /\ \/ obj'[m].phase = obj[m].phase
           \/ /\ obj[m].phase = "deleting" /\ obj'[m].phase = "gone"
              /\ obj[m].finalizer =>
                    pass.base.finalizer # pass.view.finalizer /\ ~pass.view.finalizer
    BY <1>2, PatchSpecFacts DEF Gone
  <1>4. Running' = Running
    BY <1>1 DEF Running, Alive
  <1>5. CASE obj'[m].phase = obj[m].phase
    <2>1. Phase' = Phase
      BY <1>1, <1>5 DEF Phase
    <2>. QED BY <1>3, <1>4, <2>1, ContractSteps DEF Refines
  <1>6. CASE /\ obj[m].phase = "deleting" /\ obj'[m].phase = "gone"
             /\ obj[m].finalizer =>
                   pass.base.finalizer # pass.view.finalizer /\ ~pass.view.finalizer
    <2>1. Debt = 0
      <3>1. Cardinality(Leaked) \in Nat /\ Debt \in Nat
        BY FS_CardinalityType DEF LeakInv, Accounted, Debt
      <3>. QED BY <3>1 DEF LeakInv, Accounted
    <2>2. obj[m].providerID = pass.base.providerID
      BY <1>1, <1>6, <2>1 DEF Debt
    <2>3. ASSUME NEW i \in Ids, Alive(i), instance[i].owner = m PROVE FALSE
      <3>1. /\ obj[m].finalizer
            /\ obj[m].providerID = i \/ InHand(i)
        BY <2>3, RunsNamed DEF HoldsFinalizer
      <3>2. ~pass.view.finalizer
        BY <1>6, <3>1
      <3>3. CASE obj[m].providerID = i
        BY <1>1, <2>2, <2>3, <3>2, <3>3 DEF LeakInv, Settled
      <3>4. CASE InHand(i)
        BY <1>1, <3>2, <3>4 DEF LeakInv, Settled, InHand
      <3>. QED BY <3>1, <3>3, <3>4
    <2>4. Running[m] = {}
      BY <1>1, <2>3 DEF Running
    <2>5. Phase' = [Phase EXCEPT ![m] = "gone"]
      BY <1>1, <1>6 DEF Phase
    <2>. QED BY <1>1, <1>3, <1>4, <1>6, <2>4, <2>5, ContractSteps DEF Refines
  <1>. QED BY <1>3, <1>5, <1>6

-----------------------------------------------------------------------------
(***************************************************************************)
(* The theorem.                                                            *)
(***************************************************************************)

\* Nothing runs when the manager first starts.
LEMMA ContractInit == Init => Contract!Init
  BY DEF Init, Alive, Contract!Init

\* Every step leaves the count of faults alone or adds one fault to it.
LEMMA StepFaults ==
    ASSUME TypeOK, [Next]_vars
    PROVE  UNCHANGED faults \/ \E kind \in AllFaults : Fault(kind)
  <1>. USE DEF AllFaults, Slips
  <1>1. ASSUME NEW m \in Machines,
               \/ RequestDeletion(m) \/ OwnerChange(m) \/ CacheSync(m) \/ Resync(m)
        PROVE  UNCHANGED faults
    BY <1>1 DEF RequestDeletion, OwnerChange, CacheSync, Resync
  <1>2. ASSUME NEW m \in Machines, Begin(m)
        PROVE  UNCHANGED faults \/ Fault("stale")
    BY <1>2, BeginFacts
  <1>3. ASSUME NEW i \in Ids, InstanceReady(i) \/ Vanish(i)
        PROVE  UNCHANGED faults \/ Fault("vanish")
    BY <1>3 DEF InstanceReady, Vanish
  <1>4. CASE InstanceCreate \/ InstanceDelete
    BY <1>4 DEF InstanceCreate, InstanceDelete
  <1>5. CASE InstanceGet \/ reconcileLoadBalancer \/ FindForDelete
    BY <1>5 DEF InstanceGet, reconcileLoadBalancer, FindForDelete
  <1>6. CASE PatchSpec \/ PatchStatus \/ Crash \/ UNCHANGED vars
    BY <1>6 DEF PatchSpec, PatchStatus, Crash, vars
  <1>. QED BY <1>1, <1>2, <1>3, <1>4, <1>5, <1>6 DEF Next, Works

\* Every step keeps the contract, or is not its concern.
LEMMA ContractStep ==
    ASSUME LeakInv, LeakInv', [Next]_vars
    PROVE  Refines
  <1>. TypeOK /\ TypeOK'
    BY DEF LeakInv, SafetyInv
  <1>s. faults.slips \in Nat /\ faults'.slips \in Nat
    BY ConstantsAssumption DEF TypeOK
  <1>1. CASE faults'.slips > 0
    BY <1>1 DEF Refines, Contract!Next
  <1>2. CASE faults'.slips = 0
    <2>0. faults.slips = 0
      <3>1. UNCHANGED faults \/ \E kind \in AllFaults : Fault(kind)
        BY StepFaults
      <3>. QED BY <1>s, <1>2, <3>1, FaultSlips
    <2>1. ASSUME NEW m \in Machines, RequestDeletion(m) PROVE Refines
      BY <2>0, <2>1, RequestRefines
    <2>2. ASSUME NEW m \in Machines, OwnerChange(m) \/ CacheSync(m) \/ Resync(m)
          PROVE  Refines
      BY <2>0, <2>2, QuietFacts, StillRefines
    <2>3. ASSUME NEW m \in Machines, Begin(m) PROVE Refines
      BY <1>2, <2>0, <2>3, BeginFacts, StillRefines, FaultRefines
    <2>4. ASSUME NEW i \in Ids, InstanceReady(i) PROVE Refines
      <3>1. /\ UNCHANGED <<obj, faults>>
            /\ \A j \in Ids : /\ Alive(j)' <=> Alive(j)
                              /\ instance'[j].owner = instance[j].owner
        BY <2>4 DEF InstanceReady, Alive, TypeOK, Instances
      <3>2. Phase' = Phase /\ Running' = Running
        BY <3>1, Stutters
      <3>. QED BY <2>0, <3>1, <3>2, ContractSteps DEF Refines
    <2>5. ASSUME NEW i \in Ids, Vanish(i) PROVE Refines
      BY <1>2, <2>0, <2>5, VanishRefines
    <2>6. CASE InstanceCreate
      BY <1>2, <2>0, <2>6, CreateRefines
    <2>7. CASE InstanceGet \/ reconcileLoadBalancer \/ FindForDelete
      <3>1. /\ UNCHANGED <<obj, instance>>
            /\ UNCHANGED faults \/ Fault("api")
        BY <2>7 DEF InstanceGet, reconcileLoadBalancer, FindForDelete
      <3>. QED BY <1>2, <2>0, <3>1, StillRefines, FaultRefines
    <2>8. CASE InstanceDelete
      BY <1>2, <2>0, <2>8, DeleteRefines
    <2>9. CASE PatchSpec
      BY <1>2, <2>0, <2>9, PatchRefines
    <2>10. CASE PatchStatus
      <3>1. /\ UNCHANGED instance
            /\ \A m \in Machines : obj'[m].phase = obj[m].phase
            /\ UNCHANGED faults \/ Fault("patch")
        BY <2>10, PatchStatusFacts
      <3>2. UNCHANGED faults
        BY <1>2, <2>0, <3>1, FaultCounts DEF Slips
      <3>3. Phase' = Phase /\ Running' = Running
        BY <3>1, Stutters DEF Alive
      <3>. QED BY <2>0, <3>2, <3>3, ContractSteps DEF Refines
    <2>11. CASE Crash
      BY <1>2, <2>0, <2>11, FaultCounts DEF Crash, Slips
    <2>12. CASE UNCHANGED vars
      BY <2>0, <2>12, StillRefines DEF vars
    <2>. QED BY <2>1, <2>2, <2>3, <2>4, <2>5, <2>6, <2>7, <2>8, <2>9, <2>10,
                <2>11, <2>12 DEF Next, Works
  <1>. QED BY <1>s, <1>1, <1>2

\* The controller keeps the contract: until the first slip a machine has at most
\* one running instance, it is created only for a machine that is there, it is
\* taken away by nobody but an outsider until the machine's deletion is
\* requested, and the object leaves the API server only after its instance.
THEOREM ImplementsContractHolds == Spec => ImplementsContract
  <1>1. LeakInv /\ LeakInv' /\ [Next]_vars => [Contract!Next]_(Contract!vars)
    BY ContractStep DEF Refines
  <1>. QED BY <1>1, ContractInit, LeakInvariance, PTL
       DEF Spec, ImplementsContract, Contract!Spec

\* Until the first slip no two instances run for the same machine, though Vultr's
\* Create is not idempotent and every pass works on a copy.
THEOREM OneInstancePerMachine ==
    Spec => [](faults.slips = 0 =>
                  \A i, j \in Ids :
                     Alive(i) /\ Alive(j) /\ instance[i].owner = instance[j].owner
                        => i = j)
  <1>1. LeakInv => (faults.slips = 0 =>
                      \A i, j \in Ids :
                         Alive(i) /\ Alive(j) /\ instance[i].owner = instance[j].owner
                            => i = j)
    BY OneRuns
  <1>. QED BY <1>1, LeakInvariance, PTL

\* Until the first slip the finalizer does what api/v1beta1/krumkakemachine_types.go:9
\* says of it: a machine that is gone has no instance running.  It takes a slip, as
\* in the run machine_finalizer, to make it leave one behind.
THEOREM FinalizerCleansUpUntilSlip ==
    Spec => [](faults.slips = 0 => FinalizerCleansUp)
  <1>1. LeakInv => (faults.slips = 0 => FinalizerCleansUp)
    BY RunsNamed DEF FinalizerCleansUp, HoldsFinalizer
  <1>. QED BY <1>1, LeakInvariance, PTL
================================================================================
