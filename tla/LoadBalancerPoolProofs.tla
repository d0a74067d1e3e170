------------------------- MODULE LoadBalancerPoolProofs -------------------------
(***************************************************************************)
(* Theorems about LoadBalancerPool, for every control plane, every pool    *)
(* and every limit of the account's subscriptions.                         *)
(***************************************************************************)
EXTENDS LoadBalancerPoolInv, FiniteSetTheorems, TLAPS

-----------------------------------------------------------------------------
(***************************************************************************)
(* What a step of a pass does, action by action.                           *)
(***************************************************************************)

\* What a pass read of its machine stays as it is.
Same == /\ pass'.machine = pass.machine
        /\ pass'.object = pass.object
        /\ pass'.leaving = pass.leaving

\* A pass that goes on keeps what it read.
LEMMA GoesStep ==
    ASSUME TypeOK, NEW step, NEW origins, Goes(step, origins)
    PROVE  Same /\ pass'.step = step /\ pass'.origins = origins
  BY DEF TypeOK, Passes, Goes, Same

\* A fault keeps the counters within the bound, slips and races below all faults.
LEMMA FaultStep ==
    ASSUME TypeOK, Counts, NEW kind, Fault(kind)
    PROVE  /\ faults' \in [all : 0..MaxFaults, slips : 0..MaxFaults, races : 0..MaxFaults]
           /\ Counts'
           /\ faults'.slips = faults.slips + IF kind \in Slips THEN 1 ELSE 0
           /\ faults'.races = faults.races + IF kind = "race" THEN 1 ELSE 0
  <1>. USE ConstantsAssumption
  <1>1. /\ faults.all \in 0..MaxFaults /\ faults.slips \in 0..MaxFaults
        /\ faults.races \in 0..MaxFaults
    BY DEF TypeOK
  <1>2. /\ faults'.all = faults.all + 1 /\ faults.all < MaxFaults
        /\ faults'.slips = faults.slips + IF kind \in Slips THEN 1 ELSE 0
        /\ faults'.races = faults.races + IF kind = "race" THEN 1 ELSE 0
        /\ faults' = [all |-> faults'.all, slips |-> faults'.slips, races |-> faults'.races]
    BY DEF Fault
  <1>3. "race" \notin Slips
    BY DEF Slips
  <1>4. /\ faults'.all \in 0..MaxFaults /\ faults'.slips \in 0..MaxFaults
        /\ faults'.races \in 0..MaxFaults
        /\ Counts'
    BY <1>1, <1>2 DEF Counts
  <1>. QED BY <1>2, <1>4

\* The counters where a step is fault-free or fails by no fault of its inputs.
LEMMA CleanStep ==
    ASSUME TypeOK, Counts,
           UNCHANGED faults \/ \E kind \in {"api", "lost", "crash"} : Fault(kind)
    PROVE  /\ faults' \in [all : 0..MaxFaults, slips : 0..MaxFaults, races : 0..MaxFaults]
           /\ Counts'
           /\ faults'.slips = faults.slips /\ faults'.races = faults.races
  <1>1. CASE UNCHANGED faults
    BY <1>1 DEF TypeOK, Counts
  <1>2. ASSUME NEW kind \in {"api", "lost", "crash"}, Fault(kind)
        PROVE  /\ faults' \in [all : 0..MaxFaults, slips : 0..MaxFaults, races : 0..MaxFaults]
               /\ Counts'
               /\ faults'.slips = faults.slips /\ faults'.races = faults.races
    <2>1. kind \notin Slips /\ kind # "race"
      BY DEF Slips
    <2>2. faults.slips \in 0..MaxFaults /\ faults.races \in 0..MaxFaults
      BY DEF TypeOK
    <2>. QED BY <1>2, <2>1, <2>2, FaultStep, ConstantsAssumption
  <1>. QED BY <1>1, <1>2

\* The counters where a step may be a race.
LEMMA RaceStep ==
    ASSUME TypeOK, Counts, IF Exposed THEN Fault("race") ELSE UNCHANGED faults
    PROVE  /\ faults' \in [all : 0..MaxFaults, slips : 0..MaxFaults, races : 0..MaxFaults]
           /\ Counts'
           /\ faults'.slips = faults.slips
           /\ faults'.races = faults.races + IF Exposed THEN 1 ELSE 0
  <1>1. CASE Exposed
    <2>1. "race" \notin Slips /\ faults.slips \in 0..MaxFaults
      BY DEF Slips, TypeOK
    <2>. QED BY <1>1, <2>1, FaultStep, ConstantsAssumption
  <1>2. CASE ~Exposed
    BY <1>2, ConstantsAssumption DEF TypeOK, Counts
  <1>. QED BY <1>1, <1>2

\* The counters where a step may be a slip.
LEMMA SlipStep ==
    ASSUME TypeOK, Counts, NEW kind \in Slips, NEW free \in BOOLEAN,
           IF free THEN UNCHANGED faults ELSE Fault(kind)
    PROVE  /\ faults' \in [all : 0..MaxFaults, slips : 0..MaxFaults, races : 0..MaxFaults]
           /\ Counts'
           /\ faults'.slips = faults.slips + IF free THEN 0 ELSE 1
           /\ faults'.races = faults.races
  <1>1. CASE ~free
    <2>1. kind # "race" /\ faults.races \in 0..MaxFaults
      BY DEF Slips, TypeOK
    <2>. QED BY <1>1, <2>1, FaultStep, ConstantsAssumption
  <1>2. CASE free
    BY <1>2, ConstantsAssumption DEF TypeOK, Counts
  <1>. QED BY <1>1, <1>2

\* What PoolGet does: the pass goes on with a copy of the whole list, or it is
\* done with the pool.
LEMMA PoolGetStep ==
    ASSUME TypeOK, Counts, PoolGet
    PROVE  /\ pass.step = "get"
           /\ UNCHANGED <<machine, infra, cache, pool, others>>
           /\ UNCHANGED faults \/ Fault("api")
           /\ \/ /\ Same /\ pass'.origins = pool
                 /\ pass'.step = IF pass.leaving THEN "list" ELSE "check"
                 /\ pass.leaving => Own \cap pool # {}
              \/ /\ Same /\ pass'.origins = {} /\ pass'.step = "rest"
                 /\ pass.leaving /\ Own \cap pool = {}
              \/ pass' = Idle
  BY GoesStep DEF PoolGet, Done

\* What the check of the subscriptions does.
LEMMA CheckStep ==
    ASSUME TypeOK, Counts, hasLoadBalancerEndpointCapacity
    PROVE  /\ pass.step = "check"
           /\ UNCHANGED <<machine, infra, cache, pool, others>>
           /\ UNCHANGED faults \/ Fault("api")
           /\ \/ /\ Same /\ pass'.step = "edit" /\ Total < MaxOrigins
                 /\ pass'.origins = pass.origins \cup {pass.object.address}
              \/ pass' = Idle
  BY GoesStep DEF hasLoadBalancerEndpointCapacity, Room

\* What the choice of a substitute does: one address at most takes the place of
\* the machine's.
LEMMA ReplaceStep ==
    ASSUME TypeOK, Counts, Replace
    PROVE  /\ pass.step = "list" /\ pass'.step = "edit" /\ Same
           /\ UNCHANGED <<machine, infra, cache, pool, others>>
           /\ UNCHANGED faults \/ Fault("api")
           /\ \/ pass'.origins = pass.origins \ Own
              \/ \E n \in Machines \ {pass.machine} :
                    /\ ~cache[n].machine.deleting
                    /\ pass'.origins = (pass.origins \ Own) \cup {cache[n].machine.address}
  <1>. DEFINE rest == pass.origins \ Own
  <1>1. \/ Goes("edit", rest)
        \/ \E n \in Substitutes(rest) : Goes("edit", rest \cup {cache[n].machine.address})
    BY DEF Replace
  <1>2. /\ pass.step = "list"
        /\ UNCHANGED <<machine, infra, cache, pool, others>>
        /\ UNCHANGED faults \/ Fault("api")
    BY DEF Replace
  <1>3. CASE Goes("edit", rest)
    BY <1>2, <1>3, GoesStep
  <1>4. ASSUME NEW n \in Substitutes(rest), Goes("edit", rest \cup {cache[n].machine.address})
        PROVE  /\ pass'.step = "edit" /\ Same
               /\ n \in Machines \ {pass.machine} /\ ~cache[n].machine.deleting
               /\ pass'.origins = rest \cup {cache[n].machine.address}
    <2>1. n \in Machines \ {pass.machine} /\ ~cache[n].machine.deleting
      BY DEF Substitutes
    <2>. HIDE DEF rest
    <2>. QED BY <1>4, <2>1, GoesStep
  <1>. QED BY <1>1, <1>2, <1>3, <1>4

\* What the write does: the pool becomes the pass's copy, or stays.
LEMMA PoolEditStep ==
    ASSUME TypeOK, Counts, PoolEdit
    PROVE  /\ pass.step = "edit"
           /\ UNCHANGED <<machine, infra, cache, others>>
           /\ UNCHANGED faults \/ Fault("api") \/ Fault("lost")
           /\ \/ /\ pool' = pass.origins /\ pass.leaving
                 /\ Same /\ pass'.step = "rest" /\ pass'.origins = {}
              \/ pool' \in {pool, pass.origins} /\ pass' = Idle
  BY GoesStep DEF PoolEdit, Written, Done, Failure

\* What the rest of reconcileDelete does.
LEMMA ReleaseStep ==
    ASSUME TypeOK, Counts, Release
    PROVE  /\ pass.step = "rest" /\ pass' = Idle
           /\ UNCHANGED <<machine, cache, pool, others>>
           /\ UNCHANGED faults \/ Fault("api")
           /\ \/ infra' = [infra EXCEPT ![pass.machine] = "gone"]
              \/ UNCHANGED infra
  BY DEF Release

-----------------------------------------------------------------------------
(***************************************************************************)
(* Types.                                                                  *)
(***************************************************************************)

\* The worker between two passes is well typed.
LEMMA IdleType ==
    /\ Idle \in Passes /\ NoObject \in MachineObjects
    /\ Idle.step = "idle" /\ Idle.origins = {} /\ ~Idle.leaving
  BY DEF Idle, Passes, Steps, NoObject, MachineObjects

\* The addresses of a machine may stand in the list.
LEMMA OwnType ==
    ASSUME NEW m \in Machines, NEW o \in MachineObjects
    PROVE  /\ o.address \in Origins /\ m \in Origins
           /\ OwnAddresses(m, o) \subseteq Origins
  BY DEF MachineObjects, Origins, OwnAddresses

\* The fields of a pass.
LEMMA PassFields ==
    ASSUME TypeOK
    PROVE  /\ pass.step \in Steps /\ pass.object \in MachineObjects
           /\ pass.leaving \in BOOLEAN /\ pass.origins \subseteq Origins
           /\ pass.step # "idle" => pass.machine \in Machines
           /\ pass.step \in {"list", "rest"} => pass.leaving
  BY DEF TypeOK, Passes

\* A pass of the right form.
LEMMA GoesType ==
    ASSUME TypeOK, NEW step \in Steps, NEW origins \in SUBSET Origins, Goes(step, origins)
    PROVE  pass' \in Passes
  BY DEF TypeOK, Passes, Goes

\* The initial states are well typed.
LEMMA InitType == Init => TypeOK /\ Counts
  <1>. SUFFICES ASSUME Init PROVE TypeOK /\ Counts
    OBVIOUS
  <1>1. machine \in [Machines -> MachineObjects] /\ infra \in [Machines -> Phases]
    BY IdleType DEF Init, Phases
  <1>2. cache \in [Machines -> [machine : MachineObjects, infra : Phases]]
    BY <1>1 DEF Init
  <1>3. pool \subseteq Origins /\ others \in 0..MaxOrigins
    BY DEF Init, Origins
  <1>4. /\ Counts
        /\ faults \in [all : 0..MaxFaults, slips : 0..MaxFaults, races : 0..MaxFaults]
    BY ConstantsAssumption DEF Init, Counts
  <1>. QED BY <1>1, <1>2, <1>3, <1>4, IdleType DEF Init, TypeOK

\* The pass that Begin starts, and its slip if the copies are outdated.
LEMMA BeginStep ==
    ASSUME TypeOK, Counts, NEW m \in Machines, Begin(m)
    PROVE  /\ pass.step = "idle"
           /\ UNCHANGED <<machine, infra, cache, pool, others>>
           /\ pass' \in Passes
           /\ pass'.machine = m /\ pass'.object = cache[m].machine /\ pass'.origins = {}
           /\ cache[m].infra # "gone"
           /\ pass'.leaving <=> cache[m].infra = "deleting"
           /\ pass'.step = IF pass'.object.address = NoAddress THEN "rest" ELSE "get"
           /\ pass'.step = "rest" => pass'.leaving
           /\ IF cache[m] = [machine |-> machine[m], infra |-> infra[m]]
                THEN UNCHANGED faults ELSE Fault("stale")
  <1>. DEFINE leaving == cache[m].infra = "deleting"
              unknown == cache[m].machine.address = NoAddress
  <1>1. /\ pass.step = "idle" /\ cache[m].infra # "gone"
        /\ UNCHANGED <<machine, infra, cache, pool, others>>
        /\ leaving \/ ~unknown
        /\ pass' = [step    |-> IF unknown THEN "rest" ELSE "get",
                    machine |-> m, object |-> cache[m].machine,
                    leaving |-> leaving, origins |-> {}]
        /\ IF cache[m] = [machine |-> machine[m], infra |-> infra[m]]
             THEN UNCHANGED faults ELSE Fault("stale")
    BY DEF Begin
  <1>2. cache[m].machine \in MachineObjects
    BY DEF TypeOK
  <1>3. pass' \in Passes
    BY <1>1, <1>2 DEF Passes, Steps
  <1>. QED BY <1>1, <1>3

\* Every step, stuttering included, keeps the types.
LEMMA StepType ==
    ASSUME TypeOK, Counts, [Next]_vars
    PROVE  TypeOK' /\ Counts'
  <1>. DEFINE FaultsOK ==
         faults \in [all : 0..MaxFaults, slips : 0..MaxFaults, races : 0..MaxFaults]
  <1>. USE PassFields
  <1>1. ASSUME NEW m \in Machines, NEW a \in Addresses, Assign(m, a) \/ Readdress(m, a)
        PROVE  TypeOK' /\ Counts'
    <2>1. machine' \in [Machines -> MachineObjects]
      <3>1. machine \in [Machines -> MachineObjects]
        BY DEF TypeOK
      <3>2. machine' = [machine EXCEPT ![m].address = a]
        BY <1>1 DEF Assign, Readdress
      <3>3. [machine[m] EXCEPT !.address = a] \in MachineObjects
        BY <3>1 DEF MachineObjects
      <3>. QED BY <3>1, <3>2, <3>3
    <2>2. FaultsOK' /\ Counts'
      BY <1>1, FaultStep DEF Assign, Readdress, TypeOK, Counts
    <2>3. UNCHANGED <<infra, cache, pool, others, pass>>
      BY <1>1 DEF Assign, Readdress
    <2>. QED BY <2>1, <2>2, <2>3 DEF TypeOK
  <1>2. ASSUME NEW m \in Machines, DeleteMachine(m) PROVE TypeOK' /\ Counts'
    <2>1. machine' \in [Machines -> MachineObjects]
      <3>1. machine \in [Machines -> MachineObjects]
        BY DEF TypeOK
      <3>2. machine' = [machine EXCEPT ![m].deleting = TRUE]
        BY <1>2 DEF DeleteMachine
      <3>3. [machine[m] EXCEPT !.deleting = TRUE] \in MachineObjects
        BY <3>1 DEF MachineObjects
      <3>. QED BY <3>1, <3>2, <3>3
    <2>. QED BY <1>2, <2>1 DEF DeleteMachine, TypeOK, Counts
  <1>3. ASSUME NEW m \in Machines, DeleteInfra(m) PROVE TypeOK' /\ Counts'
    <2>1. infra' \in [Machines -> Phases]
      BY <1>3 DEF DeleteInfra, TypeOK, Phases
    <2>2. FaultsOK' /\ Counts'
      BY <1>3, FaultStep DEF DeleteInfra, TypeOK, Counts
    <2>. QED BY <1>3, <2>1, <2>2 DEF DeleteInfra, TypeOK
  <1>4. ASSUME NEW m \in Machines, SyncMachine(m) \/ SyncInfra(m)
        PROVE  TypeOK' /\ Counts'
    <2>1. cache' \in [Machines -> [machine : MachineObjects, infra : Phases]]
      BY <1>4 DEF SyncMachine, SyncInfra, TypeOK
    <2>. QED BY <1>4, <2>1 DEF SyncMachine, SyncInfra, TypeOK, Counts
  <1>5. ASSUME NEW m \in Machines, Begin(m) PROVE TypeOK' /\ Counts'
    <2>1. FaultsOK' /\ Counts'
      BY <1>5, BeginStep, FaultStep DEF TypeOK, Counts
    <2>. QED BY <1>5, <2>1, BeginStep DEF TypeOK
  <1>6. ASSUME NEW x \in Aliens \cup Machines \cup pool, AdminEdit(x)
        PROVE  TypeOK' /\ Counts'
    <2>1. FaultsOK' /\ Counts'
      BY <1>6, RaceStep DEF AdminEdit
    <2>2. pool' \subseteq Origins
      BY <1>6 DEF AdminEdit, TypeOK, Origins
    <2>. QED BY <1>6, <2>1, <2>2 DEF AdminEdit, TypeOK
  <1>7. ASSUME NEW n \in 0..MaxOrigins, OtherPools(n) PROVE TypeOK' /\ Counts'
    <2>1. FaultsOK' /\ Counts'
      BY <1>7, RaceStep DEF OtherPools
    <2>. QED BY <1>7, <2>1 DEF OtherPools, TypeOK
  <1>8. CASE Crash
    <2>1. FaultsOK' /\ Counts'
      BY <1>8, CleanStep DEF Crash
    <2>2. cache' \in [Machines -> [machine : MachineObjects, infra : Phases]]
      BY <1>8 DEF Crash, TypeOK
    <2>. QED BY <1>8, <2>1, <2>2, IdleType DEF Crash, TypeOK
  <1>9. CASE PoolGet
    <2>1. FaultsOK' /\ Counts'
      BY <1>9, PoolGetStep, CleanStep
    <2>2. pass' \in Passes
      BY <1>9, GoesType, IdleType DEF PoolGet, Done, Steps, TypeOK
    <2>. QED BY <1>9, <2>1, <2>2, PoolGetStep, IdleType DEF TypeOK, Same
  <1>10. CASE hasLoadBalancerEndpointCapacity
    <2>1. FaultsOK' /\ Counts'
      BY <1>10, CheckStep, CleanStep
    <2>2. pass.machine \in Machines /\ pass.origins \cup {pass.object.address} \in SUBSET Origins
      BY <1>10, CheckStep, OwnType
    <2>3. pass' \in Passes
      BY <1>10, <2>2, GoesType, IdleType DEF hasLoadBalancerEndpointCapacity, Steps
    <2>. QED BY <1>10, <2>1, <2>3, CheckStep, IdleType DEF TypeOK, Same
  <1>11. CASE Replace
    <2>1. FaultsOK' /\ Counts'
      BY <1>11, ReplaceStep, CleanStep
    <2>2. pass'.origins \in SUBSET Origins
      BY <1>11, ReplaceStep, OwnType DEF TypeOK
    <2>3. pass' = [pass EXCEPT !.step = "edit", !.origins = pass'.origins]
      BY <1>11, GoesStep DEF Replace, Goes, TypeOK, Passes
    <2>4. pass' \in Passes
      BY <2>2, <2>3, GoesType DEF Goes, Steps
    <2>. QED BY <1>11, <2>1, <2>4, ReplaceStep DEF TypeOK, Same
  <1>12. CASE PoolEdit
    <2>1. FaultsOK' /\ Counts'
      BY <1>12, PoolEditStep, CleanStep
    <2>2. pool' \subseteq Origins
      BY <1>12, PoolEditStep DEF TypeOK
    <2>3. pass' \in Passes
      BY <1>12, GoesType, IdleType DEF PoolEdit, Done, Failure, Steps
    <2>. QED BY <1>12, <2>1, <2>2, <2>3, PoolEditStep, IdleType DEF TypeOK, Same
  <1>13. CASE Release
    <2>1. FaultsOK' /\ Counts'
      BY <1>13, ReleaseStep, CleanStep
    <2>2. infra' \in [Machines -> Phases]
      BY <1>13, ReleaseStep DEF TypeOK, Phases
    <2>. QED BY <1>13, <2>1, <2>2, ReleaseStep, IdleType DEF TypeOK
  <1>14. CASE UNCHANGED vars
    BY <1>14 DEF vars, TypeOK, Counts
  <1>. QED
    BY <1>1, <1>2, <1>3, <1>4, <1>5, <1>6, <1>7, <1>8, <1>9, <1>10, <1>11, <1>12, <1>13,
       <1>14 DEF Next, Works

\* The pool holds nothing but addresses, host names and what others put there,
\* and only a pass over a machine that leaves chooses a substitute or goes on to
\* its instance.
THEOREM TypeCorrect == Spec => []TypeOK
  <1>1. Init => TypeOK /\ Counts
    BY InitType
  <1>2. TypeOK /\ Counts /\ [Next]_vars => (TypeOK /\ Counts)'
    BY StepType
  <1>. QED BY <1>1, <1>2, PTL DEF Spec

-----------------------------------------------------------------------------
(***************************************************************************)
(* What a step may make of each variable.                                  *)
(***************************************************************************)

\* A deletion is not taken back, and an address changes only while the
\* infrastructure lives, to one no other instance has.
LEMMA MachineStep ==
    ASSUME TypeOK, [Next]_vars
    PROVE  \/ UNCHANGED machine
           \/ \E m \in Machines, a \in Addresses :
                 /\ infra[m] = "live" /\ Free(a)
                 /\ machine' = [machine EXCEPT ![m].address = a]
                 /\ UNCHANGED <<infra, cache, pool, others, pass>>
                 /\ \/ machine[m].address = NoAddress /\ UNCHANGED faults
                    \/ Fault("readdress")
           \/ \E m \in Machines :
                 /\ machine' = [machine EXCEPT ![m].deleting = TRUE]
                 /\ UNCHANGED <<infra, cache, pool, others, pass, faults>>
  <1>1. ASSUME NEW m \in Machines, NEW a \in Addresses, Assign(m, a) \/ Readdress(m, a)
        PROVE  /\ infra[m] = "live" /\ Free(a)
               /\ machine' = [machine EXCEPT ![m].address = a]
               /\ UNCHANGED <<infra, cache, pool, others, pass>>
               /\ \/ machine[m].address = NoAddress /\ UNCHANGED faults
                  \/ Fault("readdress")
    BY <1>1 DEF Assign, Readdress
  <1>2. ASSUME NEW m \in Machines, DeleteMachine(m)
        PROVE  /\ machine' = [machine EXCEPT ![m].deleting = TRUE]
               /\ UNCHANGED <<infra, cache, pool, others, pass, faults>>
    BY <1>2 DEF DeleteMachine
  <1>. QED
    BY <1>1, <1>2 DEF Next, Works, vars, DeleteInfra, SyncMachine, SyncInfra, Begin,
       AdminEdit, OtherPools, Crash, PoolGet, hasLoadBalancerEndpointCapacity, Replace,
       PoolEdit, Release

\* Infrastructure goes on from live to deleting, by Cluster API or by a slip, and
\* to gone, by the pass over it.
LEMMA InfraStep ==
    ASSUME TypeOK, [Next]_vars
    PROVE  \/ UNCHANGED infra
           \/ \E m \in Machines :
                 /\ infra[m] = "live" /\ infra' = [infra EXCEPT ![m] = "deleting"]
                 /\ machine[m].deleting \/ Fault("direct")
                 /\ UNCHANGED <<machine, cache, pool, others, pass>>
           \/ /\ Release /\ infra' = [infra EXCEPT ![pass.machine] = "gone"]
  <1>1. ASSUME NEW m \in Machines, DeleteInfra(m)
        PROVE  /\ infra[m] = "live" /\ infra' = [infra EXCEPT ![m] = "deleting"]
               /\ machine[m].deleting \/ Fault("direct")
               /\ UNCHANGED <<machine, cache, pool, others, pass>>
    BY <1>1 DEF DeleteInfra
  <1>2. CASE Release
    BY <1>2 DEF Release
  <1>. QED
    BY <1>1, <1>2 DEF Next, Works, vars, Assign, Readdress, DeleteMachine, SyncMachine,
       SyncInfra, Begin, AdminEdit, OtherPools, Crash, PoolGet,
       hasLoadBalancerEndpointCapacity, Replace, PoolEdit

\* A copy changes to what it is a copy of.
LEMMA CacheStep ==
    ASSUME TypeOK, [Next]_vars
    PROVE  \/ UNCHANGED cache
           \/ /\ UNCHANGED <<machine, infra, pool, others, pass, faults>>
              /\ \A n \in Machines :
                    /\ cache'[n].machine \in {cache[n].machine, machine[n]}
                    /\ cache'[n].infra \in {cache[n].infra, infra[n]}
           \/ /\ Crash
              /\ \A n \in Machines :
                    cache'[n].machine = machine[n] /\ cache'[n].infra = infra[n]
  <1>1. ASSUME NEW m \in Machines, SyncMachine(m) \/ SyncInfra(m)
        PROVE  /\ UNCHANGED <<machine, infra, pool, others, pass, faults>>
               /\ \A n \in Machines :
                     /\ cache'[n].machine \in {cache[n].machine, machine[n]}
                     /\ cache'[n].infra \in {cache[n].infra, infra[n]}
    BY <1>1 DEF SyncMachine, SyncInfra, TypeOK
  <1>2. CASE Crash
    BY <1>2 DEF Crash
  <1>. QED
    BY <1>1, <1>2 DEF Next, Works, vars, Assign, Readdress, DeleteMachine, DeleteInfra,
       Begin, AdminEdit, OtherPools, PoolGet, hasLoadBalancerEndpointCapacity, Replace,
       PoolEdit, Release

\* A pass begins, goes on with what it read of its machine, or ends.
LEMMA PassStep ==
    ASSUME TypeOK, Counts, [Next]_vars
    PROVE  \/ UNCHANGED pass
           \/ \E m \in Machines : Begin(m)
           \/ Same /\ Active /\ UNCHANGED <<machine, infra, cache>>
           \/ pass' = Idle
  <1>1. CASE Works
    <2>1. CASE PoolGet
      BY <2>1, PoolGetStep DEF Active
    <2>2. CASE hasLoadBalancerEndpointCapacity
      BY <2>2, CheckStep DEF Active
    <2>3. CASE Replace
      BY <2>3, ReplaceStep DEF Active
    <2>4. CASE PoolEdit
      BY <2>4, PoolEditStep DEF Active
    <2>5. CASE Release
      BY <2>5, ReleaseStep
    <2>. QED BY <1>1, <2>1, <2>2, <2>3, <2>4, <2>5 DEF Works
  <1>. QED
    BY <1>1 DEF Next, vars, Assign, Readdress, DeleteMachine, DeleteInfra, SyncMachine,
       SyncInfra, AdminEdit, OtherPools, Crash

-----------------------------------------------------------------------------
(***************************************************************************)
(* The copies and the addresses.                                           *)
(***************************************************************************)

\* Deletions and phases only move forward.
LEMMA Forward ==
    ASSUME TypeOK, Counts, [Next]_vars, NEW m \in Machines
    PROVE  /\ machine[m].deleting => machine'[m].deleting
           /\ infra[m] # "live" => infra'[m] # "live" /\ machine'[m].address = machine[m].address
           /\ infra[m] = "gone" => infra'[m] = "gone"
  <1>. machine \in [Machines -> MachineObjects] /\ infra \in [Machines -> Phases]
    BY DEF TypeOK
  <1>1. machine[m].deleting => machine'[m].deleting
    BY MachineStep DEF MachineObjects
  <1>2. infra[m] # "live" => machine'[m].address = machine[m].address
    BY MachineStep DEF MachineObjects
  <1>3. /\ infra[m] # "live" => infra'[m] # "live"
        /\ infra[m] = "gone" => infra'[m] = "gone"
    <2>1. infra'[m] = infra[m] \/ infra[m] = "live" \/ infra'[m] = "gone"
      BY InfraStep
    <2>2. infra'[m] = "live" => infra[m] = "live"
      BY InfraStep
    <2>3. infra[m] = "gone" => infra'[m] = "gone"
      BY InfraStep
    <2>. QED BY <2>2, <2>3
  <1>. QED BY <1>1, <1>2, <1>3

\* The copies stay behind what they are copies of.
LEMMA StepLags ==
    ASSUME TypeOK, Counts, Lags, [Next]_vars
    PROVE  Lags'
  <1>1. ASSUME NEW m \in Machines
        PROVE  /\ cache'[m].infra = "gone" => infra'[m] = "gone"
               /\ cache'[m].infra = "deleting" => infra'[m] # "live"
               /\ cache'[m].machine.deleting => machine'[m].deleting
    <2>1. CASE UNCHANGED cache
      BY <2>1, Forward DEF Lags
    <2>2. CASE ~UNCHANGED cache
      <3>1. /\ cache'[m].infra \in {cache[m].infra, infra[m]}
            /\ cache'[m].machine \in {cache[m].machine, machine[m]}
        BY <2>2, CacheStep
      <3>. QED BY <3>1, Forward DEF Lags
    <2>. QED BY <2>1, <2>2
  <1>2. Active' /\ pass'.leaving => infra'[pass'.machine] # "live"
    <2>. SUFFICES ASSUME Active', pass'.leaving PROVE infra'[pass'.machine] # "live"
      OBVIOUS
    <2>1. CASE UNCHANGED pass \/ (Same /\ Active)
      <3>1. pass.machine \in Machines /\ infra[pass.machine] # "live"
        BY <2>1, PassFields DEF Active, Same, Lags
      <3>2. pass'.machine = pass.machine
        BY <2>1 DEF Same
      <3>. QED BY <3>1, <3>2, Forward
    <2>2. ASSUME NEW m \in Machines, Begin(m)
          PROVE  infra'[pass'.machine] # "live"
      BY <2>2, BeginStep DEF Lags
    <2>3. pass' # Idle
      BY IdleType DEF Active
    <2>. QED BY <2>1, <2>2, <2>3, PassStep
  <1>3. Active' /\ pass'.object.deleting => cache'[pass'.machine].machine.deleting
    <2>. SUFFICES ASSUME Active', pass'.object.deleting
                  PROVE  cache'[pass'.machine].machine.deleting
      OBVIOUS
    <2>1. CASE UNCHANGED pass \/ (Same /\ Active)
      <3>1. /\ pass.machine \in Machines /\ cache[pass.machine].machine.deleting
            /\ machine[pass.machine].deleting
        BY <2>1, PassFields DEF Active, Same, Lags
      <3>2. pass'.machine = pass.machine
        BY <2>1 DEF Same
      <3>3. cache'[pass.machine].machine \in {cache[pass.machine].machine, machine[pass.machine]}
        BY <3>1, CacheStep
      <3>. QED BY <3>1, <3>2, <3>3
    <2>2. ASSUME NEW m \in Machines, Begin(m)
          PROVE  cache'[pass'.machine].machine.deleting
      BY <2>2, BeginStep
    <2>3. pass' # Idle
      BY IdleType DEF Active
    <2>. QED BY <2>1, <2>2, <2>3, PassStep
  <1>. QED BY <1>1, <1>2, <1>3 DEF Lags

\* Two instances never come to have the same address.
LEMMA StepUnique ==
    ASSUME TypeOK, Counts, Unique, [Next]_vars
    PROVE  Unique'
  <1>. SUFFICES ASSUME NEW m \in Machines, NEW n \in Machines, m # n,
                       infra'[m] # "gone", infra'[n] # "gone",
                       machine'[m].address \in Addresses,
                       machine'[m].address = machine'[n].address
                PROVE  FALSE
    BY DEF Unique
  <1>. machine \in [Machines -> MachineObjects]
    BY DEF TypeOK
  <1>1. infra[m] # "gone" /\ infra[n] # "gone"
    BY Forward
  <1>2. CASE machine'[m].address = machine[m].address /\ machine'[n].address = machine[n].address
    BY <1>1, <1>2 DEF Unique
  <1>3. ASSUME NEW l \in Machines, NEW a \in Addresses, Free(a),
               machine' = [machine EXCEPT ![l].address = a]
        PROVE  FALSE
    <2>1. machine[m].address # a /\ machine[n].address # a
      BY <1>1, <1>3 DEF Free
    <2>. QED BY <1>1, <1>3, <2>1 DEF MachineObjects, Unique
  <1>4. ASSUME NEW l \in Machines, machine' = [machine EXCEPT ![l].deleting = TRUE]
        PROVE  FALSE
    BY <1>1, <1>4 DEF MachineObjects, Unique
  <1>. QED BY <1>2, <1>3, <1>4, MachineStep

-----------------------------------------------------------------------------
(***************************************************************************)
(* What a pass knows, and what it keeps of the list.                       *)
(***************************************************************************)

\* Faults are not forgotten.
LEMMA CountersGrow ==
    ASSUME TypeOK, Counts, [Next]_vars
    PROVE  faults'.slips >= faults.slips /\ faults'.races >= faults.races
  <1>1. UNCHANGED faults \/ \E kind : Fault(kind)
    BY DEF Next, Works, vars, Assign, Readdress, DeleteMachine, DeleteInfra, SyncMachine,
       SyncInfra, Begin, AdminEdit, OtherPools, Crash, PoolGet,
       hasLoadBalancerEndpointCapacity, Replace, PoolEdit, Release
  <1>2. faults.slips \in 0..MaxFaults /\ faults.races \in 0..MaxFaults
    BY DEF TypeOK
  <1>. QED BY <1>1, <1>2, FaultStep, ConstantsAssumption

\* What a pass read of its machine stays so without a slip: a deleting machine's
\* address is fixed, and a joining one's is known.
LEMMA StepKnows ==
    ASSUME TypeOK, Counts, Lags, Knows, [Next]_vars
    PROVE  Knows'
  <1>0. pass'.step = "check" => ~pass'.leaving
    <2>1. CASE Works
      BY <2>1, PoolGetStep, CheckStep, ReplaceStep, PoolEditStep, ReleaseStep, IdleType
      DEF Works, Same
    <2>2. CASE pass'.step # "check" \/ UNCHANGED pass
      BY <2>2 DEF Knows
    <2>3. (Crash \/ \E m \in Machines : Begin(m)) => pass'.step # "check"
      BY BeginStep, IdleType DEF Crash
    <2>. QED
      BY <2>1, <2>2, <2>3 DEF Next, vars, Assign, Readdress, DeleteMachine, DeleteInfra,
         SyncMachine, SyncInfra, AdminEdit, OtherPools
  <1>1. Active' /\ ~pass'.leaving => pass'.object.address # NoAddress
    <2>1. ASSUME NEW m \in Machines, Begin(m), ~pass'.leaving
          PROVE  pass'.object.address # NoAddress
      BY <2>1, BeginStep
    <2>2. pass' = Idle => ~Active'
      BY IdleType DEF Active
    <2>3. UNCHANGED pass \/ (Same /\ Active) =>
             (Active' /\ ~pass'.leaving => pass'.object.address # NoAddress)
      BY DEF Knows, Same, Active
    <2>. QED BY <2>1, <2>2, <2>3, PassStep
  <1>2. ASSUME Active', faults'.slips = 0
        PROVE  /\ pass'.object.address = machine'[pass'.machine].address
               /\ infra'[pass'.machine] # "gone"
    <2>1. faults.slips = 0
      BY <1>2, CountersGrow, ConstantsAssumption DEF TypeOK
    <2>2. ASSUME NEW kind \in Slips PROVE ~Fault(kind)
      BY <1>2, <2>1, <2>2, FaultStep
    <2>3. CASE Same /\ Active /\ UNCHANGED <<machine, infra, cache>>
      BY <2>1, <2>3 DEF Knows, Same
    <2>4. ASSUME NEW m \in Machines, Begin(m)
          PROVE  /\ pass'.object.address = machine'[pass'.machine].address
                 /\ infra'[pass'.machine] # "gone"
      <3>1. cache[m] = [machine |-> machine[m], infra |-> infra[m]]
        BY <2>2, <2>4, BeginStep DEF Slips
      <3>. QED BY <2>4, <3>1, BeginStep
    <2>5. CASE UNCHANGED pass
      <3>. DEFINE m == pass.machine
      <3>1. /\ Active /\ m \in Machines /\ pass.object.address = machine[m].address
            /\ infra[m] # "gone"
        BY <1>2, <2>1, <2>5, PassFields DEF Knows, Active
      <3>2. machine'[m].address = machine[m].address
        <4>1. ASSUME NEW l \in Machines, NEW a \in Addresses, infra[l] = "live",
                     machine' = [machine EXCEPT ![l].address = a],
                     machine[l].address = NoAddress
              PROVE  l # m
          BY <3>1, <4>1 DEF Lags, Knows
        <4>2. ~Fault("readdress")
          BY <2>2 DEF Slips
        <4>. machine \in [Machines -> MachineObjects]
          BY DEF TypeOK
        <4>3. ASSUME NEW l \in Machines, machine' = [machine EXCEPT ![l].deleting = TRUE]
              PROVE  machine'[m].address = machine[m].address
          BY <4>3 DEF MachineObjects
        <4>4. ASSUME NEW l \in Machines, NEW a \in Addresses, infra[l] = "live",
                     machine' = [machine EXCEPT ![l].address = a],
                     machine[l].address = NoAddress
              PROVE  machine'[m].address = machine[m].address
          BY <3>1, <4>1, <4>4
        <4>. QED BY <4>2, <4>3, <4>4, MachineStep
      <3>3. infra'[m] # "gone"
        <4>1. ~(Release /\ UNCHANGED pass)
          BY IdleType, ReleaseStep DEF Active
        <4>. QED BY <2>5, <3>1, <4>1, InfraStep DEF TypeOK
      <3>. QED BY <2>5, <3>1, <3>2, <3>3
    <2>6. pass' # Idle
      BY <1>2, IdleType DEF Active
    <2>. QED BY <2>3, <2>4, <2>5, <2>6, PassStep
  <1>. QED BY <1>0, <1>1, <1>2 DEF Knows

\* A pass's copy of the list is complete but for what it means to take away: it
\* was taken from the pool, and whoever changes that before the pass is done
\* races it.
LEMMA StepComplete ==
    ASSUME TypeOK, Counts, Complete, [Next]_vars
    PROVE  Complete'
  <1>. SUFFICES ASSUME Exposed', faults'.races = 0
                PROVE  pool' \ (IF pass'.leaving THEN Own' ELSE {}) \subseteq pass'.origins
    BY DEF Complete
  <1>1. faults.races = 0
    BY CountersGrow, ConstantsAssumption DEF TypeOK
  <1>2. CASE UNCHANGED <<pool, pass>>
    BY <1>1, <1>2 DEF Complete, Exposed, Own
  <1>3. ASSUME NEW x \in Aliens \cup Machines \cup pool, AdminEdit(x)
        PROVE  FALSE
    <2>1. Exposed
      BY <1>3 DEF AdminEdit, Exposed
    <2>2. faults'.races = faults.races + 1
      BY <1>3, <2>1, RaceStep DEF AdminEdit
    <2>. QED BY <1>1, <2>2
  <1>4. CASE PoolGet
    BY <1>4, PoolGetStep, IdleType DEF Exposed
  <1>5. CASE hasLoadBalancerEndpointCapacity
    <2>1. /\ Exposed /\ pool' = pool /\ pass.origins \subseteq pass'.origins /\ Same
      BY <1>5, CheckStep, IdleType DEF Exposed
    <2>. QED BY <1>1, <2>1 DEF Complete, Same, Own
  <1>6. CASE Replace
    <2>1. /\ Exposed /\ pass.leaving /\ pool' = pool /\ Same
          /\ pass.origins \ Own \subseteq pass'.origins
      BY <1>6, ReplaceStep, PassFields DEF Exposed
    <2>. QED BY <1>1, <2>1 DEF Complete, Same, Own
  <1>7. ASSUME PoolEdit \/ Release \/ Crash \/ \E m \in Machines : Begin(m)
        PROVE  FALSE
    <2>1. pass'.step \in {"idle", "rest", "get"}
      BY <1>7, PoolEditStep, ReleaseStep, BeginStep, IdleType DEF Crash
    <2>. QED BY <2>1 DEF Exposed
  <1>. QED
    BY <1>2, <1>3, <1>4, <1>5, <1>6, <1>7 DEF Next, Works, vars, Assign, Readdress,
       DeleteMachine, DeleteInfra, SyncMachine, SyncInfra, OtherPools

\* A pass that rewrites the list drops only what its machine owns, or what was
\* added in a race.
LEMMA StepKeeps ==
    ASSUME TypeOK, Counts, Lags, Unique, Knows, Complete, [Next]_vars,
           pass' # pass, NEW x \in pool \ pool'
    PROVE  /\ x \in Aliens => faults'.races > 0
           /\ (\E m \in Machines : infra[m] = "live" /\ x \in OwnAddresses(m, machine[m]))
                 => faults'.races + faults'.slips > 0
  <1>. /\ faults.races \in Nat /\ faults.slips \in Nat
       /\ faults'.races \in Nat /\ faults'.slips \in Nat
    BY StepType, ConstantsAssumption DEF TypeOK
  <1>1. PoolEdit
    BY PoolGetStep, CheckStep, ReplaceStep, ReleaseStep DEF Next, Works, vars, Assign,
       Readdress, DeleteMachine, DeleteInfra, SyncMachine, SyncInfra, Begin, AdminEdit,
       OtherPools, Crash
  <1>2. Exposed /\ x \notin pass.origins /\ pass.machine \in Machines
    BY <1>1, PoolEditStep, PassFields DEF Exposed
  <1>3. faults'.races = faults.races /\ faults'.slips = faults.slips
    BY <1>1, PoolEditStep, CleanStep
  <1>4. SUFFICES ASSUME faults.races = 0
                 PROVE  /\ x \notin Aliens
                        /\ (\E m \in Machines : infra[m] = "live"
                                                /\ x \in OwnAddresses(m, machine[m]))
                              => faults.slips > 0
    BY <1>3
  <1>5. pass.leaving /\ x \in {pass.machine, pass.object.address} /\ x # NoAddress
    BY <1>2, <1>4 DEF Complete, Own, OwnAddresses
  <1>6. pass.object.address \in Addresses \cup {NoAddress}
    BY PassFields DEF MachineObjects
  <1>7. x \notin Aliens
    BY <1>2, <1>5, <1>6, ConstantsAssumption
  <1>8. ASSUME NEW m \in Machines, infra[m] = "live", x \in OwnAddresses(m, machine[m]),
               faults.slips = 0
        PROVE  FALSE
    <2>1. infra[pass.machine] # "live" /\ m # pass.machine
      BY <1>2, <1>5, <1>8 DEF Lags, Active, Exposed
    <2>2. machine[m].address \in Addresses \cup {NoAddress}
      BY DEF TypeOK, MachineObjects
    <2>3. CASE x = pass.machine
      BY <1>2, <1>8, <2>1, <2>2, <2>3, ConstantsAssumption DEF OwnAddresses
    <2>4. CASE x = pass.object.address
      <3>1. x \in Addresses /\ x = machine[m].address
        BY <1>5, <1>6, <1>8, <2>4, ConstantsAssumption DEF OwnAddresses
      <3>2. x = machine[pass.machine].address /\ infra[pass.machine] # "gone"
        BY <1>2, <1>8, <2>4 DEF Knows, Active, Exposed
      <3>. QED BY <1>2, <1>8, <2>1, <3>1, <3>2 DEF Unique
    <2>. QED BY <1>5, <2>3, <2>4
  <1>. QED BY <1>7, <1>8

-----------------------------------------------------------------------------
(***************************************************************************)
(* The limit of the subscriptions.                                         *)
(***************************************************************************)

\* The sizes of the pool and of a pass's copy are numbers.
LEMMA Sizes ==
    ASSUME TypeOK, Counts, Fits
    PROVE  /\ Cardinality(pool) \in Nat /\ Cardinality(pass.origins) \in Nat
           /\ others \in Nat /\ MaxOrigins \in Nat /\ faults.races \in Nat
           /\ Total = Cardinality(pool) + others
  BY FS_CardinalityType, ConstantsAssumption DEF TypeOK, Fits, Total

\* One more origin adds one to the size at most.
LEMMA AddBound ==
    ASSUME NEW S, IsFiniteSet(S), NEW x
    PROVE  /\ IsFiniteSet(S \cup {x})
           /\ Cardinality(S) \in Nat /\ Cardinality(S \cup {x}) \in Nat
           /\ Cardinality(S \cup {x}) <= Cardinality(S) + 1
  <1>1. IsFiniteSet(S \cup {x})
    BY FS_AddElement
  <1>2. Cardinality(S) \in Nat /\ Cardinality(S \cup {x}) \in Nat
    BY <1>1, FS_CardinalityType
  <1>3. Cardinality(S \cup {x}) \in {Cardinality(S), Cardinality(S) + 1}
    BY FS_AddElement
  <1>. QED BY <1>1, <1>2, <1>3

\* A pass that ends, begins or only reads its machine has no copy of the list.
LEMMA NoCopyFits ==
    ASSUME TypeOK, Counts, Fits, [Next]_vars, UNCHANGED others,
           pass'.step \notin {"check", "list", "edit"}, pass'.origins = {},
           IsFiniteSet(pool'), Cardinality(pool') + others <= MaxOrigins + faults.races
    PROVE  Fits'
  <1>1. faults'.races >= faults.races /\ faults'.races \in Nat
    BY CountersGrow, StepType, ConstantsAssumption DEF TypeOK
  <1>2. Cardinality(pool') \in Nat
    BY FS_CardinalityType
  <1>3. Total' <= MaxOrigins + faults'.races
    BY <1>1, <1>2, Sizes DEF Total
  <1>. QED BY <1>3, FS_EmptySet DEF Fits

\* An origin someone adds or removes changes the pool's size by one, and under a
\* pass it is a race.
LEMMA AdminFits ==
    ASSUME TypeOK, Counts, Fits, NEW x, AdminEdit(x)
    PROVE  Fits'
  <1>1. /\ IsFiniteSet(pool') /\ Cardinality(pool') \in Nat
        /\ Cardinality(pool') \in {Cardinality(pool) - 1, Cardinality(pool) + 1}
        /\ Cardinality(pool') > Cardinality(pool) =>
              Cardinality(pool') + others <= MaxOrigins
    <2>1. CASE x \in pool
      <3>1. pool' = pool \ {x}
        BY <2>1 DEF AdminEdit
      <3>2. IsFiniteSet(pool') /\ Cardinality(pool') = Cardinality(pool) - 1
        BY <2>1, <3>1, FS_RemoveElement DEF Fits
      <3>. QED BY <3>2, FS_CardinalityType, Sizes
    <2>2. CASE x \notin pool
      <3>1. pool' = pool \cup {x} /\ Cardinality(pool') + others <= MaxOrigins
        BY <2>2 DEF AdminEdit
      <3>2. IsFiniteSet(pool') /\ Cardinality(pool') = Cardinality(pool) + 1
        BY <2>2, <3>1, FS_AddElement DEF Fits
      <3>. QED BY <3>1, <3>2, FS_CardinalityType, Sizes
    <2>. QED BY <2>1, <2>2
  <1>2. UNCHANGED <<others, pass, machine, cache>>
    BY DEF AdminEdit
  <1>3. faults'.races = faults.races + IF Exposed THEN 1 ELSE 0
    BY RaceStep DEF AdminEdit
  <1>4. Total' <= MaxOrigins + faults'.races
    BY <1>1, <1>2, <1>3, Sizes DEF Fits, Total
  <1>5. ASSUME Exposed
        PROVE  /\ faults'.races = faults.races + 1
               /\ Cardinality(pool) <= Cardinality(pool') + 1
    BY <1>1, <1>3, <1>5, Sizes
  <1>6. CASE Exposed
    BY <1>1, <1>2, <1>4, <1>5, <1>6, Sizes DEF Fits, Own
  <1>7. CASE ~Exposed
    BY <1>1, <1>2, <1>4, <1>7 DEF Fits, Exposed
  <1>. QED BY <1>6, <1>7

\* The account's other pools grow within the limit.
LEMMA OthersFit ==
    ASSUME TypeOK, Counts, Fits, NEW n \in 0..MaxOrigins, OtherPools(n)
    PROVE  Fits'
  <1>1. /\ others' = n /\ n \in Nat
        /\ Cardinality(pool) + n <= MaxOrigins \/ n < others
        /\ UNCHANGED <<pool, pass, machine, cache>>
    BY DEF OtherPools
  <1>2. faults'.races = faults.races + IF Exposed THEN 1 ELSE 0
    BY RaceStep DEF OtherPools
  <1>3. Total' <= MaxOrigins + faults'.races
    BY <1>1, <1>2, Sizes DEF Fits, Total
  <1>4. CASE Exposed
    <2>1. faults'.races = faults.races + 1
      BY <1>2, <1>4, Sizes
    <2>2. pass.step = "list" =>
             Cardinality(pass.origins) + n <= MaxOrigins + faults.races + 1
      BY <1>1, Sizes DEF Fits
    <2>3. pass.step = "edit" =>
             Cardinality(pass.origins) + n <= MaxOrigins + faults.races + 1
      BY <1>1, Sizes DEF Fits
    <2>. QED BY <1>1, <1>3, <2>1, <2>2, <2>3, Sizes DEF Fits, Own
  <1>5. CASE ~Exposed
    BY <1>1, <1>3, <1>5 DEF Fits, Exposed
  <1>. QED BY <1>4, <1>5

\* What a pass is about to write stays within the limit, whatever it adds: one
\* address for which there was room, or one in place of one it takes away.
LEMMA StepFits ==
    ASSUME TypeOK, Counts, Fits, [Next]_vars
    PROVE  Fits'
  <1>. DEFINE p == Cardinality(pool)
              o == Cardinality(pass.origins)
  <1>1. CASE UNCHANGED <<pool, others, pass>>
    <2>1. faults'.races >= faults.races /\ faults'.races \in Nat
      BY CountersGrow, StepType, ConstantsAssumption DEF TypeOK
    <2>2. Total' <= MaxOrigins + faults'.races
      BY <1>1, <2>1, Sizes DEF Fits, Total
    <2>. QED BY <1>1, <2>1, <2>2, Sizes DEF Fits, Own
  <1>2. ASSUME NEW x, AdminEdit(x) PROVE Fits'
    BY <1>2, AdminFits
  <1>3. ASSUME NEW n \in 0..MaxOrigins, OtherPools(n) PROVE Fits'
    BY <1>3, OthersFit
  <1>4. ASSUME UNCHANGED <<pool, others>>, pass'.origins = {},
               pass'.step \notin {"check", "list", "edit"}
        PROVE  Fits'
    BY <1>4, NoCopyFits, Sizes DEF Fits
  <1>5. CASE PoolGet
    <2>1. CASE /\ Same /\ pass'.origins = pool
               /\ pass'.step = IF pass.leaving THEN "list" ELSE "check"
               /\ pass.leaving => Own \cap pool # {}
      <3>1. UNCHANGED <<pool, others>> /\ faults'.races = faults.races
        BY <1>5, PoolGetStep, CleanStep
      <3>2. Own' = Own
        BY <2>1 DEF Own, Same
      <3>3. Total' <= MaxOrigins + faults'.races
        BY <3>1 DEF Fits, Total
      <3>. QED BY <2>1, <3>1, <3>2, <3>3, Sizes DEF Fits
    <2>2. CASE pass'.origins = {} /\ pass'.step \in {"rest", "idle"}
      BY <1>4, <1>5, <2>2, PoolGetStep
    <2>. QED BY <1>5, <2>1, <2>2, PoolGetStep, IdleType
  <1>6. CASE hasLoadBalancerEndpointCapacity
    <2>1. CASE /\ Same /\ pass'.step = "edit" /\ Total < MaxOrigins
               /\ pass'.origins = pass.origins \cup {pass.object.address}
      <3>1. /\ UNCHANGED <<pool, others>> /\ faults'.races = faults.races
            /\ pass.step = "check"
        BY <1>6, CheckStep, CleanStep
      <3>2. IsFiniteSet(pass'.origins) /\ Cardinality(pass'.origins) <= o + 1
        <4>. DEFINE wider == pass.origins \cup {pass.object.address}
        <4>1. IsFiniteSet(pass.origins)
          BY DEF Fits
        <4>2. IsFiniteSet(wider) /\ Cardinality(wider) <= o + 1
          BY <4>1, AddBound
        <4>3. pass'.origins = wider
          BY <2>1
        <4>. HIDE DEF wider
        <4>. QED BY <4>2, <4>3
      <3>3. Cardinality(pass'.origins) \in Nat
        BY <3>2, FS_CardinalityType
      <3>4. o <= p + faults.races
        BY <3>1 DEF Fits
      <3>5. Cardinality(pass'.origins) + others <= MaxOrigins + faults.races
        BY <2>1, <3>2, <3>3, <3>4, Sizes
      <3>6. Total' <= MaxOrigins + faults'.races
        BY <3>1 DEF Fits, Total
      <3>. QED BY <2>1, <3>1, <3>2, <3>3, <3>4, <3>5, <3>6, Sizes DEF Fits
    <2>. QED BY <1>4, <1>6, <2>1, CheckStep, IdleType
  <1>7. CASE Replace
    <2>. DEFINE rest == pass.origins \ Own
    <2>1. /\ UNCHANGED <<pool, others>> /\ faults'.races = faults.races
          /\ pass.step = "list" /\ pass'.step = "edit"
      BY <1>7, ReplaceStep, CleanStep
    <2>2. PICK y \in Own : y \in pass.origins
      BY <2>1 DEF Fits
    <2>3. IsFiniteSet(rest) /\ Cardinality(rest) \in Nat /\ Cardinality(rest) <= o - 1
      <3>1. IsFiniteSet(pass.origins \ {y}) /\ Cardinality(pass.origins \ {y}) = o - 1
        BY <2>2, FS_RemoveElement DEF Fits
      <3>2. rest \in SUBSET (pass.origins \ {y})
        BY <2>2
      <3>. QED BY <3>1, <3>2, FS_Subset, FS_CardinalityType
    <2>4. IsFiniteSet(pass'.origins) /\ Cardinality(pass'.origins) <= o
      <3>1. CASE pass'.origins = rest
        BY <2>3, <3>1, Sizes
      <3>2. ASSUME NEW z, pass'.origins = rest \cup {z}
            PROVE  IsFiniteSet(pass'.origins) /\ Cardinality(pass'.origins) <= o
        <4>1. /\ IsFiniteSet(rest \cup {z}) /\ Cardinality(rest \cup {z}) \in Nat
              /\ Cardinality(rest \cup {z}) <= Cardinality(rest) + 1
          BY <2>3, AddBound
        <4>. HIDE DEF rest
        <4>. QED BY <2>3, <3>2, <4>1, Sizes
      <3>. QED BY <1>7, <3>1, <3>2, ReplaceStep
    <2>5. Cardinality(pass'.origins) \in Nat
      BY <2>4, FS_CardinalityType
    <2>6. o <= p + faults.races /\ o + others <= MaxOrigins + faults.races
      BY <2>1 DEF Fits
    <2>7. Total' <= MaxOrigins + faults'.races
      BY <2>1 DEF Fits, Total
    <2>. QED BY <2>1, <2>4, <2>5, <2>6, <2>7, Sizes DEF Fits
  <1>8. CASE PoolEdit
    <2>1. /\ UNCHANGED others /\ pass'.step \in {"rest", "idle"} /\ pass'.origins = {}
          /\ pool' \in {pool, pass.origins} /\ pass.step = "edit"
      BY <1>8, PoolEditStep, IdleType
    <2>2. IsFiniteSet(pool') /\ Cardinality(pool') + others <= MaxOrigins + faults.races
      BY <2>1, Sizes DEF Fits
    <2>. QED BY <2>1, <2>2, NoCopyFits
  <1>9. CASE Release \/ Crash \/ \E m \in Machines : Begin(m)
    <2>1. UNCHANGED <<pool, others>> /\ pass'.origins = {}
          /\ pass'.step \in {"idle", "rest", "get"}
      BY <1>9, ReleaseStep, BeginStep, IdleType DEF Crash
    <2>. QED BY <1>4, <2>1
  <1>. QED
    BY <1>1, <1>2, <1>3, <1>5, <1>6, <1>7, <1>8, <1>9 DEF Next, Works, vars, Assign,
       Readdress, DeleteMachine, DeleteInfra, SyncMachine, SyncInfra

\* The initial states satisfy the invariant.
LEMMA InitInv == Init => PoolInv
  <1>. SUFFICES ASSUME Init PROVE PoolInv
    OBVIOUS
  <1>1. pass.step = "idle" /\ pass.origins = {}
    BY IdleType DEF Init
  <1>2. Lags /\ Unique /\ Knows /\ Complete
    BY <1>1, ConstantsAssumption
    DEF Init, Lags, Unique, Knows, Complete, Active, Exposed, NoObject
  <1>3. Fits
    <2>1. IsFiniteSet(pool)
      BY FS_Subset, ConstantsAssumption DEF Init
    <2>2. Cardinality(pool) \in Nat /\ others \in Nat
      BY <2>1, FS_CardinalityType, ConstantsAssumption DEF Init
    <2>3. Total <= MaxOrigins + faults.races
      BY <2>2, ConstantsAssumption DEF Init, Total
    <2>. QED BY <1>1, <2>1, <2>3, FS_EmptySet DEF Fits
  <1>. QED BY <1>2, <1>3, InitType DEF PoolInv

\* Every step keeps it.
LEMMA StepInv ==
    ASSUME PoolInv, [Next]_vars
    PROVE  PoolInv'
  BY StepType, StepLags, StepUnique, StepKnows, StepComplete, StepFits DEF PoolInv

\* The inductive invariant.
THEOREM Invariance == Spec => []PoolInv
  BY InitInv, StepInv, PTL DEF Spec

\* The account's subscriptions are exceeded only by races between the check of
\* the limit and the write, and by one origin each.
THEOREM OverrunBoundHolds == Spec => []OverrunBound
  <1>1. PoolInv => OverrunBound
    BY DEF PoolInv, Fits, OverrunBound
  <1>. QED BY <1>1, Invariance, PTL

\* Rewriting the whole list drops a foreign origin only after a race, and the
\* origin of a live machine only after a race or a slip.
THEOREM KeepsOthersHolds == Spec => KeepsOthers
  <1>. DEFINE Keeps ==
         pass' # pass =>
            \A x \in pool \ pool' :
               /\ x \in Aliens => faults'.races > 0
               /\ (\E m \in Machines : infra[m] = "live" /\ x \in OwnAddresses(m, machine[m]))
                     => faults'.races + faults'.slips > 0
  <1>1. PoolInv /\ [Next]_vars => [Keeps]_vars
    BY StepKeeps DEF PoolInv
  <1>. QED BY <1>1, Invariance, PTL DEF Spec, KeepsOthers

-----------------------------------------------------------------------------
(***************************************************************************)
(* Stray origins.                                                          *)
(***************************************************************************)

\* What the debt consists of.
LEMMA DebtParts ==
    ASSUME NEW a \in Addresses
    PROVE  /\ a \in Debt <=> a \in Astray \cup Outdated \cup Orphaned \cup Forgotten
           /\ a \in Debt' <=> \/ a \in Astray' \/ a \in Outdated'
                              \/ a \in Orphaned' \/ a \in Forgotten'
  BY DEF Debt

\* Whether an address is free depends on the machines and the infrastructure.
LEMMA FreeParts ==
    ASSUME UNCHANGED <<machine, infra>>, NEW a
    PROVE  Free(a) <=> Free(a)'
  BY DEF Free

\* A changed address leaves behind no other than the machine's former one.
LEMMA AddressDebt ==
    ASSUME PoolInv, NEW m \in Machines, NEW x \in Addresses,
           infra[m] = "live", machine' = [machine EXCEPT ![m].address = x],
           UNCHANGED <<infra, cache, pool, others, pass>>
    PROVE  Debt' \subseteq Debt \cup {machine[m].address}
  <1>. SUFFICES ASSUME NEW a \in Addresses, a \in Debt', a # machine[m].address
                PROVE  a \in Debt
    BY DEF Debt
  <1>. machine \in [Machines -> MachineObjects]
    BY DEF PoolInv, TypeOK
  <1>1. \A n \in Machines : /\ machine'[n].deleting = machine[n].deleting
                            /\ n # m => machine'[n].address = machine[n].address
    BY DEF MachineObjects
  <1>2. CASE a \in Astray'
    <2>1. Prospect' = Prospect
      BY DEF Prospect, Exposed, Active
    <2>2. Free(a)
      BY <1>1, <1>2 DEF Astray, Free
    <2>. QED BY <1>2, <2>1, <2>2, DebtParts DEF Astray
  <1>3. CASE a \in Outdated'
    <2>1. PICK n \in Machines :
             /\ ~cache[n].machine.deleting /\ a = cache[n].machine.address
             /\ cache[n].machine.address # machine'[n].address \/ infra[n] = "gone"
      BY <1>3 DEF Outdated
    <2>2. cache[n].machine.address # machine[n].address \/ infra[n] = "gone"
      BY <1>1, <2>1
    <2>. QED BY <2>1, <2>2, DebtParts DEF Outdated
  <1>4. CASE a \in Orphaned'
    <2>1. PICK n \in Machines : /\ infra[n] # "live" /\ ~machine'[n].deleting
                                /\ a = machine'[n].address
      BY <1>4 DEF Orphaned
    <2>2. ~machine[n].deleting /\ a = machine[n].address
      BY <1>1, <2>1
    <2>. QED BY <2>1, <2>2, DebtParts DEF Orphaned
  <1>5. CASE a \in Forgotten'
    <2>1. pass.machine \in Machines /\ Active /\ pass.leaving
      BY <1>5, PassFields DEF Forgotten, Active, PoolInv
    <2>2. pass.machine # m
      BY <2>1 DEF PoolInv, Lags
    <2>3. machine'[pass.machine].address = machine[pass.machine].address
      BY <1>1, <2>1, <2>2
    <2>. QED BY <1>5, <2>3, DebtParts DEF Forgotten, Active
  <1>. QED BY <1>2, <1>3, <1>4, <1>5, DebtParts

\* A Machine being deleted adds nothing.
LEMMA DeletingDebt ==
    ASSUME PoolInv, NEW m \in Machines,
           machine' = [machine EXCEPT ![m].deleting = TRUE],
           UNCHANGED <<infra, cache, pool, others, pass>>
    PROVE  Debt' \subseteq Debt
  <1>. SUFFICES ASSUME NEW a \in Addresses, a \in Debt' PROVE a \in Debt
    BY DEF Debt
  <1>. machine \in [Machines -> MachineObjects]
    BY DEF PoolInv, TypeOK
  <1>1. \A n \in Machines : /\ machine'[n].address = machine[n].address
                            /\ ~machine'[n].deleting => ~machine[n].deleting
    BY DEF MachineObjects
  <1>2. CASE a \in Astray'
    BY <1>1, <1>2, DebtParts DEF Astray, Prospect, Exposed, Active, Free
  <1>3. CASE a \in Outdated'
    BY <1>1, <1>3, DebtParts DEF Outdated
  <1>4. CASE a \in Orphaned'
    BY <1>1, <1>4, DebtParts DEF Orphaned
  <1>5. CASE a \in Forgotten'
    <2>1. pass.machine \in Machines
      BY <1>5, PassFields DEF Forgotten, Active, PoolInv
    <2>. QED BY <1>1, <1>5, <2>1, DebtParts DEF Forgotten, Active
  <1>. QED BY <1>2, <1>3, <1>4, <1>5, DebtParts

\* Infrastructure that is deleted adds its machine's address, unless the Machine
\* is being deleted.
LEMMA InfraDebt ==
    ASSUME PoolInv, NEW m \in Machines,
           infra[m] = "live", infra' = [infra EXCEPT ![m] = "deleting"],
           UNCHANGED <<machine, cache, pool, others, pass>>
    PROVE  Debt' \subseteq Debt \cup (IF machine[m].deleting THEN {} ELSE {machine[m].address})
  <1>. SUFFICES ASSUME NEW a \in Addresses, a \in Debt',
                       machine[m].deleting \/ a # machine[m].address
                PROVE  a \in Debt
    BY DEF Debt
  <1>1. \A n \in Machines : /\ infra'[n] = "gone" <=> infra[n] = "gone"
                            /\ n # m => infra'[n] = infra[n]
    BY DEF PoolInv, TypeOK
  <1>2. CASE a \in Astray'
    BY <1>1, <1>2, DebtParts DEF Astray, Prospect, Exposed, Active, Free
  <1>3. CASE a \in Outdated'
    BY <1>1, <1>3, DebtParts DEF Outdated
  <1>4. CASE a \in Orphaned'
    <2>1. PICK n \in Machines : /\ infra'[n] # "live" /\ ~machine[n].deleting
                                /\ a = machine[n].address
      BY <1>4 DEF Orphaned
    <2>2. n # m
      BY <2>1
    <2>. QED BY <1>1, <2>1, <2>2, DebtParts DEF Orphaned
  <1>5. CASE a \in Forgotten'
    <2>1. pass.machine \in Machines
      BY <1>5, PassFields DEF Forgotten, Active, PoolInv
    <2>. QED BY <1>1, <1>5, <2>1, DebtParts DEF Forgotten, Active
  <1>. QED BY <1>2, <1>3, <1>4, <1>5, DebtParts

\* A copy that catches up adds nothing: what it newly says of a machine that is
\* gone was a debt of the machine's own.
LEMMA CopyDebt ==
    ASSUME PoolInv, UNCHANGED <<machine, infra>>,
           \A n \in Machines : cache'[n].machine \in {cache[n].machine, machine[n]},
           NEW a \in Addresses, a \in Outdated' \cup Orphaned'
    PROVE  a \in Debt
  <1>1. CASE a \in Orphaned'
    BY <1>1, DebtParts DEF Orphaned
  <1>2. CASE a \in Outdated'
    <2>1. PICK n \in Machines :
             /\ ~cache'[n].machine.deleting /\ a = cache'[n].machine.address
             /\ cache'[n].machine.address # machine[n].address \/ infra[n] = "gone"
      BY <1>2 DEF Outdated
    <2>2. CASE cache'[n].machine = cache[n].machine
      BY <2>1, <2>2, DebtParts DEF Outdated
    <2>3. CASE cache'[n].machine = machine[n]
      <3>1. infra[n] # "live" /\ ~machine[n].deleting /\ a = machine[n].address
        BY <2>1, <2>3
      <3>. QED BY <3>1, DebtParts DEF Orphaned
    <2>. QED BY <2>2, <2>3
  <1>. QED BY <1>1, <1>2

\* A pass that ends adds nothing, nor does what others do to the pool: they add
\* no address a machine may have.
LEMMA EndDebt ==
    ASSUME PoolInv, UNCHANGED <<machine, infra>>,
           \A n \in Machines : cache'[n].machine \in {cache[n].machine, machine[n]},
           pool' \cap Addresses \subseteq Prospect,
           pass' = Idle
    PROVE  Debt' \subseteq Debt
  <1>. SUFFICES ASSUME NEW a \in Addresses, a \in Debt' PROVE a \in Debt
    BY DEF Debt
  <1>1. ~Active' /\ ~Exposed'
    BY IdleType DEF Active, Exposed
  <1>2. CASE a \in Astray'
    <2>1. a \in pool' /\ Free(a)
      BY <1>1, <1>2, FreeParts DEF Astray, Prospect
    <2>. QED BY <2>1, DebtParts DEF Astray
  <1>3. CASE a \in Outdated' \cup Orphaned'
    BY <1>3, CopyDebt
  <1>4. a \notin Forgotten'
    BY <1>1 DEF Forgotten
  <1>. QED BY <1>2, <1>3, <1>4, DebtParts

\* What others do to the pool adds nothing.
LEMMA AdminDebt ==
    ASSUME PoolInv, NEW x \in Aliens \cup Machines \cup pool, AdminEdit(x)
    PROVE  Debt' \subseteq Debt
  <1>. SUFFICES ASSUME NEW a \in Addresses, a \in Debt' PROVE a \in Debt
    BY DEF Debt
  <1>1. UNCHANGED <<machine, infra, cache, pass>>
    BY DEF AdminEdit
  <1>2. a \in pool' => a \in pool
    BY ConstantsAssumption DEF AdminEdit
  <1>3. CASE a \in Astray'
    <2>1. a \in Prospect
      BY <1>1, <1>2, <1>3 DEF Astray, Prospect, Exposed, Active
    <2>. QED BY <1>1, <1>3, <2>1, FreeParts, DebtParts DEF Astray
  <1>4. CASE a \in Outdated' \cup Orphaned'
    BY <1>1, <1>4, CopyDebt
  <1>5. CASE a \in Forgotten'
    BY <1>1, <1>2, <1>5, DebtParts DEF Forgotten, Active
  <1>. QED BY <1>3, <1>4, <1>5, DebtParts

\* A pass that begins by an outdated copy adds one address: the one it will set
\* free, or the one it will write.
LEMMA BeginDebt ==
    ASSUME PoolInv, NEW m \in Machines, Begin(m)
    PROVE  /\ \E x : Debt' \subseteq Debt \cup {x}
           /\ UNCHANGED faults => Debt' \subseteq Debt
  <1>. DEFINE x == IF pass'.leaving THEN machine[m].address ELSE cache[m].machine.address
  <1>1. /\ UNCHANGED <<machine, infra, cache, pool>> /\ pass.step = "idle"
        /\ pass'.machine = m /\ pass'.object = cache[m].machine /\ pass'.origins = {}
        /\ pass'.step \in {"get", "rest"}
        /\ pass'.step = "rest" => pass'.object.address = NoAddress
        /\ cache[m].infra # "gone"
        /\ pass'.leaving <=> cache[m].infra = "deleting"
    BY BeginStep DEF PoolInv
  <1>2. ASSUME NEW a \in Addresses, a \in Debt', a # x
        PROVE  a \in Debt
    <2>1. CASE a \in Astray'
      <3>1. a \in pool /\ Free(a)
        BY <1>1, <1>2, <2>1, FreeParts DEF Astray, Prospect, Exposed
      <3>. QED BY <3>1, DebtParts DEF Astray, Prospect
    <2>2. CASE a \in Outdated' \cup Orphaned'
      BY <1>1, <2>2, CopyDebt
    <2>3. a \notin Forgotten'
      BY <1>1, <1>2 DEF Forgotten
    <2>. QED BY <1>2, <2>1, <2>2, <2>3, DebtParts
  <1>3. Debt' \subseteq Debt \cup {x}
    BY <1>2 DEF Debt
  <1>4. ASSUME UNCHANGED faults, x \in Debt', x \in Addresses
        PROVE  x \in Debt
    <2>1. cache[m].machine = machine[m] /\ cache[m].infra = infra[m]
      <3>1. CASE cache[m] = [machine |-> machine[m], infra |-> infra[m]]
        BY <3>1
      <3>2. CASE Fault("stale")
        <4>1. faults'.slips = faults.slips + 1
          BY <3>2, FaultStep DEF PoolInv, Slips
        <4>. QED BY <1>4, <4>1, ConstantsAssumption DEF PoolInv, TypeOK
      <3>. QED BY <3>1, <3>2, BeginStep DEF PoolInv
    <2>2. CASE x \in Astray'
      <3>1. Free(x)
        BY <1>1, <2>2, FreeParts DEF Astray
      <3>2. infra[m] # "gone" /\ x = machine[m].address
        BY <1>1, <2>1
      <3>. QED BY <3>1, <3>2 DEF Free
    <2>3. CASE x \in Outdated' \cup Orphaned'
      BY <1>1, <1>4, <2>3, CopyDebt
    <2>4. CASE x \in Forgotten'
      <3>1. /\ pass'.leaving /\ x = machine[m].address
            /\ \/ pass'.object.address # machine[m].address
               \/ ~pass'.object.deleting
               \/ pass'.step = "rest"
        BY <1>1, <2>4 DEF Forgotten
      <3>2. ~machine[m].deleting
        BY <1>1, <1>4, <2>1, <3>1, ConstantsAssumption
      <3>3. infra[m] # "live"
        BY <1>1, <2>1, <3>1
      <3>. QED BY <1>4, <3>1, <3>2, <3>3, DebtParts DEF Orphaned
    <2>. QED BY <1>4, <2>2, <2>3, <2>4, DebtParts
  <1>5. UNCHANGED faults => Debt' \subseteq Debt
    BY <1>3, <1>4 DEF Debt
  <1>. QED BY <1>3, <1>5

\* A pass that goes on adds nothing as long as it does not come to write more
\* than it had in prospect, and sets nothing free it did not already forget.
LEMMA GoesDebt ==
    ASSUME PoolInv, Active, Same, UNCHANGED <<machine, infra, cache>>,
           \A a \in Addresses : a \in Prospect' /\ Free(a) => a \in Debt,
           \A a \in Addresses :
              /\ pass.leaving /\ infra[pass.machine] # "gone"
              /\ a = machine[pass.machine].address /\ a = pass.object.address
              /\ \/ pass'.step = "edit" /\ a \in pass'.origins
                 \/ pass'.step = "rest" /\ a \in pool'
              => a \in Debt
    PROVE  Debt' \subseteq Debt
  <1>. SUFFICES ASSUME NEW a \in Addresses, a \in Debt' PROVE a \in Debt
    BY DEF Debt
  <1>1. CASE a \in Astray'
    BY <1>1, FreeParts DEF Astray
  <1>2. CASE a \in Outdated' \cup Orphaned'
    BY <1>2, CopyDebt
  <1>3. CASE a \in Forgotten'
    <2>1. /\ pass.leaving /\ infra[pass.machine] # "gone"
          /\ a = machine[pass.machine].address
          /\ \/ pass.object.address # machine[pass.machine].address
             \/ ~pass.object.deleting
             \/ pass'.step = "edit" /\ a \in pass'.origins
             \/ pass'.step = "rest" /\ a \in pool'
      BY <1>3 DEF Forgotten, Same
    <2>2. CASE \/ pass.object.address # machine[pass.machine].address
               \/ ~pass.object.deleting
      BY <2>1, <2>2, DebtParts DEF Forgotten
    <2>. QED BY <2>1, <2>2
  <1>. QED BY <1>1, <1>2, <1>3, DebtParts

\* What is in prospect and free is a debt.
LEMMA ProspectDebt ==
    ASSUME NEW a \in Addresses, a \in Prospect, Free(a)
    PROVE  a \in Debt
  BY DebtParts DEF Astray

\* Reading the pool adds nothing: a pass that is done with it found none of the
\* machine's addresses there.
LEMMA PoolGetDebt ==
    ASSUME PoolInv, PoolGet
    PROVE  Debt' \subseteq Debt
  <1>1. /\ UNCHANGED <<machine, infra, cache, pool>> /\ pass.step = "get" /\ Active
        /\ pass.machine \in Machines
    BY PoolGetStep, PassFields DEF PoolInv, Active
  <1>2. CASE pass' = Idle
    BY <1>1, <1>2, EndDebt DEF Prospect
  <1>3. CASE /\ Same
             /\ \/ pass'.origins = pool /\ pass'.step \in {"list", "check"}
                \/ pass'.origins = {} /\ pass'.step = "rest" /\ Own \cap pool = {}
    <2>1. Prospect' \subseteq Prospect
      BY <1>1, <1>3 DEF Prospect, Same, Active
    <2>2. ASSUME NEW a \in Addresses, a = pass.object.address, pass'.step = "rest"
          PROVE  a \notin pool'
      BY <1>1, <1>3, <2>2, ConstantsAssumption DEF Own, OwnAddresses
    <2>. QED BY <1>1, <1>3, <2>1, <2>2, GoesDebt, ProspectDebt
  <1>. QED BY <1>2, <1>3, PoolGetStep DEF PoolInv

\* The check of the limit adds nothing: the machine's address was in prospect.
LEMMA CheckDebt ==
    ASSUME PoolInv, hasLoadBalancerEndpointCapacity
    PROVE  Debt' \subseteq Debt
  <1>1. /\ UNCHANGED <<machine, infra, cache, pool>> /\ Active /\ Exposed
        /\ ~pass.leaving
    BY CheckStep DEF PoolInv, Active, Exposed, Knows
  <1>2. CASE pass' = Idle
    BY <1>1, <1>2, EndDebt DEF Prospect
  <1>3. CASE /\ Same /\ pass'.step = "edit"
             /\ pass'.origins = pass.origins \cup {pass.object.address}
    <2>1. Prospect' \subseteq Prospect
      BY <1>1, <1>3 DEF Prospect, Same
    <2>. QED BY <1>1, <1>3, <2>1, GoesDebt, ProspectDebt
  <1>. QED BY <1>2, <1>3, CheckStep DEF PoolInv

\* A substitute adds nothing: an address that is free, or the leaving machine's
\* own, can only be the outdated one of another machine.
LEMMA ReplaceDebt ==
    ASSUME PoolInv, Replace
    PROVE  Debt' \subseteq Debt
  <1>1. /\ UNCHANGED <<machine, infra, cache, pool>> /\ Active /\ Exposed
        /\ pass.leaving /\ pass.machine \in Machines
        /\ Same /\ pass'.step = "edit"
    BY ReplaceStep, PassFields DEF PoolInv, Active, Exposed
  <1>2. ASSUME NEW a \in Addresses, a \in pass'.origins, a \notin pass.origins \ Own
        PROVE  \E n \in Machines \ {pass.machine} :
                  ~cache[n].machine.deleting /\ a = cache[n].machine.address
    BY <1>2, ReplaceStep DEF PoolInv
  <1>3. ASSUME NEW a \in Addresses, a \in Prospect', Free(a)
        PROVE  a \in Debt
    <2>1. CASE a \in Prospect
      BY <1>3, <2>1, ProspectDebt
    <2>2. CASE a \notin Prospect
      <3>1. a \in pass'.origins /\ a \notin pass.origins
        BY <1>1, <1>3, <2>2 DEF Prospect, Same
      <3>2. PICK n \in Machines : ~cache[n].machine.deleting /\ a = cache[n].machine.address
        BY <1>2, <3>1
      <3>3. infra[n] = "gone" \/ machine[n].address # a
        BY <1>3 DEF Free
      <3>. QED BY <3>2, <3>3, DebtParts DEF Outdated
    <2>. QED BY <2>1, <2>2
  <1>4. ASSUME NEW a \in Addresses, infra[pass.machine] # "gone",
               a = machine[pass.machine].address, a = pass.object.address,
               a \in pass'.origins
        PROVE  a \in Debt
    <2>1. a \in Own
      BY <1>4, ConstantsAssumption DEF Own, OwnAddresses
    <2>2. PICK n \in Machines \ {pass.machine} :
             ~cache[n].machine.deleting /\ a = cache[n].machine.address
      BY <1>2, <1>4, <2>1
    <2>3. infra[n] = "gone" \/ machine[n].address # a
      BY <1>1, <1>4, <2>2 DEF PoolInv, Unique
    <2>. QED BY <2>2, <2>3, DebtParts DEF Outdated
  <1>. QED BY <1>1, <1>3, <1>4, GoesDebt

\* The write adds nothing to what was in prospect.
LEMMA PoolEditDebt ==
    ASSUME PoolInv, PoolEdit
    PROVE  Debt' \subseteq Debt
  <1>1. /\ UNCHANGED <<machine, infra, cache>> /\ Active /\ Exposed /\ pass.step = "edit"
        /\ pool' \subseteq Prospect
    BY PoolEditStep DEF PoolInv, Active, Exposed, Prospect
  <1>2. CASE pass' = Idle
    BY <1>1, <1>2, EndDebt
  <1>3. CASE /\ pool' = pass.origins /\ pass.leaving
             /\ Same /\ pass'.step = "rest" /\ pass'.origins = {}
    <2>1. Prospect' \subseteq Prospect
      BY <1>1, <1>3 DEF Prospect, Same, Exposed
    <2>2. ASSUME NEW a \in Addresses, infra[pass.machine] # "gone",
                 a = machine[pass.machine].address, a \in pool'
          PROVE  a \in Debt
      <3>1. a \in Forgotten
        BY <1>1, <1>3, <2>2 DEF Forgotten
      <3>. QED BY <3>1, DebtParts
    <2>. QED BY <1>1, <1>3, <2>1, <2>2, GoesDebt, ProspectDebt
  <1>. QED BY <1>2, <1>3, PoolEditStep DEF PoolInv

\* The instance that goes sets its address free: if that is in the pool, or in a
\* copy that will be taken for a live machine's, the pass had forgotten it.
LEMMA ReleaseDebt ==
    ASSUME PoolInv, Release
    PROVE  Debt' \subseteq Debt
  <1>. DEFINE m == pass.machine
  <1>1. /\ UNCHANGED <<machine, cache, pool>> /\ Active /\ pass.step = "rest"
        /\ pass.leaving /\ m \in Machines /\ pass' = Idle /\ infra[m] # "live"
    BY ReleaseStep, PassFields DEF PoolInv, Active, Lags
  <1>2. CASE UNCHANGED infra
    BY <1>1, <1>2, EndDebt DEF Prospect
  <1>3. CASE infra' = [infra EXCEPT ![m] = "gone"] /\ infra[m] # "gone"
    <2>. SUFFICES ASSUME NEW a \in Addresses, a \in Debt' PROVE a \in Debt
      BY DEF Debt
    <2>1. /\ infra'[m] = "gone"
          /\ \A n \in Machines : n # m => infra'[n] = infra[n]
      BY <1>1, <1>3 DEF PoolInv, TypeOK
    <2>2. ~Active' /\ ~Exposed'
      BY <1>1, IdleType DEF Active, Exposed
    <2>3. CASE a \in Astray'
      <3>1. a \in pool /\ Free(a)'
        BY <1>1, <2>2, <2>3 DEF Astray, Prospect
      <3>2. CASE Free(a)
        BY <3>1, <3>2, ProspectDebt DEF Prospect
      <3>3. CASE ~Free(a)
        <4>1. a = machine[m].address
          BY <1>1, <2>1, <3>1, <3>3 DEF Free
        <4>2. a \in Forgotten
          BY <1>1, <1>3, <3>1, <4>1 DEF Forgotten
        <4>. QED BY <4>2, DebtParts
      <3>. QED BY <3>2, <3>3
    <2>4. CASE a \in Outdated'
      <3>1. PICK n \in Machines :
               /\ ~cache[n].machine.deleting /\ a = cache[n].machine.address
               /\ cache[n].machine.address # machine[n].address \/ infra'[n] = "gone"
        BY <1>1, <2>4 DEF Outdated
      <3>2. CASE cache[n].machine.address # machine[n].address \/ infra[n] = "gone"
        BY <3>1, <3>2, DebtParts DEF Outdated
      <3>3. CASE n = m /\ a = machine[m].address
        <4>1. ~pass.object.deleting
          BY <1>1, <3>1, <3>3 DEF PoolInv, Lags
        <4>2. a \in Forgotten
          BY <1>1, <1>3, <3>3, <4>1 DEF Forgotten
        <4>. QED BY <4>2, DebtParts
      <3>. QED BY <2>1, <3>1, <3>2, <3>3
    <2>5. CASE a \in Orphaned'
      <3>1. PICK n \in Machines : /\ infra'[n] # "live" /\ ~machine[n].deleting
                                  /\ a = machine[n].address
        BY <1>1, <2>5 DEF Orphaned
      <3>2. infra[n] # "live"
        BY <1>1, <2>1, <3>1
      <3>. QED BY <3>1, <3>2, DebtParts DEF Orphaned
    <2>6. a \notin Forgotten'
      BY <2>2 DEF Forgotten
    <2>. QED BY <2>3, <2>4, <2>5, <2>6, DebtParts
  <1>4. CASE infra' = [infra EXCEPT ![m] = "gone"] /\ infra[m] = "gone"
    <2>1. UNCHANGED infra
      BY <1>4 DEF PoolInv, TypeOK
    <2>. QED BY <1>2, <2>1
  <1>. QED BY <1>2, <1>3, <1>4, ReleaseStep DEF PoolInv

\* Every step adds one address to the debt at most, and none without a slip.
LEMMA StepDebt ==
    ASSUME PoolInv, [Next]_vars
    PROVE  \/ Debt' \subseteq Debt
           \/ /\ faults'.slips = faults.slips + 1
              /\ \E x : Debt' \subseteq Debt \cup {x}
  <1>1. ASSUME NEW m \in Machines, NEW a \in Addresses, Assign(m, a)
        PROVE  Debt' \subseteq Debt
    <2>1. Debt' \subseteq Debt \cup {machine[m].address}
      BY <1>1, AddressDebt DEF Assign
    <2>2. machine[m].address \notin Addresses
      BY <1>1, ConstantsAssumption DEF Assign
    <2>. QED BY <2>1, <2>2 DEF Debt
  <1>2. ASSUME NEW m \in Machines, NEW a \in Addresses, Readdress(m, a)
        PROVE  /\ faults'.slips = faults.slips + 1
               /\ \E x : Debt' \subseteq Debt \cup {x}
    <2>1. Debt' \subseteq Debt \cup {machine[m].address}
      BY <1>2, AddressDebt DEF Readdress
    <2>2. faults'.slips = faults.slips + 1
      BY <1>2, FaultStep DEF Readdress, PoolInv, Slips
    <2>. QED BY <2>1, <2>2
  <1>3. ASSUME NEW m \in Machines, DeleteMachine(m) PROVE Debt' \subseteq Debt
    BY <1>3, DeletingDebt DEF DeleteMachine
  <1>4. ASSUME NEW m \in Machines, DeleteInfra(m)
        PROVE  \/ Debt' \subseteq Debt
               \/ /\ faults'.slips = faults.slips + 1
                  /\ \E x : Debt' \subseteq Debt \cup {x}
    <2>1. Debt' \subseteq Debt \cup (IF machine[m].deleting THEN {} ELSE {machine[m].address})
      BY <1>4, InfraDebt DEF DeleteInfra
    <2>2. ~machine[m].deleting => faults'.slips = faults.slips + 1
      BY <1>4, FaultStep DEF DeleteInfra, PoolInv, Slips
    <2>. QED BY <2>1, <2>2
  <1>5. ASSUME NEW m \in Machines, SyncMachine(m) \/ SyncInfra(m)
        PROVE  Debt' \subseteq Debt
    <2>1. /\ UNCHANGED <<machine, infra, pool, pass>>
          /\ \A n \in Machines : cache'[n].machine \in {cache[n].machine, machine[n]}
      BY <1>5 DEF SyncMachine, SyncInfra, PoolInv, TypeOK
    <2>. SUFFICES ASSUME NEW a \in Addresses, a \in Debt' PROVE a \in Debt
      BY DEF Debt
    <2>2. CASE a \in Astray'
      BY <2>1, <2>2, FreeParts, ProspectDebt DEF Astray, Prospect, Exposed, Active
    <2>3. CASE a \in Outdated' \cup Orphaned'
      BY <2>1, <2>3, CopyDebt
    <2>4. CASE a \in Forgotten'
      BY <2>1, <2>4, DebtParts DEF Forgotten, Active
    <2>. QED BY <2>2, <2>3, <2>4, DebtParts
  <1>6. ASSUME NEW m \in Machines, Begin(m)
        PROVE  \/ Debt' \subseteq Debt
               \/ /\ faults'.slips = faults.slips + 1
                  /\ \E x : Debt' \subseteq Debt \cup {x}
    <2>1. CASE UNCHANGED faults
      BY <1>6, <2>1, BeginDebt
    <2>2. CASE Fault("stale")
      <3>1. faults'.slips = faults.slips + 1
        BY <2>2, FaultStep DEF PoolInv, Slips
      <3>. QED BY <1>6, <3>1, BeginDebt
    <2>. QED BY <1>6, <2>1, <2>2, BeginStep DEF PoolInv
  <1>7. ASSUME NEW x \in Aliens \cup Machines \cup pool, AdminEdit(x)
        PROVE  Debt' \subseteq Debt
    BY <1>7, AdminDebt
  <1>8. CASE Crash
    <2>1. \A n \in Machines : cache'[n].machine \in {cache[n].machine, machine[n]}
      BY <1>8 DEF Crash
    <2>. QED BY <1>8, <2>1, EndDebt DEF Crash, Prospect
  <1>9. CASE Works
    BY <1>9, PoolGetDebt, CheckDebt, ReplaceDebt, PoolEditDebt, ReleaseDebt DEF Works
  <1>10. CASE UNCHANGED <<machine, infra, cache, pool, pass>>
    BY <1>10 DEF Debt, Astray, Prospect, Exposed, Active, Free, Outdated, Orphaned, Forgotten
  <1>. QED
    BY <1>1, <1>2, <1>3, <1>4, <1>5, <1>6, <1>7, <1>8, <1>9, <1>10
    DEF Next, vars, OtherPools

\* Each slip pays for what it adds.
LEMMA StepCharged ==
    ASSUME DebtInv, [Next]_vars
    PROVE  Charged'
  <1>. /\ IsFiniteSet(Debt) /\ Cardinality(Debt) \in Nat
       /\ faults.slips \in Nat /\ faults'.slips \in Nat
       /\ Cardinality(Debt) <= faults.slips /\ faults'.slips >= faults.slips
    BY FS_CardinalityType, StepType, CountersGrow, ConstantsAssumption
    DEF DebtInv, PoolInv, Charged, TypeOK
  <1>1. CASE Debt' \subseteq Debt
    <2>1. IsFiniteSet(Debt') /\ Cardinality(Debt') <= Cardinality(Debt)
      BY <1>1, FS_Subset
    <2>2. Cardinality(Debt') \in Nat
      BY <2>1, FS_CardinalityType
    <2>. QED BY <2>1, <2>2 DEF Charged
  <1>2. ASSUME faults'.slips = faults.slips + 1, NEW x, Debt' \subseteq Debt \cup {x}
        PROVE  Charged'
    <2>. DEFINE wider == Debt \cup {x}
    <2>1. /\ IsFiniteSet(wider) /\ Cardinality(wider) \in Nat
          /\ Cardinality(wider) <= Cardinality(Debt) + 1
      BY AddBound
    <2>2. Debt' \in SUBSET wider
      BY <1>2
    <2>. HIDE DEF wider
    <2>3. IsFiniteSet(Debt') /\ Cardinality(Debt') <= Cardinality(wider)
      BY <2>1, <2>2, FS_Subset
    <2>4. Cardinality(Debt') \in Nat
      BY <2>3, FS_CardinalityType
    <2>. QED BY <1>2, <2>1, <2>3, <2>4 DEF Charged
  <1>. QED BY <1>1, <1>2, StepDebt DEF DebtInv

\* At first nothing is owed: no machine has an address yet.
LEMMA InitCharged == Init => Charged
  <1>. SUFFICES ASSUME Init PROVE Charged
    OBVIOUS
  <1>1. Debt = {}
    <2>1. ~Active /\ ~Exposed
      BY IdleType DEF Init, Active, Exposed
    <2>2. Prospect \cap Addresses = {}
      BY <2>1, ConstantsAssumption DEF Init, Prospect
    <2>3. Outdated = {} /\ Orphaned = {} /\ Forgotten = {}
      BY <2>1 DEF Init, Outdated, Orphaned, Forgotten
    <2>. QED BY <2>2, <2>3 DEF Debt, Astray
  <1>. QED BY <1>1, FS_EmptySet, ConstantsAssumption DEF Init, Charged

\* The inductive invariant of the stray origins.
THEOREM DebtInvariance == Spec => []DebtInv
  <1>1. Init => DebtInv
    BY InitInv, InitCharged DEF DebtInv
  <1>2. DebtInv /\ [Next]_vars => DebtInv'
    BY StepInv, StepCharged DEF DebtInv
  <1>. QED BY <1>1, <1>2, PTL DEF Spec

\* Traffic is sent to an address without a machine only after a slip, and each
\* slip leaves at most one such origin behind.
THEOREM StrayBoundHolds == Spec => []StrayBound
  <1>1. ASSUME DebtInv PROVE StrayBound
    <2>1. Stray \in SUBSET Debt
      BY DEF Stray, Debt, Astray, Prospect
    <2>2. /\ IsFiniteSet(Debt) /\ Cardinality(Debt) <= faults.slips
          /\ Cardinality(Debt) \in Nat /\ faults.slips \in Nat
      BY <1>1, FS_CardinalityType, ConstantsAssumption DEF DebtInv, PoolInv, Charged, TypeOK
    <2>3. IsFiniteSet(Stray) /\ Cardinality(Stray) <= Cardinality(Debt)
      BY <2>1, <2>2, FS_Subset
    <2>4. Cardinality(Stray) \in Nat
      BY <2>3, FS_CardinalityType
    <2>. QED BY <2>2, <2>3, <2>4 DEF StrayBound
  <1>. QED BY <1>1, DebtInvariance, PTL
================================================================================
