--------------------------- MODULE WorkloadNodeProofs ---------------------------
(***************************************************************************)
(* Theorems about WorkloadNode, for every number of instances and of Nodes *)
(* and every set of blocks, taints and faults.                             *)
(***************************************************************************)
EXTENDS WorkloadNodeInv, TLAPS

-----------------------------------------------------------------------------
(***************************************************************************)
(* What a step does, action by action.                                     *)
(***************************************************************************)

\* A fault keeps the counters within the bound; only a race counts as one.
LEMMA FaultStep ==
    ASSUME TypeOK, Counts, NEW kind, Fault(kind)
    PROVE  /\ faults' \in [all : 0..MaxFaults, races : 0..MaxFaults]
           /\ Counts'
           /\ faults'.races = faults.races + IF kind = "race" THEN 1 ELSE 0
  BY ConstantsAssumption DEF TypeOK, Counts, Fault

\* Where a step is no race, the races stay as they are.
LEMMA CleanStep ==
    ASSUME TypeOK, Counts,
           UNCHANGED faults \/ \E kind \in {"api", "lost", "crash"} : Fault(kind)
    PROVE  /\ faults' \in [all : 0..MaxFaults, races : 0..MaxFaults]
           /\ Counts' /\ faults'.races = faults.races
  <1>1. CASE UNCHANGED faults
    BY <1>1 DEF TypeOK, Counts
  <1>2. ASSUME NEW kind \in {"api", "lost", "crash"}, Fault(kind)
        PROVE  /\ faults' \in [all : 0..MaxFaults, races : 0..MaxFaults]
               /\ Counts' /\ faults'.races = faults.races
    <2>1. faults.races \in Nat
      BY ConstantsAssumption DEF TypeOK
    <2>. QED BY <1>2, <2>1, FaultStep
  <1>. QED BY <1>1, <1>2

\* The worker between two passes is well typed.
LEMMA IdleType ==
    /\ Idle \in Passes /\ NoNode \in Nodes
    /\ Idle.step = "idle" /\ Idle.version = "none" /\ Idle.wanted = {}
  <1>1. NoNode \in Nodes
    BY ConstantsAssumption DEF NoNode, Nodes
  <1>. QED BY <1>1 DEF Idle, Passes, Steps

\* The fields of a pass.
LEMMA PassFields ==
    ASSUME TypeOK
    PROVE  /\ pass.step \in Steps /\ pass.desired \subseteq Addresses
           /\ pass.seen \in Nodes /\ pass.mine \in Nodes
           /\ pass.version \in {"none", "held", "outdated"}
           /\ pass.failed \in BOOLEAN /\ pass.wanted \subseteq Blocks
  BY DEF TypeOK, Passes

\* The fields of a Node.
LEMMA NodeFields ==
    ASSUME NEW n \in Nodes
    PROVE  /\ n.present \in BOOLEAN /\ n.uid \in 0..MaxNodes /\ n.gen \in 0..MaxGen
           /\ n.addresses \subseteq Addresses /\ n.tainted \in BOOLEAN
           /\ n.taints \subseteq OtherTaints /\ n.cidrs \subseteq Blocks
  BY DEF Nodes

\* What a pass read, and what it has of the Node.
Same == /\ pass'.desired = pass.desired /\ pass'.seen = pass.seen
        /\ pass'.mine = pass.mine /\ pass'.version = pass.version

\* A pass that goes on keeps what it read.
LEMMA GoesStep ==
    ASSUME TypeOK, NEW step \in Steps, Goes(step)
    PROVE  /\ pass' \in Passes /\ Same /\ pass'.step = step
           /\ pass'.wanted = pass.wanted
  BY DEF TypeOK, Passes, Goes, Same

\* A patch that is taken and answered makes the Node and the pass's copy of it
\* the same; one that fails ends the pass.
LEMMA PatchesStep ==
    ASSUME TypeOK, Counts, NEW new \in Nodes, NEW next \in Steps, Patches(new, next),
           queued \in BOOLEAN
    PROVE  /\ pass' \in Passes /\ queued' \in BOOLEAN
           /\ UNCHANGED faults \/ Fault("api") \/ Fault("lost")
           /\ node' \in {node, new}
           /\ (node' # node => Accepted)
           /\ \/ /\ Accepted /\ node' = new /\ pass'.mine = new /\ pass'.version = "held"
                 /\ pass'.step = next /\ pass'.wanted = pass.wanted
                 /\ pass'.desired = pass.desired /\ pass'.seen = pass.seen
              \/ pass' = Idle
  <1>1. CASE Accepted /\ node' = new /\ UNCHANGED <<queued, faults>>
             /\ pass' = [pass EXCEPT !.step = next, !.mine = new, !.version = "held"]
    <2>1. pass \in Passes
      BY DEF TypeOK
    <2>2. pass' \in Passes
      BY <1>1, <2>1 DEF Passes
    <2>. QED BY <1>1, <2>1, <2>2 DEF Passes
  <1>2. CASE /\ Failure
             /\ node' \in {node, new}
             /\ (node' # node => Accepted)
             /\ UNCHANGED faults \/ Fault("api") \/ Fault("lost")
    <2>1. pass' = Idle /\ queued' \in BOOLEAN
      BY <1>2 DEF Failure, Ends
    <2>2. pass' \in Passes
      BY <2>1, IdleType
    <2>. QED BY <1>2, <2>1, <2>2
  <1>. QED BY <1>1, <1>2 DEF Patches

\* The addresses of the instance are addresses a Node may have.
LEMMA ReportedType ==
    ASSUME TypeOK
    PROVE  /\ Reported \subseteq Addresses /\ Host \in Reported
           /\ \A a \in Reported \ {Host} : a[2] = instance.gen
  BY DEF TypeOK, Reported, Addresses

\* What Begin does.
LEMMA BeginStep ==
    ASSUME TypeOK, Counts, Begin
    PROVE  /\ UNCHANGED <<instance, nodeRef, node, calico, blocks, faults>>
           /\ queued' \in BOOLEAN /\ pass' \in Passes
           /\ \/ /\ pass'.step = "get" /\ pass'.desired = Reported
                 /\ pass'.version = "none" /\ pass'.wanted = {}
              \/ pass' = Idle
  <1>1. CASE pass' = [Idle EXCEPT !.step = "get", !.desired = Reported] /\ queued' = FALSE
    <2>1. pass' \in Passes
      BY <1>1, IdleType, ReportedType DEF Passes, Steps
    <2>. QED BY <1>1, <2>1 DEF Begin, Idle
  <1>2. CASE Ends(TRUE)
    BY <1>2, IdleType DEF Begin, Ends, TypeOK
  <1>. QED BY <1>1, <1>2 DEF Begin

\* What NodeGet does.
LEMMA NodeGetStep ==
    ASSUME TypeOK, Counts, NodeGet
    PROVE  /\ UNCHANGED <<instance, nodeRef, node, calico, blocks>>
           /\ UNCHANGED faults \/ Fault("api")
           /\ queued' \in BOOLEAN /\ pass' \in Passes /\ pass.step = "get"
           /\ \/ /\ pass'.step = "status" /\ pass'.seen = node /\ pass'.mine = node
                 /\ node.present
                 /\ pass'.desired = pass.desired /\ pass'.version = pass.version
                 /\ pass'.wanted = pass.wanted
              \/ pass' = Idle
  <1>1. CASE /\ node.present /\ UNCHANGED <<queued, faults>>
             /\ pass' = [pass EXCEPT !.step = "status", !.seen = node, !.mine = node]
    <2>1. pass \in Passes /\ node \in Nodes
      BY DEF TypeOK
    <2>2. pass' \in Passes
      BY <1>1, <2>1 DEF Passes, Steps
    <2>. QED BY <1>1, <2>1, <2>2 DEF NodeGet, TypeOK, Passes
  <1>2. CASE Ends(Polls) /\ (UNCHANGED faults \/ Fault("api"))
    BY <1>2, IdleType DEF NodeGet, Ends, Polls, TypeOK
  <1>. QED BY <1>1, <1>2 DEF NodeGet

\* What PatchNodeStatus does.
LEMMA StatusStep ==
    ASSUME TypeOK, Counts, PatchNodeStatus
    PROVE  /\ UNCHANGED <<instance, nodeRef, calico, blocks>>
           /\ UNCHANGED faults \/ Fault("api") \/ Fault("lost")
           /\ queued' \in BOOLEAN /\ pass' \in Passes /\ pass.step = "status"
           /\ node' \in {node, [node EXCEPT !.addresses = pass.desired]}
           /\ (node' # node => Accepted)
           /\ \/ /\ pass'.step = "taints" /\ Same /\ pass.seen.addresses = pass.desired
                 /\ pass'.wanted = pass.wanted /\ node' = node
              \/ /\ pass'.step = "taints" /\ Accepted /\ node' = pass'.mine
                 /\ node' = [node EXCEPT !.addresses = pass.desired]
                 /\ pass'.version = "held" /\ pass'.wanted = pass.wanted
                 /\ pass'.desired = pass.desired /\ pass'.seen = pass.seen
              \/ pass' = Idle
  <1>. DEFINE new == [node EXCEPT !.addresses = pass.desired]
  <1>1. CASE pass.seen.addresses = pass.desired
    <2>1. Goes("taints") /\ UNCHANGED <<node, faults>>
      BY <1>1 DEF PatchNodeStatus
    <2>. QED BY <1>1, <2>1, GoesStep DEF PatchNodeStatus, Goes, Steps, TypeOK
  <1>2. CASE pass.seen.addresses # pass.desired
    <2>1. Patches(new, "taints")
      BY <1>2 DEF PatchNodeStatus
    <2>2. new \in Nodes
      BY PassFields DEF TypeOK, Nodes
    <2>. HIDE DEF new
    <2>3. "taints" \in Steps /\ queued \in BOOLEAN
      BY DEF Steps, TypeOK
    <2>4. /\ UNCHANGED <<instance, nodeRef, calico, blocks>> /\ pass.step = "status"
      BY DEF PatchNodeStatus
    <2>5. /\ pass' \in Passes /\ queued' \in BOOLEAN
          /\ UNCHANGED faults \/ Fault("api") \/ Fault("lost")
          /\ node' \in {node, new}
          /\ (node' # node => Accepted)
          /\ \/ /\ Accepted /\ node' = new /\ pass'.mine = new /\ pass'.version = "held"
                /\ pass'.step = "taints" /\ pass'.wanted = pass.wanted
                /\ pass'.desired = pass.desired /\ pass'.seen = pass.seen
             \/ pass' = Idle
      BY <2>1, <2>2, <2>3, PatchesStep
    <2>6. CASE pass' = Idle
      BY <2>4, <2>5, <2>6 DEF new
    <2>7. CASE pass' # Idle
      BY <2>4, <2>5, <2>7 DEF new
    <2>. QED BY <2>6, <2>7
  <1>. QED BY <1>1, <1>2

\* What PatchTaints does.
LEMMA TaintsStep ==
    ASSUME TypeOK, Counts, PatchTaints
    PROVE  /\ UNCHANGED <<instance, nodeRef, calico, blocks>>
           /\ UNCHANGED faults \/ Fault("api") \/ Fault("lost")
           /\ queued' \in BOOLEAN /\ pass' \in Passes /\ pass.step = "taints"
           /\ node' \in {node, [node EXCEPT !.tainted = FALSE, !.taints = pass.seen.taints]}
           /\ (node' # node => Accepted)
           /\ \/ /\ pass'.step = "ipPool" /\ Same
                 /\ pass'.wanted = pass.wanted /\ node' = node
              \/ /\ pass'.step = "ipPool" /\ Accepted /\ node' = pass'.mine
                 /\ node' = [node EXCEPT !.tainted = FALSE, !.taints = pass.seen.taints]
                 /\ pass'.version = "held" /\ pass'.wanted = pass.wanted
                 /\ pass'.desired = pass.desired /\ pass'.seen = pass.seen
              \/ pass' = Idle
  <1>. DEFINE new == [node EXCEPT !.tainted = FALSE, !.taints = pass.seen.taints]
  <1>1. CASE ~pass.seen.tainted
    <2>1. Goes("ipPool") /\ UNCHANGED <<node, faults>>
      BY <1>1 DEF PatchTaints
    <2>. QED BY <2>1, GoesStep DEF PatchTaints, Goes, Steps, TypeOK
  <1>2. CASE pass.seen.tainted
    <2>1. Patches(new, "ipPool")
      BY <1>2 DEF PatchTaints
    <2>2. new \in Nodes
      <3>1. node \in Nodes /\ pass.seen.taints \subseteq OtherTaints
        BY PassFields, NodeFields DEF TypeOK
      <3>. QED BY <3>1 DEF Nodes
    <2>. HIDE DEF new
    <2>3. "ipPool" \in Steps /\ queued \in BOOLEAN
      BY DEF Steps, TypeOK
    <2>4. /\ UNCHANGED <<instance, nodeRef, calico, blocks>> /\ pass.step = "taints"
      BY DEF PatchTaints
    <2>5. /\ pass' \in Passes /\ queued' \in BOOLEAN
          /\ UNCHANGED faults \/ Fault("api") \/ Fault("lost")
          /\ node' \in {node, new}
          /\ (node' # node => Accepted)
          /\ \/ /\ Accepted /\ node' = new /\ pass'.mine = new /\ pass'.version = "held"
                /\ pass'.step = "ipPool" /\ pass'.wanted = pass.wanted
                /\ pass'.desired = pass.desired /\ pass'.seen = pass.seen
             \/ pass' = Idle
      BY <2>1, <2>2, <2>3, PatchesStep
    <2>6. CASE pass' = Idle
      BY <2>4, <2>5, <2>6 DEF new
    <2>7. CASE pass' # Idle
      BY <2>4, <2>5, <2>7 DEF new
    <2>. QED BY <2>6, <2>7
  <1>. QED BY <1>1, <1>2

\* What the creation of a Calico object does.
LEMMA CreateStep ==
    ASSUME TypeOK, Counts, NEW k \in Kinds, NEW next \in Steps, CreateIfAbsent(k, next)
    PROVE  /\ UNCHANGED <<instance, nodeRef, node, blocks, queued>>
           /\ UNCHANGED faults \/ Fault("api") \/ Fault("lost")
           /\ pass' \in Passes /\ pass'.step = next /\ Same /\ pass'.wanted = pass.wanted
           /\ \/ UNCHANGED calico
              \/ \E a \in pass.mine.addresses \ {Host} :
                    calico' = [calico EXCEPT ![k] = [owner |-> pass.mine.uid, gen |-> a[2]]]
  <1>1. /\ UNCHANGED <<instance, nodeRef, node, blocks, queued>>
        /\ UNCHANGED faults \/ Fault("api") \/ Fault("lost")
        /\ Goes(next) \/ pass' = [pass EXCEPT !.step = next, !.failed = TRUE]
    BY DEF CreateIfAbsent, Goes
  <1>2. pass' \in Passes /\ pass'.step = next /\ Same /\ pass'.wanted = pass.wanted
    <2>1. CASE Goes(next)
      BY <2>1, GoesStep
    <2>2. CASE pass' = [pass EXCEPT !.step = next, !.failed = TRUE]
      BY <2>2 DEF TypeOK, Passes, Same
    <2>. QED BY <1>1, <2>1, <2>2
  <1>3. \A a : a[1] = Source[k] => a # Host
    BY DEF Kinds, Source, Host
  <1>4. \/ UNCHANGED calico
        \/ \E a \in pass.mine.addresses \ {Host} :
              calico' = [calico EXCEPT ![k] = [owner |-> pass.mine.uid, gen |-> a[2]]]
    BY <1>3 DEF CreateIfAbsent, Owner
  <1>. QED BY <1>1, <1>2, <1>4

\* What the reading of the blocks does.
LEMMA BlocksStep ==
    ASSUME TypeOK, Counts, BlockAffinities
    PROVE  /\ UNCHANGED <<instance, nodeRef, node, calico, blocks>>
           /\ UNCHANGED faults \/ Fault("api")
           /\ queued' \in BOOLEAN /\ pass' \in Passes /\ pass.step = "blocks"
           /\ \/ /\ pass'.step = "cidrs" /\ Same /\ pass'.wanted = Listed /\ Ready
              \/ pass' = Idle
  <1>1. CASE /\ pass' = [pass EXCEPT !.step = "cidrs", !.wanted = Listed]
             /\ Ready /\ UNCHANGED <<queued, faults>>
    <2>1. Listed \in SUBSET Blocks /\ pass \in Passes
      BY DEF Listed, TypeOK
    <2>2. pass' \in Passes /\ Same /\ pass'.step = "cidrs" /\ pass'.wanted = Listed
      BY <1>1, <2>1 DEF Passes, Steps, Same
    <2>. QED BY <1>1, <2>2 DEF BlockAffinities, TypeOK
  <1>2. CASE \E again \in BOOLEAN : Ends(again) /\ (UNCHANGED faults \/ Fault("api"))
    BY <1>2, IdleType DEF BlockAffinities, Ends, TypeOK
  <1>. QED BY <1>1, <1>2 DEF BlockAffinities, Awaits

\* What the last patch does.
LEMMA CIDRsStep ==
    ASSUME TypeOK, Counts, PatchPodCIDRs
    PROVE  /\ UNCHANGED <<instance, nodeRef, calico, blocks>>
           /\ UNCHANGED faults \/ Fault("api") \/ Fault("lost")
           /\ queued' \in BOOLEAN /\ pass' = Idle /\ pass.step = "cidrs"
           /\ node' \in {node, [node EXCEPT !.cidrs = pass.wanted]}
  BY DEF PatchPodCIDRs, Ends, TypeOK

\* What any change of the Node by others does.
LEMMA ChangesStep ==
    ASSUME TypeOK, Counts, NEW new, Changes(new)
    PROVE  /\ UNCHANGED <<instance, nodeRef, calico, blocks, queued>>
           /\ node' = new /\ pass' \in Passes
           /\ pass'.step = pass.step /\ pass'.wanted = pass.wanted
           /\ pass'.desired = pass.desired /\ pass'.seen = pass.seen
           /\ pass'.mine = pass.mine
           /\ faults' \in [all : 0..MaxFaults, races : 0..MaxFaults] /\ Counts'
           /\ faults'.races >= faults.races
           /\ ~HasRead => UNCHANGED pass
           /\ HasRead => \/ pass'.version = "outdated" /\ pass.version # "none"
                         \/ pass' = pass /\ pass.version = "none" /\ faults'.races > 0
  <1>. faults.races \in Nat
    BY ConstantsAssumption DEF TypeOK
  <1>1. CASE ~HasRead
    BY <1>1 DEF Changes, HasRead, TypeOK, Counts
  <1>2. CASE HasRead /\ pass.version = "none"
    BY <1>2, FaultStep DEF Changes, HasRead, TypeOK
  <1>3. CASE HasRead /\ pass.version # "none"
    <2>1. pass' = [pass EXCEPT !.version = "outdated"] /\ pass \in Passes
          /\ UNCHANGED <<instance, nodeRef, calico, blocks, queued, faults>> /\ node' = new
      BY <1>3 DEF Changes, HasRead, TypeOK
    <2>2. /\ pass' \in Passes /\ pass'.version = "outdated"
          /\ pass'.step = pass.step /\ pass'.wanted = pass.wanted
          /\ pass'.desired = pass.desired /\ pass'.seen = pass.seen
          /\ pass'.mine = pass.mine
      BY <2>1 DEF Passes
    <2>. QED BY <1>3, <2>1, <2>2 DEF TypeOK, Counts
  <1>. QED BY <1>1, <1>2, <1>3

\* What the others make of the Node: a new one, none, or one with other taints.
OtherNodes(n) ==
    \/ /\ ~node.present /\ n.present /\ n.uid = node.uid + 1 /\ n.tainted
       /\ n.gen = instance.gen /\ n.cidrs = {}
    \/ node.present /\ ~n.present /\ n.uid = node.uid /\ n.gen = 0 /\ n.cidrs = {}
    \/ /\ node.present /\ n.present /\ n.uid = node.uid /\ n.gen = node.gen
       /\ n.addresses = node.addresses /\ n.tainted = node.tainted /\ n.cidrs = node.cidrs

LEMMA OthersStep ==
    ASSUME TypeOK, Counts,
           Register \/ DeleteNode \/ Touch \/ \E t \in OtherTaints : Retaint(t)
    PROVE  \E n \in Nodes : Changes(n) /\ OtherNodes(n)
  <1>. node \in Nodes /\ instance.gen \in 1..MaxGen /\ node.uid \in 0..MaxNodes
    BY NodeFields DEF TypeOK
  <1>1. CASE Register
    <2>1. PICK ts \in SUBSET OtherTaints :
             Changes([NoNode EXCEPT !.present = TRUE, !.uid = node.uid + 1,
                                    !.gen = instance.gen, !.tainted = TRUE, !.taints = ts])
      BY <1>1 DEF Register
    <2>. DEFINE n == [NoNode EXCEPT !.present = TRUE, !.uid = node.uid + 1,
                                    !.gen = instance.gen, !.tainted = TRUE, !.taints = ts]
    <2>. HIDE DEF n
    <2>2. node.uid + 1 \in 0..MaxNodes /\ instance.gen \in 0..MaxGen /\ ~node.present
      <3>1. ~node.present /\ node.uid < MaxNodes
        BY <1>1 DEF Register
      <3>. QED BY <3>1, ConstantsAssumption
    <2>3. n \in Nodes
      BY <2>2, IdleType DEF n, Nodes
    <2>4. OtherNodes(n)
      BY <2>2 DEF n, OtherNodes, NoNode
    <2>. QED BY <2>1, <2>3, <2>4 DEF n
  <1>2. CASE DeleteNode
    <2>. DEFINE n == [NoNode EXCEPT !.uid = node.uid]
    <2>1. n \in Nodes
      BY IdleType DEF Nodes
    <2>2. OtherNodes(n)
      BY <1>2 DEF DeleteNode, OtherNodes, NoNode
    <2>. QED BY <1>2, <2>1, <2>2 DEF DeleteNode
  <1>3. CASE Touch
    BY <1>3 DEF Touch, OtherNodes
  <1>4. ASSUME NEW t \in OtherTaints, Retaint(t)
        PROVE  \E n \in Nodes : Changes(n) /\ OtherNodes(n)
    <2>. DEFINE ts == IF t \in node.taints THEN node.taints \ {t} ELSE node.taints \cup {t}
                n == [node EXCEPT !.taints = ts]
    <2>1. ts \subseteq OtherTaints
      BY NodeFields
    <2>2. Changes(n) /\ node.present
      BY <1>4 DEF Retaint
    <2>. HIDE DEF ts
    <2>3. n \in Nodes /\ OtherNodes(n)
      BY <2>1, <2>2 DEF Nodes, OtherNodes
    <2>. QED BY <2>2, <2>3
  <1>. QED BY <1>1, <1>2, <1>3, <1>4

-----------------------------------------------------------------------------
(***************************************************************************)
(* Types.                                                                  *)
(***************************************************************************)

\* The initial states are well typed.
LEMMA InitType == Init => TypeOK /\ Counts
  <1>. SUFFICES ASSUME Init PROVE TypeOK /\ Counts
    OBVIOUS
  <1>1. instance \in [gen : 1..MaxGen, parts : SUBSET Parts]
    BY ConstantsAssumption DEF Init
  <1>2. calico \in [Kinds -> [owner : 0..Unowned, gen : 0..MaxGen]]
    BY ConstantsAssumption DEF Init, Absent, Unowned
  <1>3. blocks \in [Blocks -> BlockStates]
    BY DEF Init, BlockStates
  <1>4. faults \in [all : 0..MaxFaults, races : 0..MaxFaults] /\ Counts
    BY ConstantsAssumption DEF Init, Counts
  <1>. QED BY <1>1, <1>2, <1>3, <1>4, IdleType DEF Init, TypeOK

\* What the steps of Vultr, Calico and the garbage collector leave well typed.
LEMMA WorldType ==
    ASSUME TypeOK, Counts
    PROVE  /\ \A p \in Parts : Report(p) => TypeOK' /\ Counts'
           /\ Replace => TypeOK' /\ Counts'
           /\ SetNodeRef \/ Resync \/ Crash => TypeOK' /\ Counts'
           /\ \A b \in Blocks : Calico(b) => TypeOK' /\ Counts'
           /\ \A k \in Kinds : Collect(k) => TypeOK' /\ Counts'
  <1>1. ASSUME NEW p \in Parts, Report(p) PROVE TypeOK' /\ Counts'
    <2>1. instance' \in [gen : 1..MaxGen, parts : SUBSET Parts]
      BY <1>1 DEF Report, TypeOK
    <2>. QED BY <1>1, <2>1 DEF Report, TypeOK, Counts
  <1>2. CASE Replace
    <2>1. instance' \in [gen : 1..MaxGen, parts : SUBSET Parts]
      BY <1>2, ConstantsAssumption DEF Replace, TypeOK
    <2>2. faults' \in [all : 0..MaxFaults, races : 0..MaxFaults] /\ Counts'
      BY <1>2, FaultStep DEF Replace, TypeOK, Counts
    <2>. QED BY <1>2, <2>1, <2>2 DEF Replace, TypeOK
  <1>3. CASE SetNodeRef \/ Resync
    BY <1>3 DEF SetNodeRef, Resync, TypeOK, Counts
  <1>4. CASE Crash
    BY <1>4, CleanStep, IdleType DEF Crash, TypeOK
  <1>5. ASSUME NEW b \in Blocks, Calico(b) PROVE TypeOK' /\ Counts'
    <2>1. Follows[blocks[b]] \in BlockStates
      BY DEF TypeOK, BlockStates, Follows
    <2>2. blocks' \in [Blocks -> BlockStates]
      BY <1>5, <2>1 DEF Calico, TypeOK
    <2>. QED BY <1>5, <2>2 DEF Calico, TypeOK, Counts
  <1>6. ASSUME NEW k \in Kinds, Collect(k) PROVE TypeOK' /\ Counts'
    <2>1. Absent \in [owner : 0..Unowned, gen : 0..MaxGen]
      BY ConstantsAssumption DEF Absent, Unowned
    <2>2. calico' \in [Kinds -> [owner : 0..Unowned, gen : 0..MaxGen]]
      BY <1>6, <2>1 DEF Collect, TypeOK
    <2>. QED BY <1>6, <2>2 DEF Collect, TypeOK, Counts
  <1>. QED BY <1>1, <1>2, <1>3, <1>4, <1>5, <1>6

\* Every step, stuttering included, keeps the types.
LEMMA StepType ==
    ASSUME TypeOK, Counts, [Next]_vars
    PROVE  TypeOK' /\ Counts'
  <1>1. CASE Register \/ DeleteNode \/ Touch \/ \E t \in OtherTaints : Retaint(t)
    <2>1. PICK n \in Nodes : Changes(n)
      BY <1>1, OthersStep
    <2>2. /\ UNCHANGED <<instance, nodeRef, calico, blocks, queued>>
          /\ node' \in Nodes /\ pass' \in Passes /\ Counts'
          /\ faults' \in [all : 0..MaxFaults, races : 0..MaxFaults]
          /\ pass'.step = pass.step /\ pass'.wanted = pass.wanted
          /\ pass'.seen = pass.seen
      BY <2>1, ChangesStep
    <2>. QED BY <2>2 DEF TypeOK
  <1>2. CASE Begin
    BY <1>2, BeginStep, IdleType DEF TypeOK, Counts
  <1>3. CASE NodeGet
    BY <1>3, NodeGetStep, CleanStep, IdleType DEF TypeOK
  <1>4. CASE PatchNodeStatus
    <2>1. [node EXCEPT !.addresses = pass.desired] \in Nodes
      BY PassFields DEF TypeOK, Nodes
    <2>2. faults' \in [all : 0..MaxFaults, races : 0..MaxFaults] /\ Counts'
      BY <1>4, StatusStep, CleanStep
    <2>3. node' \in Nodes /\ pass' \in Passes
      BY <1>4, <2>1, StatusStep DEF TypeOK
    <2>4. pass.seen.present
      BY <1>4, StatusStep DEF TypeOK
    <2>. QED BY <1>4, <2>2, <2>3, <2>4, StatusStep, IdleType DEF TypeOK, Same
  <1>5. CASE PatchTaints
    <2>1. [node EXCEPT !.tainted = FALSE, !.taints = pass.seen.taints] \in Nodes
      <3>1. node \in Nodes /\ pass.seen.taints \subseteq OtherTaints
        BY PassFields, NodeFields DEF TypeOK
      <3>. QED BY <3>1 DEF Nodes
    <2>2. faults' \in [all : 0..MaxFaults, races : 0..MaxFaults] /\ Counts'
      BY <1>5, TaintsStep, CleanStep
    <2>3. node' \in Nodes /\ pass' \in Passes
      BY <1>5, <2>1, TaintsStep DEF TypeOK
    <2>4. pass.seen.present
      BY <1>5, TaintsStep DEF TypeOK
    <2>. QED BY <1>5, <2>2, <2>3, <2>4, TaintsStep, IdleType DEF TypeOK, Same
  <1>6. ASSUME NEW k \in Kinds, NEW next \in Steps, CreateIfAbsent(k, next), HasRead,
               next # "cidrs"
        PROVE  TypeOK' /\ Counts'
    <2>1. faults' \in [all : 0..MaxFaults, races : 0..MaxFaults] /\ Counts'
      BY <1>6, CreateStep, CleanStep
    <2>2. ASSUME NEW a \in pass.mine.addresses \ {Host}
          PROVE  [owner |-> pass.mine.uid, gen |-> a[2]]
                    \in [owner : 0..Unowned, gen : 0..MaxGen]
      <3>1. a \in Parts \X (1..MaxGen)
        BY PassFields, NodeFields DEF Addresses
      <3>2. a[2] \in 0..MaxGen
        BY <3>1, ConstantsAssumption
      <3>3. pass.mine.uid \in 0..Unowned
        BY PassFields, NodeFields, ConstantsAssumption DEF Unowned
      <3>. QED BY <3>2, <3>3
    <2>3. calico' \in [Kinds -> [owner : 0..Unowned, gen : 0..MaxGen]]
      <3>1. calico \in [Kinds -> [owner : 0..Unowned, gen : 0..MaxGen]]
        BY DEF TypeOK
      <3>. QED BY <1>6, <2>2, <3>1, CreateStep
    <2>4. pass.seen.present
      BY <1>6 DEF TypeOK, HasRead
    <2>. QED BY <1>6, <2>1, <2>3, <2>4, CreateStep DEF TypeOK, Same
  <1>7. CASE reconcileIPPool \/ reconcileFelixConfiguration
    BY <1>6, <1>7 DEF reconcileIPPool, reconcileFelixConfiguration, Kinds, Steps, HasRead
  <1>8. CASE BlockAffinities
    <2>1. pass.seen.present
      BY <1>8, BlocksStep DEF TypeOK
    <2>2. faults' \in [all : 0..MaxFaults, races : 0..MaxFaults] /\ Counts'
      BY <1>8, BlocksStep, CleanStep
    <2>. QED BY <1>8, <2>1, <2>2, BlocksStep, IdleType DEF TypeOK, Same, Ready
  <1>9. CASE PatchPodCIDRs
    <2>1. [node EXCEPT !.cidrs = pass.wanted] \in Nodes
      BY PassFields DEF TypeOK, Nodes
    <2>2. faults' \in [all : 0..MaxFaults, races : 0..MaxFaults] /\ Counts'
      BY <1>9, CIDRsStep, CleanStep
    <2>. QED BY <1>9, <2>1, <2>2, CIDRsStep, IdleType DEF TypeOK
  <1>10. CASE UNCHANGED vars
    BY <1>10 DEF vars, TypeOK, Counts
  <1>. QED
    BY <1>1, <1>2, <1>3, <1>4, <1>5, <1>7, <1>8, <1>9, <1>10, WorldType DEF Next, Works

\* A pass past its first read goes by a Node that was there, and none comes to
\* write pod CIDRs that has none to write.
THEOREM TypeCorrect == Spec => []TypeOK
  <1>1. Init => TypeOK /\ Counts
    BY InitType
  <1>2. TypeOK /\ Counts /\ [Next]_vars => (TypeOK /\ Counts)'
    BY StepType
  <1>. QED BY <1>1, <1>2, PTL DEF Spec


-----------------------------------------------------------------------------
(***************************************************************************)
(* The invariant, conjunct by conjunct.                                    *)
(***************************************************************************)

\* A step that makes one more Calico object, or reads the blocks: nothing that
\* the pass has read or the Node is changes.
Middle ==
    /\ UNCHANGED <<instance, node>> /\ Same /\ HasRead
    /\ pass.step # "taints" /\ pass.step # "status"
    /\ pass'.step \in {"felix", "blocks", "cidrs"} /\ PastStatus

\* The kinds of steps, as far as the Node and the pass go.
LEMMA StepKinds ==
    ASSUME TypeOK, Counts, [Next]_vars
    PROVE  \/ UNCHANGED <<node, pass>>
           \/ \E n \in Nodes : Changes(n) /\ OtherNodes(n)
           \/ pass' = Idle /\ UNCHANGED <<instance, node>>
           \/ Begin \/ NodeGet \/ PatchNodeStatus \/ PatchTaints
           \/ Middle
           \/ PatchPodCIDRs
  <1>1. CASE reconcileIPPool
    <2>1. "IPPool" \in Kinds /\ "felix" \in Steps
      BY DEF Kinds, Steps
    <2>2. CreateIfAbsent("IPPool", "felix") /\ pass.step = "ipPool"
      BY <1>1 DEF reconcileIPPool
    <2>3. UNCHANGED <<instance, node>> /\ Same /\ pass'.step = "felix"
      BY <2>1, <2>2, CreateStep
    <2>. QED BY <2>2, <2>3 DEF Middle, HasRead, PastStatus
  <1>2. CASE reconcileFelixConfiguration
    <2>1. "FelixConfiguration" \in Kinds /\ "blocks" \in Steps
      BY DEF Kinds, Steps
    <2>2. CreateIfAbsent("FelixConfiguration", "blocks") /\ pass.step = "felix"
      BY <1>2 DEF reconcileFelixConfiguration
    <2>3. UNCHANGED <<instance, node>> /\ Same /\ pass'.step = "blocks"
      BY <2>1, <2>2, CreateStep
    <2>. QED BY <2>2, <2>3 DEF Middle, HasRead, PastStatus
  <1>3. CASE BlockAffinities
    BY <1>3, BlocksStep DEF Middle, HasRead, PastStatus
  <1>4. CASE Register \/ DeleteNode \/ Touch \/ \E t \in OtherTaints : Retaint(t)
    BY <1>4, OthersStep
  <1>5. CASE (\E p \in Parts : Report(p)) \/ Replace \/ SetNodeRef \/ Resync
    BY <1>5 DEF Report, Replace, SetNodeRef, Resync
  <1>6. CASE (\E b \in Blocks : Calico(b)) \/ \E k \in Kinds : Collect(k)
    BY <1>6 DEF Calico, Collect
  <1>7. CASE Crash
    BY <1>7 DEF Crash
  <1>8. CASE UNCHANGED vars
    BY <1>8 DEF vars
  <1>. QED
    BY <1>1, <1>2, <1>3, <1>4, <1>5, <1>6, <1>7, <1>8 DEF Next, Works

\* Races are never uncounted.
LEMMA RacesGrow ==
    ASSUME TypeOK, Counts, [Next]_vars
    PROVE  /\ faults.races \in Nat /\ faults'.races \in Nat
           /\ faults'.races >= faults.races
  <1>1. faults.races \in Nat /\ faults'.races \in Nat
    BY StepType, ConstantsAssumption DEF TypeOK
  <1>2. UNCHANGED faults \/ (\E kind \in AllFaults : Fault(kind))
        \/ faults'.races >= faults.races
    <2>1. CASE Register \/ DeleteNode \/ Touch \/ \E t \in OtherTaints : Retaint(t)
      BY <2>1, OthersStep, ChangesStep
    <2>2. CASE reconcileIPPool \/ reconcileFelixConfiguration
      BY <2>2, CreateStep
         DEF reconcileIPPool, reconcileFelixConfiguration, Kinds, Steps, AllFaults
    <2>3. CASE Begin \/ NodeGet \/ BlockAffinities \/ PatchPodCIDRs
      BY <2>3, BeginStep, NodeGetStep, BlocksStep, CIDRsStep DEF AllFaults
    <2>4. CASE PatchNodeStatus \/ PatchTaints
      BY <2>4, StatusStep, TaintsStep DEF AllFaults
    <2>5. CASE (\E p \in Parts : Report(p)) \/ Replace \/ SetNodeRef \/ Resync \/ Crash
      BY <2>5 DEF Report, Replace, SetNodeRef, Resync, Crash, AllFaults
    <2>6. CASE (\E b \in Blocks : Calico(b)) \/ \E k \in Kinds : Collect(k)
      BY <2>6 DEF Calico, Collect
    <2>7. CASE UNCHANGED vars
      BY <2>7 DEF vars
    <2>. QED BY <2>1, <2>2, <2>3, <2>4, <2>5, <2>6, <2>7 DEF Next, Works
  <1>3. \A kind : Fault(kind) => faults'.races >= faults.races
    BY <1>1, FaultStep
  <1>. QED BY <1>1, <1>2, <1>3

\* Until its first patch a pass has the Node it read; at its patches it has the
\* Node as it is, or a race has been counted.
LEMMA AcceptedKnows ==
    ASSUME TypeOK, Versions, HasRead, Accepted
    PROVE  node = pass.mine \/ faults.races > 0
  BY PassFields DEF Versions, Accepted


\* Every Node that was there has a uid, and a pass's copy is not newer than it.
LEMMA StepBorn ==
    ASSUME TypeOK, Counts, Born, [Next]_vars
    PROVE  Born'
  <1>. node \in Nodes /\ pass.mine \in Nodes
    BY DEF TypeOK, Passes
  <1>. node.uid \in Nat /\ pass.mine.uid \in Nat
    BY ConstantsAssumption DEF Nodes
  <1>1. CASE UNCHANGED <<node, pass>>
    BY <1>1 DEF Born, HasRead
  <1>2. ASSUME NEW n \in Nodes, Changes(n), OtherNodes(n) PROVE Born'
    BY <1>2, ChangesStep DEF Born, HasRead, OtherNodes
  <1>3. CASE pass' = Idle /\ UNCHANGED node
    BY <1>3, IdleType DEF Born, HasRead
  <1>4. CASE Begin
    BY <1>4, BeginStep, IdleType DEF Born, HasRead
  <1>5. CASE NodeGet
    BY <1>5, NodeGetStep, IdleType DEF Born, HasRead
  <1>6. CASE PatchNodeStatus
    BY <1>6, StatusStep, IdleType DEF Born, HasRead, Nodes, Accepted, Same
  <1>7. CASE PatchTaints
    <2>. DEFINE new == [node EXCEPT !.tainted = FALSE, !.taints = pass.seen.taints]
    <2>1. new.present = node.present /\ new.uid = node.uid
      BY DEF Nodes
    <2>. HIDE DEF new
    <2>2. node'.present = node.present /\ node'.uid = node.uid
      BY <1>7, <2>1, TaintsStep DEF new
    <2>3. CASE pass' = Idle
      BY <2>2, <2>3, IdleType DEF Born, HasRead
    <2>4. CASE pass' # Idle
      BY <1>7, <2>2, <2>4, TaintsStep DEF Born, HasRead, Accepted, Same
    <2>. QED BY <2>3, <2>4
  <1>8. CASE Middle
    BY <1>8 DEF Middle, Born, Same, HasRead
  <1>9. CASE PatchPodCIDRs
    BY <1>9, CIDRsStep, IdleType DEF Born, HasRead, Nodes
  <1>. QED BY <1>1, <1>2, <1>3, <1>4, <1>5, <1>6, <1>7, <1>8, <1>9, StepKinds

\* A version held is that of the Node as it is.
LEMMA StepVersions ==
    ASSUME TypeOK, Counts, Versions, [Next]_vars
    PROVE  Versions'
  <1>. node \in Nodes /\ pass.mine \in Nodes /\ pass.seen \in Nodes
    BY DEF TypeOK, Passes
  <1>. /\ pass.version \in {"none", "held", "outdated"}
       /\ faults.races \in Nat /\ faults'.races \in Nat /\ faults'.races >= faults.races
    BY RacesGrow, PassFields
  <1>1. CASE UNCHANGED <<node, pass>>
    BY <1>1 DEF Versions, HasRead
  <1>2. ASSUME NEW n \in Nodes, Changes(n), OtherNodes(n) PROVE Versions'
    BY <1>2, ChangesStep DEF Versions, HasRead
  <1>3. CASE pass' = Idle
    BY <1>3, IdleType DEF Versions, HasRead
  <1>4. CASE Begin
    BY <1>4, BeginStep, IdleType DEF Versions, HasRead
  <1>5. CASE NodeGet
    BY <1>5, NodeGetStep, IdleType DEF Versions, HasRead
  <1>6. CASE PatchNodeStatus
    BY <1>6, StatusStep, IdleType DEF Versions, HasRead, Same
  <1>7. CASE PatchTaints
    BY <1>7, TaintsStep, IdleType DEF Versions, HasRead, Same
  <1>8. CASE Middle
    BY <1>8 DEF Middle, Versions, Same, HasRead
  <1>9. CASE PatchPodCIDRs
    BY <1>3, <1>9, CIDRsStep
  <1>. QED BY <1>1, <1>2, <1>3, <1>4, <1>5, <1>6, <1>7, <1>8, <1>9, StepKinds

\* The instance is another one only after a replacement, which is a race with
\* any pass.
LEMMA InstanceStep ==
    ASSUME TypeOK, Counts, [Next]_vars
    PROVE  /\ instance'.gen >= instance.gen
           /\ \/ instance'.gen = instance.gen
              \/ UNCHANGED <<node, pass, calico>>
                 /\ (pass.step # "idle" => faults'.races > 0)
  <1>. instance.gen \in Nat /\ faults.races \in Nat
    BY ConstantsAssumption DEF TypeOK
  <1>1. ASSUME NEW p \in Parts, Report(p) PROVE instance'.gen = instance.gen
    BY <1>1 DEF Report, TypeOK
  <1>2. CASE Replace
    <2>1. instance'.gen = instance.gen + 1 /\ UNCHANGED <<node, pass, calico>>
      BY <1>2 DEF Replace
    <2>2. pass.step # "idle" => faults'.races > 0
      BY <1>2, FaultStep DEF Replace
    <2>. QED BY <2>1, <2>2
  <1>3. CASE UNCHANGED instance
    BY <1>3
  <1>4. CASE Register \/ DeleteNode \/ Touch \/ \E t \in OtherTaints : Retaint(t)
    BY <1>3, <1>4, OthersStep, ChangesStep
  <1>5. SetNodeRef \/ Resync \/ Crash \/ Begin => UNCHANGED instance
    BY DEF SetNodeRef, Resync, Crash, Begin
  <1>6. (\E b \in Blocks : Calico(b)) \/ (\E k \in Kinds : Collect(k))
           => UNCHANGED instance
    BY DEF Calico, Collect
  <1>7. NodeGet \/ BlockAffinities \/ PatchPodCIDRs => UNCHANGED instance
    BY DEF NodeGet, BlockAffinities, PatchPodCIDRs
  <1>8. PatchNodeStatus \/ PatchTaints => UNCHANGED instance
    BY DEF PatchNodeStatus, PatchTaints
  <1>9. reconcileIPPool \/ reconcileFelixConfiguration => UNCHANGED instance
    BY DEF reconcileIPPool, reconcileFelixConfiguration, CreateIfAbsent
  <1>10. UNCHANGED vars => UNCHANGED instance
    BY DEF vars
  <1>. QED
    BY <1>1, <1>2, <1>3, <1>4, <1>5, <1>6, <1>7, <1>8, <1>9, <1>10 DEF Next, Works

\* A pass means to give the Node the addresses of the instance there is.
LEMMA StepDesires ==
    ASSUME TypeOK, Counts, Desires, [Next]_vars
    PROVE  Desires'
  <1>. instance.gen \in Nat /\ instance'.gen \in Nat
    BY StepType, ConstantsAssumption DEF TypeOK
  <1>. faults.races \in Nat /\ faults'.races \in Nat /\ faults'.races >= faults.races
    BY RacesGrow
  <1>1. /\ \/ instance'.gen = instance.gen
           \/ UNCHANGED <<node, pass, calico>> /\ (pass.step # "idle" => faults'.races > 0)
    BY InstanceStep
  <1>2. CASE pass'.desired = pass.desired /\ (pass'.step # "idle" => pass.step # "idle")
    BY <1>1, <1>2 DEF Desires
  <1>3. CASE pass' = Idle
    BY <1>3, IdleType DEF Desires
  <1>4. CASE Begin
    <2>1. pass'.step # "idle" => pass'.desired = Reported
      BY <1>4, BeginStep, IdleType
    <2>2. UNCHANGED instance
      BY <1>4, BeginStep
    <2>. QED BY <2>1, <2>2, ReportedType DEF Desires
  <1>5. \/ Begin \/ pass' = Idle
        \/ pass'.desired = pass.desired /\ (pass'.step # "idle" => pass.step # "idle")
    BY StepKinds, ChangesStep, NodeGetStep, StatusStep, TaintsStep, CIDRsStep
       DEF Middle, Same, HasRead
  <1>. QED BY <1>2, <1>3, <1>4, <1>5

\* A pass past the addresses has them in its copy of the Node, and one at the
\* taints has those it read.
LEMMA StepGiven ==
    ASSUME TypeOK, Counts, Versions, Given, [Next]_vars
    PROVE  Given'
  <1>. node \in Nodes /\ pass.mine \in Nodes /\ pass.seen \in Nodes
    BY DEF TypeOK, Passes
  <1>. faults.races \in Nat /\ faults'.races \in Nat /\ faults'.races >= faults.races
    BY RacesGrow
  <1>1. CASE UNCHANGED <<node, pass>>
    BY <1>1 DEF Given, PastStatus
  <1>2. ASSUME NEW n \in Nodes, Changes(n), OtherNodes(n) PROVE Given'
    BY <1>2, ChangesStep DEF Given, PastStatus
  <1>3. CASE pass' = Idle
    BY <1>3, IdleType DEF Given, PastStatus
  <1>4. CASE Begin
    BY <1>4, BeginStep, IdleType DEF Given, PastStatus
  <1>5. CASE NodeGet
    BY <1>5, NodeGetStep, IdleType DEF Given, PastStatus
  <1>6. CASE PatchNodeStatus
    <2>1. pass.mine = pass.seen /\ (node = pass.seen \/ faults.races > 0)
      BY <1>6, StatusStep DEF Versions, HasRead
    <2>2. CASE pass' = Idle
      BY <1>3, <2>2
    <2>3. CASE pass' # Idle
      <3>1. \/ Same /\ pass.seen.addresses = pass.desired
            \/ /\ pass'.mine = [node EXCEPT !.addresses = pass.desired]
               /\ pass'.desired = pass.desired /\ pass'.seen = pass.seen
        BY <1>6, <2>3, StatusStep
      <3>2. pass'.mine.addresses = pass'.desired
        BY <2>1, <3>1 DEF Same, Nodes
      <3>3. pass'.mine.taints = pass'.seen.taints \/ faults'.races > 0
        BY <2>1, <3>1 DEF Same, Nodes
      <3>. QED BY <3>2, <3>3 DEF Given
    <2>. QED BY <2>2, <2>3
  <1>7. CASE PatchTaints
    <2>1. HasRead /\ PastStatus
      BY <1>7, TaintsStep DEF HasRead, PastStatus
    <2>2. Accepted => node = pass.mine \/ faults.races > 0
      BY <2>1, AcceptedKnows
    <2>3. pass.mine.addresses = pass.desired \/ faults.races > 0
      BY <2>1 DEF Given
    <2>4. CASE pass' = Idle
      BY <1>3, <2>4
    <2>5. CASE pass' # Idle
      <3>1. /\ pass'.step = "ipPool"
            /\ \/ Same
               \/ /\ Accepted
                  /\ pass'.mine =
                        [node EXCEPT !.tainted = FALSE, !.taints = pass.seen.taints]
                  /\ pass'.desired = pass.desired
        BY <1>7, <2>5, TaintsStep
      <3>2. pass'.mine.addresses = pass'.desired \/ faults'.races > 0
        <4>1. CASE Same
          BY <2>3, <4>1 DEF Same
        <4>2. CASE ~Same
          <5>1. pass'.mine.addresses = node.addresses /\ pass'.desired = pass.desired
            BY <3>1, <4>2 DEF Nodes
          <5>2. node = pass.mine \/ faults.races > 0
            BY <2>2, <3>1, <4>2
          <5>. QED BY <2>3, <5>1, <5>2
        <4>. QED BY <4>1, <4>2
      <3>. QED BY <3>1, <3>2 DEF Given
    <2>. QED BY <2>4, <2>5
  <1>8. CASE Middle
    BY <1>8 DEF Middle, Given, Same, PastStatus
  <1>9. CASE PatchPodCIDRs
    BY <1>3, <1>9, CIDRsStep
  <1>. QED BY <1>1, <1>2, <1>3, <1>4, <1>5, <1>6, <1>7, <1>8, <1>9, StepKinds


\* The taint is taken from the Node that the pass gave its addresses, unless
\* the Node was exchanged in a race.
LEMMA StepInitialized ==
    ASSUME TypeOK, Counts, Versions, Desires, Given, Initialized, [Next]_vars
    PROVE  Initialized'
  <1>. node \in Nodes /\ pass.mine \in Nodes /\ pass.seen \in Nodes
    BY DEF TypeOK, Passes
  <1>. faults.races \in Nat /\ faults'.races \in Nat /\ faults'.races >= faults.races
    BY RacesGrow
  <1>1. CASE UNCHANGED node
    BY <1>1 DEF Initialized, UntaintedHasAddresses
  <1>2. ASSUME NEW n \in Nodes, Changes(n), OtherNodes(n) PROVE Initialized'
    BY <1>2, ChangesStep DEF Initialized, UntaintedHasAddresses, OtherNodes
  <1>3. CASE PatchNodeStatus
    <2>1. Host \in pass.desired
      BY <1>3, StatusStep DEF Desires
    <2>2. CASE node' = [node EXCEPT !.addresses = pass.desired]
      BY <2>1, <2>2 DEF Initialized, UntaintedHasAddresses, Nodes
    <2>. QED BY <1>1, <1>3, <2>2, StatusStep
  <1>4. CASE PatchTaints
    <2>1. HasRead /\ PastStatus /\ pass.step # "idle"
      BY <1>4, TaintsStep DEF HasRead, PastStatus
    <2>2. Accepted => node = pass.mine \/ faults.races > 0
      BY <2>1, AcceptedKnows
    <2>3. pass.mine.addresses # {} \/ faults.races > 0
      BY <2>1 DEF Given, Desires
    <2>4. CASE node' # node
      <3>1. Accepted /\ node' = [node EXCEPT !.tainted = FALSE, !.taints = pass.seen.taints]
        BY <1>4, <2>4, TaintsStep
      <3>2. node'.addresses = node.addresses
        BY <3>1 DEF Nodes
      <3>. QED BY <2>2, <2>3, <3>1, <3>2 DEF Initialized, UntaintedHasAddresses
    <2>. QED BY <1>1, <2>4
  <1>5. CASE PatchPodCIDRs
    <2>1. CASE node' = [node EXCEPT !.cidrs = pass.wanted]
      BY <2>1 DEF Initialized, UntaintedHasAddresses, Nodes
    <2>. QED BY <1>1, <1>5, <2>1, CIDRsStep
  <1>. QED
    BY <1>1, <1>2, <1>3, <1>4, <1>5, StepKinds, BeginStep, NodeGetStep DEF Middle

\* A block that was confirmed stays one that was.
LEMMA ClaimedGrows ==
    ASSUME TypeOK, Counts, [Next]_vars
    PROVE  Claimed \subseteq Claimed'
  <1>1. CASE UNCHANGED blocks
    BY <1>1 DEF Claimed
  <1>2. ASSUME NEW b \in Blocks, Calico(b) PROVE Claimed \subseteq Claimed'
    <2>1. blocks \in [Blocks -> BlockStates]
      BY DEF TypeOK
    <2>2. blocks' = [blocks EXCEPT ![b] = Follows[blocks[b]]]
      BY <1>2 DEF Calico
    <2>3. \A s \in {"confirmed", "leaving", "released"} :
             Follows[s] \in {"confirmed", "leaving", "released"}
      BY DEF Follows
    <2>. QED BY <2>1, <2>2, <2>3 DEF Claimed
  <1>3. Register \/ DeleteNode \/ Touch \/ (\E t \in OtherTaints : Retaint(t))
           => UNCHANGED blocks
    BY OthersStep, ChangesStep
  <1>4. SetNodeRef \/ Resync \/ Crash \/ Begin \/ Replace => UNCHANGED blocks
    BY DEF SetNodeRef, Resync, Crash, Begin, Replace
  <1>5. (\E p \in Parts : Report(p)) \/ (\E k \in Kinds : Collect(k)) => UNCHANGED blocks
    BY DEF Report, Collect
  <1>6. NodeGet \/ BlockAffinities \/ PatchPodCIDRs => UNCHANGED blocks
    BY DEF NodeGet, BlockAffinities, PatchPodCIDRs
  <1>7. PatchNodeStatus \/ PatchTaints => UNCHANGED blocks
    BY DEF PatchNodeStatus, PatchTaints
  <1>8. reconcileIPPool \/ reconcileFelixConfiguration => UNCHANGED blocks
    BY DEF reconcileIPPool, reconcileFelixConfiguration, CreateIfAbsent
  <1>9. UNCHANGED vars => UNCHANGED blocks
    BY DEF vars
  <1>. QED
    BY <1>1, <1>2, <1>3, <1>4, <1>5, <1>6, <1>7, <1>8, <1>9 DEF Next, Works

\* A step of the pass at the Calico objects keeps what is to be written, and one
\* that reads the blocks wants only confirmed ones.
LEMMA WantsStep ==
    ASSUME TypeOK, Counts, [Next]_vars
    PROVE  \/ pass'.wanted = pass.wanted \/ pass'.wanted = {}
           \/ pass'.wanted = Listed /\ Ready
  <1>1. CASE UNCHANGED pass
    BY <1>1
  <1>2. CASE pass' = Idle
    BY <1>2, IdleType
  <1>3. CASE Register \/ DeleteNode \/ Touch \/ \E t \in OtherTaints : Retaint(t)
    BY <1>3, OthersStep, ChangesStep
  <1>4. CASE Begin \/ NodeGet \/ PatchNodeStatus \/ PatchTaints
    BY <1>2, <1>4, BeginStep, NodeGetStep, StatusStep, TaintsStep
  <1>5. CASE reconcileIPPool \/ reconcileFelixConfiguration
    BY <1>5, CreateStep DEF reconcileIPPool, reconcileFelixConfiguration, Kinds, Steps
  <1>6. CASE BlockAffinities \/ PatchPodCIDRs
    BY <1>2, <1>6, BlocksStep, CIDRsStep
  <1>7. SetNodeRef \/ Resync \/ Replace => UNCHANGED pass
    BY DEF SetNodeRef, Resync, Replace
  <1>8. (\E p \in Parts : Report(p)) \/ (\E k \in Kinds : Collect(k))
           \/ (\E b \in Blocks : Calico(b)) => UNCHANGED pass
    BY DEF Report, Collect, Calico
  <1>9. (Crash => pass' = Idle) /\ (UNCHANGED vars => UNCHANGED pass)
    BY DEF Crash, vars
  <1>. QED
    BY <1>1, <1>2, <1>3, <1>4, <1>5, <1>6, <1>7, <1>8, <1>9 DEF Next, Works

\* Only confirmed blocks become pod CIDRs, and a confirmed one may at most be
\* on its way to be released.
LEMMA StepConfirmed ==
    ASSUME TypeOK, Counts, Confirmed, [Next]_vars
    PROVE  Confirmed'
  <1>. node \in Nodes
    BY DEF TypeOK
  <1>1. Claimed \subseteq Claimed'
    BY ClaimedGrows
  <1>2. pass'.wanted \subseteq Claimed'
    <2>1. Ready => Listed \subseteq Claimed
      BY DEF Ready, Listed, Claimed
    <2>. QED BY <1>1, <2>1, WantsStep DEF Confirmed
  <1>3. node'.cidrs \subseteq Claimed'
    <2>1. node'.cidrs \in {node.cidrs, pass.wanted, {}}
      <3>1. CASE UNCHANGED node
        BY <3>1
      <3>2. ASSUME NEW n \in Nodes, Changes(n), OtherNodes(n)
            PROVE  node'.cidrs \in {node.cidrs, {}}
        BY <3>2, ChangesStep DEF OtherNodes
      <3>3. CASE PatchNodeStatus
        BY <3>1, <3>3, StatusStep DEF Nodes
      <3>4. CASE PatchTaints
        <4>1. [node EXCEPT !.tainted = FALSE, !.taints = pass.seen.taints].cidrs
                 = node.cidrs
          BY DEF Nodes
        <4>. QED BY <3>1, <3>4, <4>1, TaintsStep
      <3>5. CASE PatchPodCIDRs
        BY <3>1, <3>5, CIDRsStep DEF Nodes
      <3>. QED
        BY <3>1, <3>2, <3>3, <3>4, <3>5, StepKinds, BeginStep, NodeGetStep DEF Middle
    <2>. QED BY <1>1, <2>1 DEF Confirmed
  <1>. QED BY <1>2, <1>3 DEF Confirmed

\* What becomes of the Node's uid and of the instance it is of.
LEMMA NodeStep ==
    ASSUME TypeOK, Counts, [Next]_vars
    PROVE  \/ /\ node'.uid = node.uid
              /\ node'.gen = node.gen \/ ~node'.present
              /\ node'.present => node.present
              /\ node'.gen \in {node.gen, 0}
           \/ node'.uid = node.uid + 1 /\ node'.gen = instance.gen /\ node'.present
  <1>. node \in Nodes
    BY DEF TypeOK
  <1>1. CASE UNCHANGED node
    BY <1>1
  <1>2. ASSUME NEW n \in Nodes, Changes(n), OtherNodes(n)
        PROVE  \/ /\ n.uid = node.uid
                  /\ n.gen = node.gen \/ ~n.present
                  /\ n.present => node.present
                  /\ n.gen \in {node.gen, 0}
               \/ n.uid = node.uid + 1 /\ n.gen = instance.gen /\ n.present
    BY <1>2 DEF OtherNodes
  <1>3. CASE PatchNodeStatus
    BY <1>1, <1>3, StatusStep DEF Nodes
  <1>4. CASE PatchTaints
    <2>. DEFINE new == [node EXCEPT !.tainted = FALSE, !.taints = pass.seen.taints]
    <2>1. new.uid = node.uid /\ new.gen = node.gen /\ new.present = node.present
      BY DEF Nodes
    <2>. HIDE DEF new
    <2>2. node' \in {node, new}
      BY <1>4, TaintsStep DEF new
    <2>. QED BY <1>1, <2>1, <2>2
  <1>5. CASE PatchPodCIDRs
    BY <1>1, <1>5, CIDRsStep DEF Nodes
  <1>6. (\E n \in Nodes : Changes(n) /\ OtherNodes(n)) =>
           \E n \in Nodes : Changes(n) /\ OtherNodes(n) /\ node' = n
    BY ChangesStep
  <1>. QED
    BY <1>1, <1>2, <1>3, <1>4, <1>5, <1>6, StepKinds, BeginStep, NodeGetStep DEF Middle

\* A Calico object is made by a pass for the Node it has, from an address of the
\* instance, which is not older than the Node.
LEMMA CalicoStep ==
    ASSUME TypeOK, Counts, Born, Desires, Given, Derived, [Next]_vars, NEW k \in Kinds
    PROVE  \/ calico'[k] = calico[k]
           \/ calico'[k] = Absent
           \/ /\ UNCHANGED <<instance, node>>
              /\ calico'[k].owner \in 1..MaxNodes /\ calico'[k].owner <= node.uid
              /\ calico'[k].gen = instance.gen \/ faults'.races > 0
  <1>. calico \in [Kinds -> [owner : 0..Unowned, gen : 0..MaxGen]]
    BY DEF TypeOK
  <1>1. CASE UNCHANGED calico
    BY <1>1
  <1>2. ASSUME NEW j \in Kinds, Collect(j)
        PROVE  calico'[k] = calico[k] \/ calico'[k] = Absent
    BY <1>2 DEF Collect
  <1>3. ASSUME NEW j \in Kinds, NEW next \in Steps, CreateIfAbsent(j, next), PastStatus
        PROVE  \/ calico'[k] = calico[k]
               \/ /\ UNCHANGED <<instance, node>>
                  /\ calico'[k].owner \in 1..MaxNodes /\ calico'[k].owner <= node.uid
                  /\ calico'[k].gen = instance.gen \/ faults'.races > 0
    <2>1. CASE UNCHANGED calico
      BY <2>1
    <2>2. ASSUME NEW a \in pass.mine.addresses \ {Host},
                 calico' = [calico EXCEPT ![j] = [owner |-> pass.mine.uid, gen |-> a[2]]]
          PROVE  \/ calico'[k] = calico[k]
                 \/ /\ UNCHANGED <<instance, node>>
                    /\ calico'[k].owner \in 1..MaxNodes /\ calico'[k].owner <= node.uid
                    /\ calico'[k].gen = instance.gen \/ faults'.races > 0
      <3>1. HasRead /\ pass.step # "idle"
        BY <1>3 DEF PastStatus, HasRead
      <3>2. pass.mine.uid \in 1..MaxNodes /\ pass.mine.uid <= node.uid
        <4>1. pass.mine.uid \in 0..MaxNodes
          BY PassFields, NodeFields
        <4>. QED BY <3>1, <4>1, ConstantsAssumption DEF Born
      <3>3. a[2] = instance.gen \/ faults'.races > 0
        BY <1>3, <3>1, RacesGrow DEF Given, Desires
      <3>4. UNCHANGED <<instance, node>>
        BY <1>3, CreateStep
      <3>5. calico'[k] = calico[k] \/ calico'[k] = [owner |-> pass.mine.uid, gen |-> a[2]]
        BY <2>2
      <3>. QED BY <3>2, <3>3, <3>4, <3>5
    <2>. QED BY <1>3, <2>1, <2>2, CreateStep
  <1>4. CASE reconcileIPPool \/ reconcileFelixConfiguration
    BY <1>3, <1>4
       DEF reconcileIPPool, reconcileFelixConfiguration, Kinds, Steps, PastStatus
  <1>5. Register \/ DeleteNode \/ Touch \/ (\E t \in OtherTaints : Retaint(t))
           => UNCHANGED calico
    BY OthersStep, ChangesStep
  <1>6. SetNodeRef \/ Resync \/ Crash \/ Begin \/ Replace => UNCHANGED calico
    BY DEF SetNodeRef, Resync, Crash, Begin, Replace
  <1>7. (\E p \in Parts : Report(p)) \/ (\E b \in Blocks : Calico(b)) => UNCHANGED calico
    BY DEF Report, Calico
  <1>8. NodeGet \/ BlockAffinities \/ PatchPodCIDRs => UNCHANGED calico
    BY DEF NodeGet, BlockAffinities, PatchPodCIDRs
  <1>9. PatchNodeStatus \/ PatchTaints => UNCHANGED calico
    BY DEF PatchNodeStatus, PatchTaints
  <1>10. UNCHANGED vars => UNCHANGED calico
    BY DEF vars
  <1>. QED
    BY <1>1, <1>2, <1>4, <1>5, <1>6, <1>7, <1>8, <1>9, <1>10 DEF Next, Works


\* Calico objects belong to Nodes that registered, and are as new as these.
LEMMA StepDerived ==
    ASSUME TypeOK, Counts, Born, Desires, Given, Derived, [Next]_vars
    PROVE  Derived'
  <1>. /\ node.uid \in Nat /\ node.gen \in Nat /\ instance.gen \in Nat
       /\ node'.uid \in Nat /\ node'.gen \in Nat /\ instance'.gen \in Nat
    <2>1. TypeOK'
      BY StepType
    <2>. QED BY <2>1, ConstantsAssumption DEF TypeOK, Nodes
  <1>. faults.races \in Nat /\ faults'.races \in Nat /\ faults'.races >= faults.races
    BY RacesGrow
  <1>1. node'.gen <= instance'.gen
    BY NodeStep, InstanceStep DEF Derived
  <1>2. ASSUME NEW k \in Kinds, calico'[k] # Absent
        PROVE  /\ calico'[k].owner \in 1..MaxNodes /\ calico'[k].owner <= node'.uid
               /\ node'.present /\ calico'[k].owner = node'.uid =>
                     calico'[k].gen >= node'.gen \/ faults'.races > 0
    <2>1. CASE calico'[k] = calico[k]
      <3>1. /\ calico[k].owner \in 1..MaxNodes /\ calico[k].owner <= node.uid
            /\ node.present /\ calico[k].owner = node.uid =>
                  calico[k].gen >= node.gen \/ faults.races > 0
        BY <1>2, <2>1 DEF Derived
      <3>2. calico[k].owner \in Nat
        BY <3>1, ConstantsAssumption
      <3>. QED BY <2>1, <3>1, <3>2, NodeStep
    <2>2. CASE /\ UNCHANGED <<instance, node>>
               /\ calico'[k].owner \in 1..MaxNodes /\ calico'[k].owner <= node.uid
               /\ calico'[k].gen = instance.gen \/ faults'.races > 0
      BY <2>2 DEF Derived
    <2>. QED BY <1>2, <2>1, <2>2, CalicoStep
  <1>. QED BY <1>1, <1>2 DEF Derived

-----------------------------------------------------------------------------
(***************************************************************************)
(* The theorems.                                                           *)
(***************************************************************************)

\* The initial states satisfy the invariant.
LEMMA InitInv == Init => NodeInv
  <1>. SUFFICES ASSUME Init PROVE NodeInv
    OBVIOUS
  <1>1. TypeOK /\ Counts
    BY InitType
  <1>2. /\ pass.step = "idle" /\ pass.version = "none" /\ pass.wanted = {}
        /\ ~node.present /\ node.gen = 0 /\ node.cidrs = {} /\ instance.gen = 1
        /\ \A k \in Kinds : calico[k] = Absent
    BY DEF Init, Idle, NoNode
  <1>3. Born /\ Versions /\ Desires /\ Given
    BY <1>2 DEF Born, Versions, Desires, Given, HasRead, PastStatus
  <1>4. Initialized /\ Confirmed /\ Derived
    BY <1>2 DEF Initialized, UntaintedHasAddresses, Confirmed, Derived
  <1>. QED BY <1>1, <1>3, <1>4 DEF NodeInv

\* Whatever the workload cluster does under a pass, the pass's copy of the Node
\* is the Node as it is, or it will be refused, or a race has been counted; and
\* what it means to write comes from the instance and from confirmed blocks.
THEOREM Invariance == Spec => []NodeInv
  <1>1. Init => NodeInv
    BY InitInv
  <1>2. ASSUME NodeInv, [Next]_vars PROVE NodeInv'
    <2>1. TypeOK' /\ Counts'
      BY <1>2, StepType DEF NodeInv
    <2>2. Born' /\ Versions' /\ Desires'
      BY <1>2, StepBorn, StepVersions, StepDesires DEF NodeInv
    <2>3. Given' /\ Initialized'
      BY <1>2, StepGiven, StepInitialized DEF NodeInv
    <2>4. Confirmed' /\ Derived'
      BY <1>2, StepConfirmed, StepDerived DEF NodeInv
    <2>. QED BY <2>1, <2>2, <2>3, <2>4 DEF NodeInv
  <1>. QED BY <1>1, <1>2, PTL DEF Spec

\* PatchNodeStatus before PatchTaints: no Node loses the cloud provider's taint
\* without having got addresses, unless it was exchanged in a race.
THEOREM UntaintedHasAddressesHolds == Spec => []UntaintedHasAddresses
  <1>1. NodeInv => UntaintedHasAddresses
    BY DEF NodeInv, Initialized
  <1>. QED BY <1>1, Invariance, PTL

\* BlockAffinities waits for the confirmation of every block it lists: a pod
\* CIDR is a block that was confirmed.
THEOREM PodCIDRsConfirmedHolds == Spec => []PodCIDRsConfirmed
  <1>1. NodeInv => PodCIDRsConfirmed
    BY DEF NodeInv, Confirmed, Claimed, PodCIDRsConfirmed
  <1>. QED BY <1>1, Invariance, PTL

\* CreateIfAbsent makes the Node the owner of what it derives from it: what was
\* derived from an older instance is collected with the older Node.
THEOREM CalicoNotOlderHolds == Spec => []CalicoNotOlder
  <1>1. ASSUME NodeInv PROVE CalicoNotOlder
    <2>1. node.gen \in Nat /\ node.uid \in Nat /\ TypeOK
      BY <1>1, ConstantsAssumption DEF NodeInv, TypeOK, Nodes
    <2>2. ASSUME NEW k \in Kinds,
                 node.present, calico[k] # Absent, calico[k].gen < node.gen
          PROVE  Garbage(k) \/ faults.races > 0
      <3>1. calico[k].owner \in 1..MaxNodes /\ calico[k].gen \in Nat
        BY <1>1, <2>1, <2>2, ConstantsAssumption DEF NodeInv, Derived, TypeOK
      <3>2. calico[k].owner \notin {0, Unowned}
        BY <3>1, ConstantsAssumption DEF Unowned
      <3>3. CASE calico[k].owner = node.uid
        BY <1>1, <2>1, <2>2, <3>1, <3>3 DEF NodeInv, Derived
      <3>4. CASE calico[k].owner # node.uid
        BY <3>2, <3>4 DEF Garbage
      <3>. QED BY <3>3, <3>4
    <2>. QED BY <2>2 DEF CalicoNotOlder
  <1>. QED BY <1>1, Invariance, PTL

\* PatchTaints writes the taints the pass read before its first patch, yet does
\* not undo what others made of them in between, unless in a race: the answer to
\* the patch before carries the resourceVersion, and tells of no other change.
THEOREM KeepsTaintsHolds == Spec => KeepsTaints
  <1>. DEFINE Keeps ==
         pass' # pass /\ node'.uid = node.uid /\ node'.taints # node.taints
            => pass'.version = "outdated" \/ ~node'.present \/ faults'.races > 0
  <1>1. ASSUME NodeInv, [Next]_vars PROVE [Keeps]_vars
    <2>. TypeOK /\ Counts /\ Versions /\ Given
      BY <1>1 DEF NodeInv
    <2>. node \in Nodes /\ pass.mine \in Nodes /\ pass.seen \in Nodes
      BY DEF TypeOK, Passes
    <2>. faults.races \in Nat /\ faults'.races \in Nat /\ faults'.races >= faults.races
      BY <1>1, RacesGrow
    <2>1. CASE UNCHANGED node
      BY <2>1
    <2>2. ASSUME NEW n \in Nodes, Changes(n), OtherNodes(n) PROVE Keeps
      BY <2>2, ChangesStep
    <2>3. CASE PatchNodeStatus
      <3>1. node'.taints = node.taints
        BY <2>3, StatusStep DEF Nodes
      <3>. QED BY <3>1
    <2>4. CASE PatchTaints
      <3>1. HasRead /\ pass.step = "taints"
        BY <2>4, TaintsStep DEF HasRead
      <3>2. Accepted => node = pass.mine \/ faults.races > 0
        BY <3>1, AcceptedKnows
      <3>3. pass.mine.taints = pass.seen.taints \/ faults.races > 0
        BY <3>1 DEF Given
      <3>4. CASE node' # node
        <4>1. /\ Accepted
              /\ node' = [node EXCEPT !.tainted = FALSE, !.taints = pass.seen.taints]
          BY <2>4, <3>4, TaintsStep
        <4>2. node'.taints = pass.seen.taints
          BY <4>1 DEF Nodes
        <4>3. node'.taints = node.taints \/ faults.races > 0
          BY <3>2, <3>3, <4>1, <4>2
        <4>. QED BY <4>3
      <3>. QED BY <2>1, <3>4
    <2>5. CASE PatchPodCIDRs
      <3>1. node'.taints = node.taints
        BY <2>5, CIDRsStep DEF Nodes
      <3>. QED BY <3>1
    <2>. QED
      BY <1>1, <2>1, <2>2, <2>3, <2>4, <2>5, StepKinds, BeginStep, NodeGetStep DEF Middle
  <1>. QED BY <1>1, Invariance, PTL DEF Spec, KeepsTaints
================================================================================
