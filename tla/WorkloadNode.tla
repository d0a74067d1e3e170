------------------------------ MODULE WorkloadNode ------------------------------
(***************************************************************************)
(* reconcileNode: what a pass over a running instance does in the workload *)
(* cluster.  It gives the Node the instance's addresses, takes the cloud   *)
(* provider's taint away, creates two Calico objects the Node owns, and    *)
(* makes Calico's confirmed blocks the Node's pod CIDRs.                   *)
(*                                                                         *)
(* The workload cluster is not watched: a pass reads what is there and     *)
(* writes it back later.  The first patch of a pass carries no             *)
(* resourceVersion.  Later ones do, because they are computed between the  *)
(* Node as first read and the answer to the patch before.                  *)
(***************************************************************************)
EXTENDS Naturals, FiniteSets

CONSTANTS
    Parts,        \* the kinds of addresses an instance may report
    MaxGen,       \* bound: how many instances the machine has, one after another
    MaxNodes,     \* bound: how many Nodes register under the machine's name
    OtherTaints,  \* taints of others
    Blocks,       \* Calico's blocks for the Node, ordered by their prefixes
    Family,       \* Family[b]: the IP family of block b
    FaultKinds,   \* the faults that may occur
    MaxFaults     \* bound: how many faults occur in one behaviour

\* In a race something changes under a pass that has read it: the instance, or
\* the Node as long as the pass has no resourceVersion to notice it by.
AllFaults == {"race", "api", "lost", "crash"}

ASSUME ConstantsAssumption ==
    /\ Parts \subseteq {"main", "v6", "internal"}
    /\ MaxGen \in Nat \ {0} /\ MaxNodes \in Nat
    /\ Blocks \subseteq Nat /\ IsFiniteSet(Blocks)
    /\ Family \in [Blocks -> {"v4", "v6"}]
    /\ FaultKinds \subseteq AllFaults
    /\ MaxFaults \in Nat

VARIABLES
    instance,   \* the machine's instance at Vultr, and the addresses it reports
    nodeRef,    \* whether the Machine refers to the Node
    node,       \* the Node in the workload cluster
    calico,     \* the Node's IPPool and FelixConfiguration
    blocks,     \* blocks[b]: the BlockAffinity for b
    queued,     \* whether the machine is in the work queue
    pass,       \* the pass over the machine
    faults      \* how many faults have occurred, and how many were races

vars == <<instance, nodeRef, node, calico, blocks, queued, pass, faults>>

-----------------------------------------------------------------------------
(***************************************************************************)
(* Data.                                                                   *)
(***************************************************************************)

\* Each instance has addresses of its own but for the host name.
Host == <<"host", 0>>
Addresses == {Host} \cup (Parts \X (1..MaxGen))
Reported == {Host} \cup {<<p, instance.gen>> : p \in instance.parts}

\* gen is the instance whose kubelet registered the Node.
Nodes == [present : BOOLEAN, uid : 0..MaxNodes, gen : 0..MaxGen,
          addresses : SUBSET Addresses, tainted : BOOLEAN,
          taints : SUBSET OtherTaints, cidrs : SUBSET Blocks]

NoNode == [present |-> FALSE, uid |-> 0, gen |-> 0, addresses |-> {},
           tainted |-> FALSE, taints |-> {}, cidrs |-> {}]

\* Each Calico object is made from one kind of address of its Node.
Kinds == {"IPPool", "FelixConfiguration"}
Source == [IPPool |-> "v6", FelixConfiguration |-> "internal"]
Absent == [owner |-> 0, gen |-> 0]
Unowned == MaxNodes + 1

\* A block is listed from its claim to its release.
Listed == {b \in Blocks : blocks[b] \in {"pending", "confirmed", "leaving"}}
BlockStates == {"unclaimed", "pending", "confirmed", "leaving", "released"}

Steps == {"idle", "get", "status", "taints", "ipPool", "felix", "blocks", "cidrs"}

\* seen is the Node as first read, mine is ctx.Node; version tells whether the
\* next patch carries a resourceVersion and whether it is outdated by now.
Passes == [step : Steps, desired : SUBSET Addresses, seen : Nodes, mine : Nodes,
           version : {"none", "held", "outdated"}, failed : BOOLEAN,
           wanted : SUBSET Blocks]

Idle == [step |-> "idle", desired |-> {}, seen |-> NoNode, mine |-> NoNode,
         version |-> "none", failed |-> FALSE, wanted |-> {}]

TypeOK ==
    /\ instance \in [gen : 1..MaxGen, parts : SUBSET Parts]
    /\ nodeRef \in BOOLEAN
    /\ node \in Nodes
    /\ calico \in [Kinds -> [owner : 0..Unowned, gen : 0..MaxGen]]
    /\ blocks \in [Blocks -> BlockStates]
    /\ queued \in BOOLEAN
    /\ pass \in Passes
    /\ pass.step \notin {"idle", "get"} => pass.seen.present
    /\ pass.step = "cidrs" => pass.wanted # {}
    /\ faults \in [all : 0..MaxFaults, races : 0..MaxFaults]

Fault(kind) ==
    /\ kind \in FaultKinds
    /\ faults.all < MaxFaults
    /\ faults' = [all   |-> faults.all + 1,
                  races |-> faults.races + IF kind = "race" THEN 1 ELSE 0]

Init ==
    /\ instance \in [gen : {1}, parts : SUBSET Parts]
    /\ nodeRef = FALSE
    /\ node = NoNode
    /\ calico = [k \in Kinds |-> Absent]
    /\ blocks = [b \in Blocks |-> "unclaimed"]
    /\ queued = TRUE
    /\ pass = Idle
    /\ faults = [all |-> 0, races |-> 0]

-----------------------------------------------------------------------------
(***************************************************************************)
(* Vultr, the kubelet, Calico and the others in the workload cluster.      *)
(***************************************************************************)

Report(p) ==
    /\ p \notin instance.parts
    /\ instance' = [instance EXCEPT !.parts = @ \cup {p}]
    /\ UNCHANGED <<nodeRef, node, calico, blocks, queued, pass, faults>>

\* The instance is lost, and the controller has made another one.
Replace ==
    /\ instance.gen < MaxGen
    /\ \E p \in SUBSET Parts : instance' = [gen |-> instance.gen + 1, parts |-> p]
    /\ IF pass.step = "idle" THEN UNCHANGED faults ELSE Fault("race")
    /\ queued' = TRUE
    /\ UNCHANGED <<nodeRef, node, calico, blocks, pass>>

\* Someone changes the Node; a pass with a resourceVersion will notice.
Changes(new) ==
    /\ node' = new
    /\ IF pass.step \in {"idle", "get"}
         THEN UNCHANGED <<pass, faults>>
         ELSE IF pass.version = "none"
           THEN Fault("race") /\ UNCHANGED pass
           ELSE pass' = [pass EXCEPT !.version = "outdated"] /\ UNCHANGED faults
    /\ UNCHANGED <<instance, nodeRef, calico, blocks, queued>>

\* The kubelet registers a Node with the cloud provider's taint.
Register ==
    /\ ~node.present
    /\ node.uid < MaxNodes
    /\ \E ts \in SUBSET OtherTaints :
          Changes([NoNode EXCEPT !.present = TRUE, !.uid = node.uid + 1,
                                 !.gen = instance.gen, !.tainted = TRUE, !.taints = ts])

DeleteNode ==
    /\ node.present
    /\ Changes([NoNode EXCEPT !.uid = node.uid])

Retaint(t) ==
    /\ node.present
    /\ Changes([node EXCEPT !.taints = IF t \in @ THEN @ \ {t} ELSE @ \cup {t}])

\* Any other change of the Node, a heartbeat's for one.
Touch ==
    /\ node.present
    /\ pass.version = "held"
    /\ Changes(node)

\* Cluster API finds the Node of the Machine; Machines are watched.
SetNodeRef ==
    /\ ~nodeRef /\ node.present
    /\ nodeRef' = TRUE
    /\ queued' = TRUE
    /\ UNCHANGED <<instance, node, calico, blocks, pass, faults>>

Follows == [unclaimed |-> "pending", pending |-> "confirmed",
            confirmed |-> "leaving", leaving |-> "released", released |-> "released"]

Calico(b) ==
    /\ blocks[b] # "released"
    /\ blocks' = [blocks EXCEPT ![b] = Follows[@]]
    /\ UNCHANGED <<instance, nodeRef, node, calico, queued, pass, faults>>

\* An object whose owner is gone is collected.
Garbage(k) == /\ calico[k].owner \notin {0, Unowned}
              /\ ~(node.present /\ calico[k].owner = node.uid)

Collect(k) ==
    /\ Garbage(k)
    /\ calico' = [calico EXCEPT ![k] = Absent]
    /\ UNCHANGED <<instance, nodeRef, node, blocks, queued, pass, faults>>

Resync ==
    /\ ~queued
    /\ queued' = TRUE
    /\ UNCHANGED <<instance, nodeRef, node, calico, blocks, pass, faults>>

Crash ==
    /\ pass.step # "idle"
    /\ Fault("crash")
    /\ pass' = Idle
    /\ queued' = TRUE
    /\ UNCHANGED <<instance, nodeRef, node, calico, blocks>>

-----------------------------------------------------------------------------
(***************************************************************************)
(* reconcileNode.                                                          *)
(***************************************************************************)

Goes(step) == pass' = [pass EXCEPT !.step = step] /\ UNCHANGED queued

\* An error is retried and RequeueAfter polls; a plain result does neither.
Ends(again) == pass' = Idle /\ queued' = (queued \/ again)

\* The pass has the addresses the instance reports; without a reference to a
\* Node it polls.
Begin ==
    /\ pass.step = "idle" /\ queued
    /\ IF nodeRef
         THEN /\ pass' = [Idle EXCEPT !.step = "get", !.desired = Reported]
              /\ queued' = FALSE
         ELSE Ends(TRUE)
    /\ UNCHANGED <<instance, nodeRef, node, calico, blocks, faults>>

\* Whether a Node that cannot be read is asked for again.
PollsNot == FALSE
Polls == TRUE

NodeGet ==
    /\ pass.step = "get"
    /\ \/ /\ node.present
          /\ pass' = [pass EXCEPT !.step = "status", !.seen = node, !.mine = node]
          /\ UNCHANGED <<queued, faults>>
       \/ ~node.present /\ Ends(Polls) /\ UNCHANGED faults
       \/ Fault("api") /\ Ends(Polls)
    /\ UNCHANGED <<instance, nodeRef, node, calico, blocks>>

\* Whether the API server takes the patch: the Node is there, and is the one
\* the resourceVersion names.
AcceptedBlindly == node.present
Accepted == node.present /\ pass.version # "outdated"

\* What an error makes of the pass.
FailureIgnored == Goes("taints")
Failure == Ends(TRUE)

\* A patch of the Node; its answer becomes ctx.Node.
Patches(new, next) ==
    \/ /\ Accepted
       /\ node' = new
       /\ \/ /\ pass' = [pass EXCEPT !.step = next, !.mine = new, !.version = "held"]
             /\ UNCHANGED <<queued, faults>>
          \/ Fault("lost") /\ Failure
    \/ ~Accepted /\ UNCHANGED <<node, faults>> /\ Failure
    \/ Fault("api") /\ UNCHANGED node /\ Failure

\* nodeutil.PatchNodeStatus replaces all addresses.
PatchNodeStatus ==
    /\ pass.step = "status"
    /\ IF pass.seen.addresses = pass.desired
         THEN Goes("taints") /\ UNCHANGED <<node, faults>>
         ELSE Patches([node EXCEPT !.addresses = pass.desired], "taints")
    /\ UNCHANGED <<instance, nodeRef, calico, blocks>>

\* All taints are replaced by those first read but the cloud provider's.
PatchTaints ==
    /\ pass.step = "taints"
    /\ IF pass.seen.tainted
         THEN Patches([node EXCEPT !.tainted = FALSE, !.taints = pass.seen.taints], "ipPool")
         ELSE Goes("ipPool") /\ UNCHANGED <<node, faults>>
    /\ UNCHANGED <<instance, nodeRef, calico, blocks>>

\* The owner reference of an object made by the pass.
NoOwner == Unowned
Owner == pass.mine.uid

\* An object is created if it is absent and its source address known, and never
\* updated.  An error does not keep the next one from being created.
CreateIfAbsent(k, next) ==
    LET sources == {a \in pass.mine.addresses : a[1] = Source[k]} IN
    /\ \/ /\ sources = {} \/ calico[k] # Absent
          /\ Goes(next) /\ UNCHANGED <<calico, faults>>
       \/ /\ calico[k] = Absent
          /\ \E a \in sources :
                calico' = [calico EXCEPT ![k] = [owner |-> Owner, gen |-> a[2]]]
          /\ \/ Goes(next) /\ UNCHANGED faults
             \/ /\ Fault("lost")
                /\ pass' = [pass EXCEPT !.step = next, !.failed = TRUE]
                /\ UNCHANGED queued
       \/ /\ sources # {}
          /\ Fault("api")
          /\ pass' = [pass EXCEPT !.step = next, !.failed = TRUE]
          /\ UNCHANGED <<calico, queued>>
    /\ UNCHANGED <<instance, nodeRef, node, blocks>>

reconcileIPPool == pass.step = "ipPool" /\ CreateIfAbsent("IPPool", "felix")
reconcileFelixConfiguration ==
    pass.step = "felix" /\ CreateIfAbsent("FelixConfiguration", "blocks")

\* Blocks become pod CIDRs once there are some and all of them are confirmed.
ReadyOnceListed == Listed # {}
ReadyEmpty == \A b \in Listed : blocks[b] = "confirmed"
Ready == Listed # {} /\ \A b \in Listed : blocks[b] = "confirmed"

\* Whether blocks that are not ready are asked for again.
AwaitsNot == FALSE
Awaits == TRUE

\* After an error of the objects above, the certificates or the load balancer
\* the pass is retried.  What is compared is the Node as first read.
BlockAffinities ==
    /\ pass.step = "blocks"
    /\ \/ pass.failed /\ Ends(TRUE) /\ UNCHANGED faults
       \/ ~pass.failed /\ Fault("api") /\ Ends(TRUE)
       \/ /\ ~pass.failed /\ UNCHANGED faults
          /\ \/ ~Ready /\ Ends(Awaits)
             \/ Ready /\ Listed = pass.seen.cidrs /\ Ends(FALSE)
             \/ /\ Ready /\ Listed # pass.seen.cidrs
                /\ pass' = [pass EXCEPT !.step = "cidrs", !.wanted = Listed]
                /\ UNCHANGED queued
    /\ UNCHANGED <<instance, nodeRef, node, calico, blocks>>

First(bs) == CHOOSE b \in bs : \A c \in bs : b <= c

\* The API server lets pod CIDRs be set once, one of each family.
Settable == /\ node.cidrs = {}
            /\ \A b, c \in pass.wanted : Family[b] = Family[c] => b = c

\* A single pod CIDR prevails over a list that begins with another one.
Ignored == Cardinality(node.cidrs) = 1 /\ First(node.cidrs) # First(pass.wanted)

\* The taints this patch may carry along are those its resourceVersion names.
PatchPodCIDRs ==
    /\ pass.step = "cidrs"
    /\ \/ /\ Accepted /\ Settable
          /\ node' = [node EXCEPT !.cidrs = pass.wanted]
          /\ \/ Ends(FALSE) /\ UNCHANGED faults
             \/ Fault("lost") /\ Ends(TRUE)
       \/ Accepted /\ Ignored /\ Ends(FALSE) /\ UNCHANGED <<node, faults>>
       \/ /\ ~Accepted \/ ~(Settable \/ Ignored)
          /\ Ends(TRUE) /\ UNCHANGED <<node, faults>>
       \/ Fault("api") /\ Ends(TRUE) /\ UNCHANGED node
    /\ UNCHANGED <<instance, nodeRef, calico, blocks>>

-----------------------------------------------------------------------------
(***************************************************************************)
(* The specification.                                                      *)
(***************************************************************************)

Works == \/ NodeGet \/ PatchNodeStatus \/ PatchTaints
         \/ reconcileIPPool \/ reconcileFelixConfiguration
         \/ BlockAffinities \/ PatchPodCIDRs

Next == \/ \E p \in Parts : Report(p)
        \/ Replace \/ Register \/ DeleteNode \/ Touch \/ SetNodeRef
        \/ \E t \in OtherTaints : Retaint(t)
        \/ \E b \in Blocks : Calico(b)
        \/ \E k \in Kinds : Collect(k)
        \/ Resync \/ Crash
        \/ Begin
        \/ Works

Spec == Init /\ [][Next]_vars

\* The worker begins and finishes its passes, Cluster API finds the Node, and
\* the workload cluster collects its garbage; no resync is counted on.
FairSpec ==
    /\ Spec
    /\ WF_vars(Begin) /\ WF_vars(Works)
    /\ WF_vars(SetNodeRef)
    /\ \A k \in Kinds : WF_vars(Collect(k))

-----------------------------------------------------------------------------
(***************************************************************************)
(* Properties.                                                             *)
(***************************************************************************)

\* Pods may be scheduled to the Node only once it has its addresses: the cloud
\* provider's taint is not gone from a Node without any, though the two are
\* written one after the other, unless the Node was exchanged in a race.
UntaintedHasAddresses ==
    node.present /\ ~node.tainted => node.addresses # {} \/ faults.races > 0

\* Rewriting the whole list of taints undoes somebody else's change only in a
\* race: one that comes after the first patch of the pass is noticed by its
\* resourceVersion.
KeepsTaints ==
    [][pass' # pass /\ node'.uid = node.uid /\ node'.taints # node.taints
          => pass'.version = "outdated" \/ ~node'.present \/ faults'.races > 0]_vars

\* A pod CIDR is a block that Calico had confirmed for the Node before it was
\* written, whatever became of the block between its reading and the patch.
PodCIDRsConfirmed ==
    \A b \in node.cidrs : blocks[b] \in {"confirmed", "leaving", "released"}

\* Calico objects are never updated, but do not outlive their Node: one made
\* from an instance older than the Node's is about to be collected, but for a
\* pass that raced with the replacement.
CalicoNotOlder ==
    \A k \in Kinds :
        node.present /\ calico[k] # Absent /\ calico[k].gen < node.gen
            => Garbage(k) \/ faults.races > 0

\* Passes keep coming, by resyncs if by nothing else: nothing tells of a Node
\* that registers again, nor of an address reported late.
Revisited == []<>(pass.step = "get")

\* A Node that stays comes to have addresses and to lose the taint: polls and
\* retries see to it for the first Node.
NodeInitialized ==
    <>[](node.present) /\ (Revisited \/ [](node.uid <= 1))
        => <>[](node.addresses # {} /\ ~node.tainted)

AllConfirmed == \A b \in Listed : blocks[b] = "confirmed"

\* A Node that stays comes to have as its pod CIDRs, and to keep, the blocks that
\* stay confirmed, one of each family; polls and retries see to it for the first
\* Node.  The API server sets them once for each Node: so no other blocks may all
\* have been confirmed while it was there, nor may the Node have been exchanged in
\* a race, which may give it those of the Node before.
PodCIDRsArrive ==
    \A u \in 1..MaxNodes : \A bs \in SUBSET Blocks :
        /\ bs # {} /\ \A b, c \in bs : Family[b] = Family[c] => b = c
        /\ <>[](node.present /\ node.uid = u /\ AllConfirmed /\ Listed = bs)
        /\ [](node.uid = u /\ AllConfirmed => Listed \in {{}, bs})
        /\ u = 1 \/ Revisited
        /\ [](faults.races = 0)
        => <>[](node.cidrs = bs)

\* A Node that stays, of an instance that stays and has the address, comes to
\* own its Calico object, be there one of an earlier Node or not.
CalicoFollows ==
    \A k \in Kinds :
        <>[](node.present /\ Source[k] \in instance.parts) /\ Revisited
            => <>[](node.present /\ calico[k].owner = node.uid)
================================================================================
