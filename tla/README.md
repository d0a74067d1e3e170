# Verification of cluster-api-provider-krumkake

`cluster-api-provider-krumkake` is a Cluster API infrastructure provider: a
Kubernetes controller manager that turns `KrumkakeMachine` objects into Vultr
instances, imports `KrumkakeImage` objects into Vultr as the snapshots those
instances boot from, prepares the workload cluster's Nodes, and keeps the
control plane's addresses in a Cloudflare load balancer pool. This directory
holds TLA+ models of it, the TLC configurations that check them on small
instances, and TLAPS proofs. Paths below are relative to `src/`; "cluster
controller:N" is `internal/controller/krumkakecluster_controller.go:N`,
"controller:N" is `internal/controller/krumkakemachine_controller.go:N` and
"image:N" is `internal/controller/krumkakeimage_controller.go:N`.

## 1. Inventory

The manager (`cmd/main.go`) runs three controllers in one process, each with
one worker (no `MaxConcurrentReconciles`), a FIFO work queue that holds an
object at most once, and a shared informer cache. They talk to one another only
through API objects.

| Component | State it keeps | Operations | Talks to |
|---|---|---|---|
| **KrumkakeMachine controller** (controller:68-312, 723-746; `context/machine.go`) | `spec.providerID`, `spec.imageName`, `status.initialization.provisioned`, addresses, server status, finalizer | `Reconcile`, `reconcileNormal`, `reconcileNormalVultr`, `reconcileDelete`, deferred `Patch` | API server through cache and patch; Vultr `InstanceService` (Create, Get, Delete) |
| **KrumkakeImage controller** (image:29-180) | `status.vultr.snapshotID`, `snapshotStatus`, finalizer | `Reconcile`, `reconcileNormal` (none, pending, the rest), `reconcileDelete`, `resolveImageURL` | Vultr `SnapshotService`; lists machines that name the image |
| **Load balancer pool** (controller:600-721, 748-793) | the pool's list of origins at Cloudflare | read, capacity check, join, leave with replacement, write | Cloudflare pools and subscriptions; lists the control plane's Machines |
| **Image selection and wake-ups** (controller:168-205, 823-871; image:69-79, 160-170) | `spec.imageName`, pinned from the selector | pin, wait, wake in both directions | both controllers' queues |
| **Node** (controller:314-427) | the Node's addresses, taints, pod CIDRs | `reconcileNode` | workload cluster's API server |
| **Certificates** (controller:429-522) | conditions of CSRs | `reconcileCertificateSigningRequest` | workload cluster |
| **Calico** (controller:524-598) | `IPPool`, `FelixConfiguration` | create if absent | workload cluster |
| **KrumkakeCluster controller** (`krumkakecluster_controller.go`) | `provisioned`, finalizer | `reconcileNormal`, `reconcileDelete` | API server |
| **Manager** (`cmd/main.go`) | none | start, indexes, restart | all |
| **API types** (`api/v1beta1`) | the schemas | getters | - |

What is hard in it:

- A pass reads a *lagging copy* of its object and acts on it; Vultr's `Create`
  is not idempotent.
- The result of a pass is written back *once, at its end*, by a deferred patch
  whose error is only logged (controller:118-122, image:48-52). The patch is a
  merge patch without resourceVersion, in two requests: metadata and spec,
  then status.
- The user may request deletion, the cloud may lose an instance, and the
  manager may die *between any two steps*.
- What brings the next pass is not uniform: an error is retried, some waits
  are polled (`RequeueAfter`), some rely on an event of another object, and some
  returns (`Result{}, nil`) rely on nothing but the event of the pass's own
  patch.
- The Cloudflare pool is shared, and rewritten as a whole.

What makes each part correct:

- *Machine*: at most one instance per machine, none without an object that
  names it, none created for a machine that has left, none destroyed unless its
  machine is being deleted; deletion and provisioning complete.
- *Image*: likewise for snapshots; a complete image names a snapshot that was
  completed for it; an import moves only forward and ends.
- *Pool*: every machine that finds room joins, every deleted machine's address
  leaves, nobody else's origin is dropped, the account's limit is kept.
- *Selection and wake-ups*: a machine whose image completes is always woken; the
  instance is made from the image that is named.
- *Node*: the taint goes only after the addresses are set; others' taints stay;
  pod CIDRs are confirmed blocks.
- *Calico*: the objects belong to the Node that is there, not to an earlier one.
- *Certificates*: a request is approved only for the node's own names and addresses.
- *Cluster*: the KrumkakeCluster outlives the machines that need it.

The hazards of the code, each at its line, are listed in `PROJECT.json`.

## 2. Plan

| Step | Module | Composes | State |
|---|---|---|---|
| 1 | `KrumkakeMachine` with `MachineContract` (abstract) | - | checked; safety and the refinement proved |
| 2 | `KrumkakeImage` | - | checked; safety proved |
| 3 | `LoadBalancerPool` | - | checked; safety proved |
| 4 | `WorkloadNode`: addresses, taints, pod CIDRs, Calico objects | - | checked; safety proved |
| 5 | `CertificateApproval`: the conditions and the loop of approvals | - | checked; safety proved |
| 6 | `KrumkakeCluster`: order of cluster and machines | outcome of 1 | checked; safety proved |
| 7 | `Provisioning`: selector, pinned name, both wake-ups | outcomes of 1, 2 | checked; safety proved |

Every safety property that a passing run checks (invariant, action property or
refinement) is also a theorem; section 6 gives the arguments. For each module `M`
that needs one, `MInv` holds the inductive invariant and `MProofs` the theorems
(`CertificateApproval` and `KrumkakeCluster` have theirs in `MProofs`). The MC
module of a component extends its `MInv`, so that the invariant can be put into
a configuration and checked on the instance of the run before it is proved;
`KrumkakeImage`, which has no MC module, is checked with `KrumkakeImageInv` instead.

Conventions that keep the modules provable: parameters are CONSTANTS with a
named assumption, one action per operation, invariants are conjunctions of named
parts, no RECURSIVE operators.

## 3. The models

The models of the controllers share one structure.

- `obj` is the API server's state, `cache` the informer's copy, `queue` the work
  queue, `pass` the one worker's pass. A pass holds `base`, the object as read,
  and `view`, what it has made of it. Its steps are the *calls* it makes, one
  action per call; what the code does between two calls is part of the action of
  the first of them.
- `PatchSpec` and `PatchStatus` are the deferred patch. Only fields in which
  `view` differs from `base` are written, over whatever the object has become;
  an object being deleted disappears with its last finalizer.
- `again` tells whether the handler's result puts the object back into the
  queue: an error or `RequeueAfter`, as against `Result{}, nil`.
- *Faults* are counted in `faults` and bounded by `MaxFaults`, each kind can be
  switched on in `FaultKinds`. **Slips** are the faults that disturb the
  controller's own bookkeeping; the safety properties are stated relative to
  their number, so that they hold in every state rather than only in fault-free
  behaviours.

| Fault | Meaning | Slip |
|---|---|---|
| `patch` | one request of the deferred patch fails; the code drops the error | yes |
| `stale` | a pass begins with a copy the API server has left behind | yes |
| `crash` | the manager dies, restarts, lists everything anew | yes |
| `lost` | a call takes effect and its answer is lost | yes |
| `api` | a call fails without effect | no |
| `notfound` | `Create` is answered with a 404 (an unknown snapshot, plan or VPC) | no |
| `fail` | Vultr fails an import | no |
| `vanish` | someone removes the instance or snapshot at Vultr | no |

### KrumkakeMachine

| TLA+ | Code |
|---|---|
| `obj[m]` : phase, finalizer, providerID, provisioned | object, controller:124, 156, 248, 307 |
| `gate[m]` | what controller:77-103 and 137-205 find: "blocked" (owner missing or unreadable, or paused), "waiting" (infrastructure or bootstrap data), "imageless" (secret or image not there yet), "mismatched" (the same, and the image is of another version than the machine), "ready" |
| `ReconcileNothing`, `ReconcileFinalizer`, `reconcileDelete`, `reconcileNormal` | the branches of `Reconcile` up to the first call |
| `InstanceCreate`, `InstanceGet` | controller:207-312; reconcileNode is the choice of `again` |
| `reconcileLoadBalancer`, `FindForDelete`, `InstanceDelete` | controller:723-745 |
| `PatchSpec`, `PatchStatus` | controller:118-122, `context/machine.go:34-42` |
| `OwnerChange`, `Heard` | controller:795-900: which changes of the owners queue the machine; of an image only its completion, for machines of its version |
| `CacheSync`, `Resync`, `Crash` | the informer, `cmd/main.go:125-132, 201-205` |

`MachineContract` is the abstract specification: for each machine its phase and
the set of its running instances. It promises that a machine acquires an
instance only while it is there and has none, releases it only while being
deleted, and leaves only without it; a counted mishap may take the instance
away. The promise holds until the first slip: `disturbed` is mapped to whether one
has occurred, and from then on the contract allows everything (what remains true
then is `LeakBound`). `Contract` in `KrumkakeMachine` is the refinement mapping.

Abstracted: the values of addresses, sizes and statuses; the selection of the
image; pagination and request parameters. "installing" is every server status
before "ok". A status other than "ok" is polled, as in the code.

### KrumkakeImage

`obj[k]` carries the finalizer, `snapshotID` and `snapshotStatus`; `wanted[k]`
is whether the index lookup at image:69-79 finds a hosted machine. Actions:
`resolveImageURL`, `SnapshotCreate`, `SnapshotGet`, `SnapshotDelete`, and the
patch. `completed` in a snapshot remembers that Vultr did complete it, for
`CompleteIsReal`.

### LoadBalancerPool

`machine[m]` and `infra[m]` are the Cluster API Machine and its KrumkakeMachine,
each with a watch stream of its own (`cache[m]` has two parts that lag
separately): the pass reads the deletion timestamp of one, and the addresses and
the candidates for replacement from the other. `pool` is the set of the origins'
addresses, `others` the number of origins in the account's other pools. A
machine's name in `Machines` is also its host name, which counts as one of its
addresses, as in controller:616. Steps of a pass: `PoolGet`,
`hasLoadBalancerEndpointCapacity`, `Replace`, `PoolEdit`, and `Release` for the
rest of `reconcileDelete`.

Slips here are `stale`, `readdress` (an address changes under an existing
origin) and `direct` (the KrumkakeMachine is deleted, its Machine is not); a
`race` is someone else's change of origins between a pass's first read and its
write. `TakesEmpty` says whether Cloudflare takes an origin with an empty address,
which controller:708-711 may send. That such an origin, and every replacement,
carries the leaving machine's name (controller:710) is abstracted with the names.
A pass may begin at any time the worker is idle: the queue is left out, so every
wake-up the code has, and more, is covered by the safety runs.

### WorkloadNode

`reconcileNode` for one machine, whose instances (`instance.gen`) and Nodes
(`node.uid`) may follow one another under the same name. A pass keeps `seen`, the
Node as read at controller:345, and `mine`, which is `ctx.Node`; `version` tells
whether the next patch carries a resourceVersion. That follows from the code: each
patch is the difference of `node` and `ctx.Node`, and after the first patch
`ctx.Node` is the API server's answer, whose resourceVersion differs from what was
read. So the first patch of a pass is blind and the later ones are not.

| TLA+ | Code |
|---|---|
| `Begin`, `NodeGet` | controller:314-357 |
| `PatchNodeStatus`, `PatchTaints` | controller:358-378 |
| `reconcileIPPool`, `reconcileFelixConfiguration` | controller:524-598; `failed` is the error `errors.Join` keeps while the next one runs |
| `BlockAffinities`, `PatchPodCIDRs` | controller:380-426 |

External, from how Kubernetes answers these calls: a patch with an outdated
resourceVersion is a conflict; pod CIDRs can be set once, one of each family, and
a list that contradicts a single `podCIDR` is ignored; objects whose owner is
gone are collected. The certificates and the load balancer, which the pass also
runs through (381, 384), have modules of their own.

### CertificateApproval

One Node's requests, in the order they are listed. `Approvable` is the chain of
`continue`s at controller:437-506, by `Open`, `WellFormed` and `Within`;
`UpdateApproval` is one turn of the loop and `Finish` the rest of the pass.
A request is a record of the fields that are compared; `readable` stands for PEM
and X.509. External: an approval with an outdated resourceVersion, or of a denied
request, is refused; a request expires and its name is not used again.

### KrumkakeCluster

`cluster` is Cluster API's Cluster, `infra` the KrumkakeCluster, `machine[m]` a
KrumkakeMachine by phase, finalizer and whether its instance runs. `cache` holds
copies of the first two that lag separately. `InfraEvent` and `ClusterEvent` are
deliveries to the cache with the filters and mapping functions of both
controllers (cluster controller:91-107, controller:795-821, 873-900); `Reconcile`
and `Patch` the pass; `MachineStops` and `MachineReconciles` the machine
controller's pass by what it reads (controller:72-139). Cluster API's part is
external: it sets the owner reference, copies `provisioned`, and deletes machines
before the KrumkakeCluster. The fault `direct` is the KrumkakeCluster being deleted
out of that order.

### Provisioning

Both controllers, each with its queue, over one pair of caches. `Candidates` is
the choice at controller:168-201 (the list has no order), `SelectImage` the pass
up to Create, `Patch` its deferred patch with the pinned name and the ID together;
`KrumkakeImageToKrumkakeMachines` and `KrumkakeMachineToKrumkakeImages` are the
mapping functions, `NamedBySome` the index of `cmd/main.go:149-160`.
`ImageReconcile` is the image controller by the outcome of its passes. The
resync is one action per object (`ResyncMachine`, `ResyncImage`), each with a
fairness of its own, so that what wakes one machine is not credited to another.
`faults.stale` counts the passes that began with an outdated copy of the machine;
copies of images may lag freely.

## 4. What the runs show

| Run | Module | Instance | Shows |
|---|---|---|---|
| `machine_faults` | `MCKrumkakeMachine` | 2 machines (1 hosted) whose owners are ready, 3 IDs, 2 faults of any kind | `LeakBound`: each slip leaks at most one instance and nothing else does. `CreatesOnlyForPresent`: no instance is created for a machine that has left |
| `machine_liveness` | `MCKrumkakeMachine` | 1 machine, owners blocked, ready or without an image, of its version or another, 3 IDs, 2 faults of any kind | the controller implements `MachineContract` until the first slip; no instance is destroyed unless its machine's deletion was requested; deletion and provisioning complete |
| `machine_finalizer` | `MCKrumkakeMachine` | 1 machine, 1 dropped patch | **violation**: a machine leaves while its instance runs |
| `image_faults` | `KrumkakeImage` | 1 image, 3 IDs, 2 faults of any kind | `LeakBound`, `CompleteIsReal`, `ImportMovesForward`, `DestroysOnlyDeleted`; imports and deletions end, a deletion but for a snapshot that disappeared first |
| `image_stuck` | `KrumkakeImage` | 1 image, 1 dropped patch | **violation**: deletion never completes |
| `pool_faults` | `MCLoadBalancerPool` | 2 machines, 2 IPs, 1 foreign origin, room for 2, 2 faults of any kind | `StrayBound`, `OverrunBound`, `KeepsOthers` |
| `pool_liveness` | `MCLoadBalancerPool` | 2 machines, room for 1, 1 fault of any kind, empty addresses refused | machines with room join, deleted machines leave |
| `node_faults` | `MCWorkloadNode` | 2 instances, 2 Nodes, 1 foreign taint, 2 faults of any kind | `UntaintedHasAddresses`, `CalicoNotOlder`, `KeepsTaints`: what is not guaranteed takes a race with a patch that has no resourceVersion; a Node that stays is initialised and comes to own its Calico objects |
| `node_blocks` | `MCWorkloadNode` | 1 instance, 2 Nodes, 2 blocks of one family, 2 faults of any kind | pod CIDRs are confirmed blocks; those that stay confirmed arrive and stay |
| `csr_approval` | `MCCertificateApproval` | 2 requests out of 3 of the Node's and 8 near misses, 2 instances, 2 faults of any kind | `ApprovesOwn`; requests are answered and passes get past their approvals, but for a denied request in the way |
| `cluster_faults` | `KrumkakeCluster` | 1 machine, 2 faults of any kind | `RunsOnlyAdopted`; machines are provisioned and leave, the Cluster leaves, but for a KrumkakeCluster deleted directly |
| `provision_faults` | `MCProvisioning` | 2 machines, one of them naming an image of another version, 2 images, 2 faults of any kind | `PinnedIsUsed`, `ImportBound`; each machine that is served gets its instance |

**Bounds.** Two faults are what the interesting combinations need: a slip that
makes the copy wrong and a second fault while it is wrong. A slip uses up at most
one ID, so that two faults and three IDs always leave one to create. Two machines
(one not hosted) are enough for one worker that handles one machine at a time:
machines meet only in the queue and in Vultr's ID space, and the proofs below lift
the bound for the safety properties; one image is enough for the same reason. In
`pool_faults` two machines give a leaving machine and its replacement, and a limit
of 2 is reached and exceeded; in `pool_liveness` room for one makes the two
compete. IDs, machines and addresses are symmetric where a run says so; symmetry
is used only in runs without liveness.

`CompleteIsReal` is stated for at most one slip, and that is tight: with two
(a dropped or stale copy, then another) a status of one snapshot can meet the
ID of another, because each field is patched against the copy the pass read.

In `WorkloadNode` two instances and two Nodes are the least in which something of
an earlier one is left. Blocks and the replacement of instances do not interact,
so `node_faults` has no blocks and `node_blocks` one instance; two blocks of one
family are what the API server refuses. Both kinds of addresses that Calico objects
are made from occur in `node_faults`. One machine suffices for
`KrumkakeCluster`: machines meet only in the condition that all of them are gone;
the proof holds for any set. In `provision_faults` one machine selects among two
images, so that a second choice differs from the first, and the other names one of
them from another version.

Six restrictions are part of the properties, and the models show that they are
needed. A machine does not leave after its KrumkakeCluster was deleted directly
(`DeletionsEnd`). A denied request for the Node holds up the requests after it and
the pod CIDRs until it expires (`RequestsAnswered`, `PodCIDRsReached`). A snapshot
that disappeared makes the deletion of its image retry for ever (`DeletionEnds`).
Where Cloudflare refuses empty addresses, a Machine that never gets one, for
instance because its KrumkakeMachine was deleted directly, keeps the others from
leaving the pool (`MachineLeaves`). An image of another version than the machine
that waits for it does not wake it when it completes (controller:843), so that only
the resync does (`ProvisioningCompletes`, `GetsInstance`: both assume for such a
machine, and for it alone, that it is queued again and again). And since the API
server sets pod CIDRs once for each Node, blocks confirmed later, or after others
were given up, never become pod CIDRs of a Node that has some: the patch of
controller:414-426 is refused and retried for ever, or silently ignored
(`PodCIDRsArrive` holds for blocks that are the only ones all confirmed while
the Node is there, and unless the Node was exchanged in a race, under a pass that
may then give it the earlier Node's blocks).

**Deadlock** is checked except in `machine_faults` and `machine_finalizer`, where
the owners never change: nothing is left to do once the machines are gone and the
faults are spent.

## 5. Fairness

- `WF(Works)`: the worker finishes the pass it began; every call returns.
- `SF(Begin(m))`: the work queue is first-in first-out and an object stays in
  it until it is taken, so it is not passed over for ever. Strong fairness,
  because `Begin` is disabled whenever the worker is busy.
- `WF(CacheSync(m))`: the watch stream delivers.
- `WF(InstanceReady)`, `WF(SnapshotComplete)`: Vultr finishes what it began.
- The periodic resync (controller-runtime's default of 10 hours;
  `cmd/main.go:125-132` sets no other) is counted on only after a fault dropped
  work without an error: `WF(faults.dropped /\ Resync)`, where `dropped` is set by
  a dropped patch and, for machines, by a 404 of `Create`, which ends the pass
  without an error. So in all other behaviours the liveness properties show what
  the code's own wake-ups achieve.
- Nothing is assumed of the user or of faults. `DeletionCompletes` of machines
  assumes that the owners do not stay blocked, because the code stops before
  its deletion branch then (controller:77-103).
- `WorkloadNode` has no fair resync at all. It adds that Cluster API finds the Node
  and that garbage is collected. What nothing tells the controller of, a Node that
  registers again or an address reported late, is in the properties: they assume
  `Revisited`, that passes keep coming, or that only one Node registers.
- `CertificateApproval` assumes the retry of errors only. Requests are not watched,
  so `RequestsAnswered` assumes that passes keep coming (`[]<>queued`);
  `PodCIDRsReached` does not.
- `KrumkakeCluster` adds Cluster API's own steps: it sets the owner reference,
  copies `provisioned`, and deletes what belongs to an unpaused Cluster being
  deleted.
- In `Provisioning` a machine is taken from the queue in its turn (`SF`), an image
  likewise; each kind of object has one watch stream. A machine that names an image
  of another version is woken by nothing when that completes (controller:843);
  `GetsInstance` assumes for it alone that passes keep coming. Premise,
  conclusion and resync are per machine, so that the other machines have only their
  own events to rely on. In the same way `ProvisioningCompletes` relies on the
  events of `OwnerChange` unless the machine's image was "mismatched".
- In `LoadBalancerPool` the queue is left out and a pass may begin at any time, so
  that liveness there says what passes achieve, however they are brought about: a
  machine refused for lack of room returns no error (controller:661-663) and
  relies on the resync. Cluster API is assumed to delete the infrastructure of a
  Machine that is being deleted.

## 6. What is proved

The theorems hold for every value of the constants that the module's
`ConstantsAssumption` allows: any set of machines, images, IDs, requests or
blocks, any choice of the faults that may occur and any `MaxFaults`. None of the
properties below is inductive by itself, except where it says so. Three patterns
come back:

- *Copies are ordered.* Each object moves only forward, and of the pass's base,
  the cache's copy and the API server's object none is ahead of a later one. So a
  stale copy still proves something about the object: that it was once so, and
  what could not have been undone since.
- *What a step is about to do has been checked.* A pass carries what it read past
  the check; the invariant says what of the check is still true when it is used.
- *Debts.* A bound such as "each slip leaks at most one instance" is broken for
  a moment by the slip's late consequence: a stale pass is counted when it begins and
  does its damage when it patches. The invariant therefore counts both what is lost
  and what the pass under way may yet lose: `Cardinality(lost) + Debt <= slips`.
  Each proof goes by action: the step adds nothing (lemmas `NothingLeaks`,
  `NoneOrphaned`), or it adds one that is paid for by a slip or by the debt
  (`OneLeaks`, `OneOrphaned`).

### KrumkakeMachine

`KrumkakeMachineProofs`:

| Theorem | Statement |
|---|---|
| `TypeCorrect` | `Spec => []TypeOK` |
| `SafetyInvariance` | `Spec => []SafetyInv` |
| `CreatesOnlyForPresentHolds` | `Spec => []CreatesOnlyForPresent` |
| `DestroysOnlyDeletedHolds` | `Spec => DestroysOnlyDeleted` |
| `LeakInvariance` | `Spec => []LeakInv` |
| `LeakBoundHolds` | `Spec => []LeakBound` |

`SafetyInv` (in `KrumkakeMachineInv`) adds to the types:

- `Ordered`: an object moves from live to deleting to gone, and of the pass's
  base, the cache's copy and the API server's object none is ahead of a later one;
- `Guarded`: a copy that is live and holds the finalizer proves that the object
  still holds it. This is why staleness never makes the controller work for a
  machine that has left: the finalizer is only taken away by a pass whose base is
  deleting, and from then on no copy is live;
- `Dispatched`: what the branches on the way to a step have established;
- `Owned`: a copy names only an instance that was created for its machine.

`LeakInv` adds `Protected` (a named instance's object holds the finalizer),
`Settled` (what the pass about to patch may have changed) and `Accounted`, the debt
argument.

`MachineContractProofs` extends it with the refinement:

| Theorem | Statement |
|---|---|
| `ImplementsContractHolds` | `Spec => ImplementsContract` |
| `OneInstancePerMachine` | `Spec => [](faults.slips = 0 =>` two running instances of one machine are the same`)` |
| `FinalizerCleansUpUntilSlip` | `Spec => [](faults.slips = 0 => FinalizerCleansUp)` |

`ImplementsContractHolds` is proved one action at a time, each being mapped to a
step of the contract or a stutter: `InstanceCreate` to `Acquire`, `InstanceDelete` to
`Release`, the `PatchSpec` that removes the object to `Leave`, `RequestDeletion`
to `Request`, `Vanish` and refused calls to `Mishap`. The lemma that carries them is
`RunsNamed`: with no slips `LeakInv` leaves no room for a leak or a debt, so each
running instance is named by its own machine's object, or is in the hands of the pass
that has just created it, and that object is there and holds its finalizer. Hence
`Create` finds nothing running, and the patch that takes the last finalizer away
leaves nothing behind. The last theorem sets the run `machine_finalizer` in
its place: the documented promise is broken only after a slip.

### KrumkakeImage

`KrumkakeImageProofs`:

| Theorem | Statement |
|---|---|
| `SafetyInvariance` | `Spec => []SafetyInv` |
| `TypeCorrect` | `Spec => []TypeOK` |
| `DestroysOnlyDeletedHolds` | `Spec => DestroysOnlyDeleted` |
| `CompleteInvariance` | `Spec => []CompleteInv` |
| `CompleteIsRealHolds` | `Spec => []CompleteIsReal` |
| `ImportMovesForwardHolds` | `Spec => ImportMovesForward` |
| `LeakInvariance` | `Spec => []LeakInv` |
| `LeakBoundHolds` | `Spec => []LeakBound` |
| `OneSnapshotPerImage` | `Spec => [](faults.slips = 0 =>` two snapshots of one image are the same`)` |
| `FinalizerCleansUpUntilSlip` | `Spec => [](faults.slips = 0 =>` an image that is gone has no snapshot`)` |

`SafetyInv` is that of machines, with two additions. `Coherent` says that the ID and
the status of a copy, though patched field by field, never contradict each other;
without it a pass could ask Vultr about a pending import that has no ID, so that even
`TypeOK` needs the whole of `SafetyInv`. `Settled` lists what a pass may have made of
the image it read.

`CompleteIsReal` and `ImportMovesForward` are about *how old* a pass is. `Descends`
relates a copy to what the object has become since: unchanged, further on in the
same import, or gone. `Synced` says that before the first slip every pass goes by
the object as it is and every copy is one it descends from, and that one slip
takes away the first only. `Real` then has a completion written next to the ID it
belongs to. With a second slip both break, which is why `CompleteIsReal` stops at one.

`LeakInv` is the debt argument for snapshots. The debt lasts longer than for machines:
the ID is part of the status, which is patched last. The last two theorems follow from
it by the lemma `ExistsNamed`, as for machines: with no slips a snapshot that exists is
named by its image's object or in the hands of the pass that has just imported it.

### LoadBalancerPool

`LoadBalancerPoolProofs`:

| Theorem | Statement |
|---|---|
| `TypeCorrect` | `Spec => []TypeOK` |
| `Invariance` | `Spec => []PoolInv` |
| `OverrunBoundHolds` | `Spec => []OverrunBound` |
| `KeepsOthersHolds` | `Spec => KeepsOthers` |
| `DebtInvariance` | `Spec => []DebtInv` |
| `StrayBoundHolds` | `Spec => []StrayBound` |

`Fits` makes the limit inductive: between the check and the write the list that will
be written grows by at most one, and every origin somebody else adds meanwhile is
counted as a race. `Complete` says that, without a race, the list a pass writes back
holds all that is in the pool by now but what it means to take away; `Knows` that,
without a slip, it knows its machine's address; `Unique` that no two machines have the
same one. Together they give `KeepsOthers`.

`StrayBound` has the widest debt, because an address may become stray in four ways:
`Astray` is what is stray in the pool or will be with the pass's write; `Outdated` what
another pass may yet add by the copy of a machine that has left or changed its
address; `Orphaned` the addresses of infrastructure deleted without its Machine; and
`Forgotten` the one that the pass under way will set free without having taken it
from the pool. `DebtInv` bounds the union of the four by the slips.

### WorkloadNode

`WorkloadNodeProofs`:

| Theorem | Statement |
|---|---|
| `TypeCorrect` | `Spec => []TypeOK` |
| `Invariance` | `Spec => []NodeInv` |
| `UntaintedHasAddressesHolds` | `Spec => []UntaintedHasAddresses` |
| `PodCIDRsConfirmedHolds` | `Spec => []PodCIDRsConfirmed` |
| `CalicoNotOlderHolds` | `Spec => []CalicoNotOlder` |
| `KeepsTaintsHolds` | `Spec => KeepsTaints` |

The heart is `Versions`: before the first patch of a pass, when it has no
resourceVersion, the Node is what the pass read or a race was counted; afterwards,
the Node is the answer to its last patch, or the version is outdated and the next
patch will be refused. `Desires` and `Given` say that what the pass means to write
comes from the present instance and, past the first patch, is on the Node;
`Derived` relates each Calico object to the Node that owns it and to the
instance it was made from. `PodCIDRsConfirmed` becomes inductive with what the
pass is about to write (`Confirmed`).

### CertificateApproval

`CertificateApprovalProofs`:

| Theorem | Statement |
|---|---|
| `TypeCorrect` | `Spec => []TypeOK` |
| `ApprovesOwnHolds` | `Spec => ApprovesOwn` |

`Judged`: whatever a pass has left to approve passed the tests for the addresses the
Node still has, or these changed under a pass. `ApprovableProves` is what the
chain of `continue`s is for: a request that passes them all speaks for the Node
and nothing else. That the loop's next request is one of those left needs a least
element of a set of numbers; the induction it takes is in the library's theorem on
strict subsets.

### KrumkakeCluster

`KrumkakeClusterProofs`:

| Theorem | Statement |
|---|---|
| `TypeCorrect` | `Spec => []TypeOK` |
| `AdoptionInvariance` | `Spec => []AdoptionInv` |
| `RunsOnlyAdoptedHolds` | `Spec => []RunsOnlyAdopted` |

That an instance runs only under an adopted KrumkakeCluster is not inductive: a
machine begins to run by a copy of the Cluster, whose `provisioned` came from the
KrumkakeCluster, where a pass set it that went by a copy of that. `AdoptionInv`
follows the chain backwards. `Held` (gone, external, or with the finalizer) and
`Claimed` (gone, or with the owner reference) are stable, because the finalizer is
taken away only together with the object; `Evidence` says that each link of the
chain (a copy with the finalizer, a pass about to provision, `provisioned` in either
object or copy, a running machine) implies `Held`, and each decision to patch implies
`Claimed`. The lemmas describe what one step may make of each variable, and
`StepInv` combines them. `TypeOK` is proved along with it: its conjunct about
a pass that will patch is `Claimed`.

### Provisioning

`ProvisioningProofs`:

| Theorem | Statement |
|---|---|
| `BaseInvariance` | `Spec => []BaseInv` |
| `TypeCorrect` | `Spec => []TypeOK` |
| `PinInvariance` | `Spec => []PinInv` |
| `PinnedIsUsedHolds` | `Spec => []PinnedIsUsed` |
| `OrphanInvariance` | `Spec => []OrphanInv` |
| `ImportBoundHolds` | `Spec => []ImportBound` |

`Kept`: a pinned name may be exchanged but is never taken back, so a copy with a
name proves that the machine has one. `Current`: without a stale pass, the pass
under way began with the name its machine still has, so that the name it pins
replaces nothing. `Orphans` counts the images that are imported for nobody *or may
still be, because a copy in the cache names them*: an import begun by a lagging copy
was then accounted for when the name was exchanged.

### Assumptions

Beyond distinctness of names and the kinds of faults, the proofs use that the foreign
origins, the blocks and the requests are finite sets (what an account and a cluster
can hold), that a machine has at least one instance (`MaxGen` is the number of its instances, the first of
which is there from the start), and that the empty string is neither a machine nor an
image (the API server admits no empty names). The sets of machines, images and IDs may be
infinite. TLC evaluates the assumptions with every run.

### Only model-checked

The liveness properties: `DeletionCompletes` and `ProvisioningCompletes`,
`ImportEnds` and `DeletionEnds`, `MachineJoins` and `MachineLeaves`,
`NodeInitialized`, `CalicoFollows` and `PodCIDRsArrive`, `RequestsAnswered` and
`PodCIDRsReached`, `MachinesProvision` and `DeletionsEnd`, `GetsInstance`. They rest
on fairness, which is out of the prover's reach. No module declares a RECURSIVE
operator.

## 7. Not modelled

- In `KrumkakeMachine`, every change of a Machine, a Cluster or a KrumkakeCluster
  that matters to a pass queues the machine; the filters and copies their events go
  through are in `KrumkakeCluster`.
- An edit of `spec.imageName` or of a version by a user, and the deletion of a
  machine while it waits for its image (`Provisioning`).
- An approval by somebody else, and requests of other signers.
- A `paused` annotation on the machine itself or on another watched object, whose
  events a predicate filters out (controller:881); a paused cluster is "blocked".
- Two managers at a time (`--leader-elect` is off by default, `cmd/main.go:59`):
  the models have one worker per controller.
- Templates, generated code, flags, certificates and metrics: no behaviour of
  their own.

## 8. Disagreements with the documentation

The two violation runs contradict comments of the API types; each is listed
under "findings" in `PROJECT.json` with the quoted line:

1. `krumkakemachine_types.go:9`: the finalizer is said to allow clean-up before
   removal; a dropped patch (controller:118-122) defeats it (`machine_finalizer`).
2. `krumkakeimage_types.go:9`: the finalizer is said to be there to clean up
   before removal; after a dropped patch the image is never removed
   (`image_stuck`).

Two more observations that no run is about, but that are worth knowing:
`provisioned` is set once (controller:148, 307) and survives the loss of the
instance (239-242), and an image pinned from the selector (197) is used even if its
labels stop matching before the instance is made.

## Running

    tlc -config machine_faults.cfg MCKrumkakeMachine.tla
    tlapm MachineContractProofs.tla

The table of section 4 names the module of each configuration; the modules with
proofs are those whose names end in `Proofs`. `MachineContractProofs` extends
`KrumkakeMachineProofs` and cites its theorems; their proofs are checked with that
module.
