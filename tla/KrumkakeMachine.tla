---------------------------- MODULE KrumkakeMachine ----------------------------
(***************************************************************************)
(* The KrumkakeMachine controller: the objects in the API server, the      *)
(* informer cache the controller reads, its work queue, its single worker, *)
(* and the Vultr instances it creates and deletes.                         *)
(*                                                                         *)
(* A reconcile pass is a sequence of steps: it reads the object from the   *)
(* cache, calls Vultr and Cloudflare one call at a time, and only at its   *)
(* end, in a deferred call, patches what it changed back to the API        *)
(* server: first metadata and spec, then status.  An error of that patch   *)
(* is logged and dropped.  Between any two steps the user, the cloud, the  *)
(* watch stream or a crash may move.                                       *)
(***************************************************************************)
EXTENDS Naturals, FiniteSets

CONSTANTS
    Machines,     \* KrumkakeMachine objects, one identity (UID) each
    Hosted,       \* those with spec.vultr.region set
    Ids,          \* instance IDs Vultr can hand out
    None,         \* the empty string
    Foreign,      \* a providerID that does not begin with "vultr://"
    Gates,        \* the conditions of the owner objects that may occur
    FaultKinds,   \* the faults that may occur
    MaxFaults     \* bound: how many faults occur in one behaviour

\* No bootstrap secret or no complete image; if "mismatched", an image of another
\* version than the machine's.
Imageless == {"imageless", "mismatched"}

GateValues == {"blocked", "waiting", "ready"} \cup Imageless

\* Slips disturb the controller's own bookkeeping; the other faults do not.
Slips == {"patch", "stale", "crash", "lost"}
AllFaults == Slips \cup {"api", "notfound", "vanish"}

\* Drops end a pass with work undone and tell nobody.
Drops == {"patch", "notfound"}

ASSUME ConstantsAssumption ==
    /\ Hosted \subseteq Machines
    /\ None \notin Machines \cup Ids
    /\ Foreign \notin Ids
    /\ None # Foreign
    /\ Gates \subseteq GateValues
    /\ FaultKinds \subseteq AllFaults
    /\ MaxFaults \in Nat

VARIABLES
    obj,        \* obj[m]: the KrumkakeMachine as the API server stores it
    cache,      \* cache[m]: the copy in the manager's informer cache
    queue,      \* the machines in the controller's work queue
    gate,       \* gate[m]: what the pass finds when it reads the owner objects
    pass,       \* the reconcile pass of the controller's one worker
    instance,   \* instance[i]: the Vultr instance with ID i
    faults      \* how many faults have occurred, how many were slips, and
                \* whether one dropped work without an error
vars == <<obj, cache, queue, gate, pass, instance, faults>>

-----------------------------------------------------------------------------
(***************************************************************************)
(* Data.                                                                   *)
(***************************************************************************)

\* An object is live, then has a deletionTimestamp, then is gone.
Phases == {"live", "deleting", "gone"}

Objects == [phase : Phases, finalizer : BOOLEAN,
            providerID : Ids \cup {None, Foreign}, provisioned : BOOLEAN]

Gone == [phase |-> "gone", finalizer |-> FALSE,
         providerID |-> None, provisioned |-> FALSE]

\* "installing" stands for every server status before "ok".
Instances == [owner : Machines \cup {None},
              state : {"unused", "installing", "ok", "gone"}]

Alive(i) == instance[i].state \in {"installing", "ok"}

Steps == {"idle", "create", "get", "detach", "find", "destroy",
          "patchSpec", "patchStatus"}

\* base is the object as the pass read it, view is what it has made of it.
Passes == [step : Steps, machine : Machines \cup {None},
           base : Objects, view : Objects, again : BOOLEAN]

Idle == [step |-> "idle", machine |-> None,
         base |-> Gone, view |-> Gone, again |-> FALSE]

TypeOK ==
    /\ obj \in [Machines -> Objects]
    /\ cache \in [Machines -> Objects]
    /\ queue \subseteq Machines
    /\ gate \in [Machines -> GateValues]
    /\ pass \in Passes
    /\ pass.step # "idle" => pass.machine \in Machines
    /\ pass.step \in {"get", "find", "destroy"} => pass.view.providerID \in Ids
    /\ instance \in [Ids -> Instances]
    /\ faults \in [all : 0..MaxFaults, slips : 0..MaxFaults, dropped : BOOLEAN]
    /\ faults.slips <= faults.all

Fault(kind) ==
    /\ kind \in FaultKinds
    /\ faults.all < MaxFaults
    /\ faults' = [all     |-> faults.all + 1,
                  slips   |-> faults.slips + IF kind \in Slips THEN 1 ELSE 0,
                  dropped |-> faults.dropped \/ kind \in Drops]

Init ==
    /\ obj \in [Machines -> {[phase |-> "live", finalizer |-> FALSE,
                              providerID |-> p, provisioned |-> FALSE]
                              : p \in {None, Foreign}}]
    /\ cache = obj
    /\ queue = Machines
    /\ gate \in [Machines -> Gates]
    /\ pass = Idle
    /\ instance = [i \in Ids |-> [owner |-> None, state |-> "unused"]]
    /\ faults = [all |-> 0, slips |-> 0, dropped |-> FALSE]

-----------------------------------------------------------------------------
(***************************************************************************)
(* The user, the watch stream and the cloud.                               *)
(***************************************************************************)

\* The user, or Cluster API, deletes the object: with a finalizer the API
\* server only sets the deletionTimestamp.
RequestDeletion(m) ==
    /\ obj[m].phase = "live"
    /\ obj' = [obj EXCEPT ![m] = IF obj[m].finalizer
                                   THEN [obj[m] EXCEPT !.phase = "deleting"]
                                   ELSE Gone]
    /\ UNCHANGED <<cache, queue, gate, pass, instance, faults>>

\* Which changes queue the machine: those of its Machine, its Cluster and its
\* KrumkakeCluster, but of an image only the completion, and only for machines
\* of the image's version.  (A secret is not watched but asked for again.)
Heard(m, g) == \/ ~({gate[m], g} \subseteq Imageless \cup {"ready"})
               \/ gate[m] = "imageless" /\ g = "ready"

\* The Machine, Cluster, KrumkakeCluster or KrumkakeImage changes.
OwnerChange(m) ==
    /\ \E g \in Gates \ {gate[m]} :
          /\ gate' = [gate EXCEPT ![m] = g]
          /\ queue' = queue \cup {n \in {m} : Heard(m, g)}
    /\ UNCHANGED <<obj, cache, pass, instance, faults>>

\* The informer delivers the current object and its event queues it.
CacheSync(m) ==
    /\ cache[m] # obj[m]
    /\ cache' = [cache EXCEPT ![m] = obj[m]]
    /\ queue' = queue \cup {m}
    /\ UNCHANGED <<obj, gate, pass, instance, faults>>

\* The informer's periodic resync queues every object it holds.
Resync(m) ==
    /\ cache[m].phase # "gone"
    /\ m \notin queue
    /\ queue' = queue \cup {m}
    /\ UNCHANGED <<obj, cache, gate, pass, instance, faults>>

InstanceReady(i) ==
    /\ instance[i].state = "installing"
    /\ instance' = [instance EXCEPT ![i].state = "ok"]
    /\ UNCHANGED <<obj, cache, queue, gate, pass, faults>>

\* Someone destroys the instance behind the controller's back.
Vanish(i) ==
    /\ Alive(i)
    /\ Fault("vanish")
    /\ instance' = [instance EXCEPT ![i].state = "gone"]
    /\ UNCHANGED <<obj, cache, queue, gate, pass>>

\* The manager dies and starts again: the cache is listed afresh and every
\* listed object is queued.
Crash ==
    /\ Fault("crash")
    /\ pass' = Idle
    /\ cache' = obj
    /\ queue' = {m \in Machines : obj[m].phase # "gone"}
    /\ UNCHANGED <<obj, gate, instance>>

-----------------------------------------------------------------------------
(***************************************************************************)
(* Reconcile: how a pass begins, by what it reads.                         *)
(***************************************************************************)

\* The worker takes m and reads it from the cache; reading a copy the API
\* server has already left behind counts as a fault.
Picks(m) ==
    /\ pass.step = "idle"
    /\ m \in queue
    /\ IF cache[m] = obj[m] THEN UNCHANGED faults ELSE Fault("stale")
    /\ UNCHANGED <<obj, cache, gate, instance>>

Starts(m, step, view, again) ==
    /\ pass' = [step |-> step, machine |-> m, base |-> cache[m],
                view |-> view, again |-> again]
    /\ queue' = queue \ {m}

\* The object is gone, or an owner object is missing or paused.  A missing
\* KrumkakeMachine or KrumkakeCluster and a pause end the pass for good; an
\* unreadable Machine or Cluster is an error, and the queue retries it.
ReconcileNothing(m) ==
    /\ Picks(m)
    /\ \/ cache[m].phase = "gone" /\ queue' = queue \ {m}
       \/ /\ cache[m].phase # "gone" /\ gate[m] = "blocked"
          /\ \E retried \in {{}, {m}} : queue' = (queue \ {m}) \cup retried
    /\ UNCHANGED pass

Reconcilable(m) == cache[m].phase # "gone" /\ gate[m] # "blocked"

\* The copy holds the finalizer.
AdoptedAnyway(m) == TRUE
Adopted(m) == cache[m].finalizer

\* The copy has no deletionTimestamp.
WantedWhileReady(m) == cache[m].phase = "live" /\ gate[m] = "ready"
Wanted(m) == cache[m].phase = "live"

\* The providerID begins with "vultr://".
HostedIdLoose(p) == p # None
HostedId(p) == p \in Ids

ReconcileFinalizer(m) ==
    /\ Picks(m)
    /\ Reconcilable(m)
    /\ ~Adopted(m)
    /\ Starts(m, "patchSpec", [cache[m] EXCEPT !.finalizer = TRUE], FALSE)

reconcileDelete(m) ==
    /\ Picks(m)
    /\ Reconcilable(m)
    /\ Adopted(m)
    /\ ~Wanted(m)
    /\ Starts(m, "detach", cache[m], FALSE)

\* reconcileNormal, before any call: it waits for the cluster's
\* infrastructure, the bootstrap data and, with no instance yet, the image
\* (an unreadable secret or image is retried, an incomplete one is not).
Waits(m) == \/ gate[m] = "waiting"
            \/ gate[m] \in Imageless /\ m \in Hosted /\ cache[m].providerID = None

reconcileNormal(m) ==
    /\ Picks(m)
    /\ Reconcilable(m)
    /\ Adopted(m)
    /\ Wanted(m)
    /\ \/ /\ Waits(m)
          /\ \E again \in BOOLEAN : Starts(m, "patchSpec", cache[m], again)
       \/ /\ ~Waits(m)
          /\ m \notin Hosted
          /\ Starts(m, "patchSpec", [cache[m] EXCEPT !.provisioned = TRUE], FALSE)
       \/ /\ ~Waits(m)
          /\ m \in Hosted
          /\ \/ /\ cache[m].providerID = None
                /\ Starts(m, "create", cache[m], FALSE)
             \/ /\ HostedId(cache[m].providerID)
                /\ Starts(m, "get", cache[m], FALSE)
             \/ /\ cache[m].providerID # None /\ ~HostedId(cache[m].providerID)
                /\ Starts(m, "patchSpec", cache[m], FALSE)

Begin(m) == \/ ReconcileNothing(m) \/ ReconcileFinalizer(m)
            \/ reconcileDelete(m) \/ reconcileNormal(m)

-----------------------------------------------------------------------------
(***************************************************************************)
(* The calls of a pass.  Each answers, fails without effect (fault "api"), *)
(* or takes effect and loses its answer (fault "lost").                    *)
(***************************************************************************)

Goes(step) ==
    pass' = [pass EXCEPT !.step = step]

\* The handler returns: the deferred patch is next, then the queue is told.
Returns(view, again) ==
    pass' = [pass EXCEPT !.step = "patchSpec", !.view = view, !.again = again]

\* A 404 forgets the instance; any other error leaves the spec alone.
ForgetNothing == pass.view
Forget == [pass.view EXCEPT !.providerID = None]
OnErrorForget == Forget
OnErrorRelease == [pass.view EXCEPT !.finalizer = FALSE]
OnError == pass.view

\* A server that is not "ok" yet is polled (RequeueAfter).
PollsNot == FALSE
Polls == TRUE

Released == [pass.view EXCEPT !.finalizer = FALSE]

\* InstanceService.Create: the pass writes down the ID it is given.  An error
\* is returned and retried, unless it is a 404 (fault "notfound": a snapshot,
\* plan or VPC Vultr does not know), which ends the pass without one.
InstanceCreate ==
    /\ pass.step = "create"
    /\ \/ \E i \in Ids :
            /\ instance[i].state = "unused"
            /\ instance' = [instance EXCEPT
                              ![i] = [owner |-> pass.machine, state |-> "installing"]]
            /\ \/ UNCHANGED faults /\ Returns([pass.view EXCEPT !.providerID = i], TRUE)
               \/ Fault("lost") /\ Returns(OnError, TRUE)
       \/ Fault("api") /\ UNCHANGED instance /\ Returns(OnError, TRUE)
       \/ Fault("notfound") /\ UNCHANGED instance /\ Returns(Forget, FALSE)
    /\ UNCHANGED <<obj, cache, queue, gate>>

\* InstanceService.Get: a 404 forgets the instance, "ok" marks the machine
\* provisioned and goes on to reconcileNode, anything else polls.
InstanceGet ==
    /\ pass.step = "get"
    /\ LET i == pass.view.providerID IN
       \/ /\ instance[i].state = "installing"
          /\ UNCHANGED faults /\ Returns(pass.view, Polls)
       \/ /\ instance[i].state = "ok"
          /\ UNCHANGED faults
          /\ \E again \in BOOLEAN :
                Returns([pass.view EXCEPT !.provisioned = TRUE], again)
       \/ /\ ~Alive(i)
          /\ UNCHANGED faults /\ Returns(Forget, FALSE)
       \/ Fault("api") /\ Returns(OnError, TRUE)
    /\ UNCHANGED <<obj, cache, queue, gate, instance>>

\* reconcileDelete first takes the machine out of the load balancer.
reconcileLoadBalancer ==
    /\ pass.step = "detach"
    /\ \/ /\ UNCHANGED faults
          /\ IF pass.view.providerID \in Ids THEN Goes("find")
                                             ELSE Returns(Released, FALSE)
       \/ Fault("api") /\ Returns(OnError, TRUE)
    /\ UNCHANGED <<obj, cache, queue, gate, instance>>

\* Then it looks the instance up; a 404 forgets it and waits for the event
\* of its own patch.
FindForDelete ==
    /\ pass.step = "find"
    /\ \/ /\ UNCHANGED faults
          /\ IF Alive(pass.view.providerID)
               THEN Goes("destroy")
               ELSE Returns(Forget, FALSE)
       \/ Fault("api") /\ Returns(OnError, TRUE)
    /\ UNCHANGED <<obj, cache, queue, gate, instance>>

\* Then it deletes the instance and lets the object go.
InstanceDelete ==
    /\ pass.step = "destroy"
    /\ LET i == pass.view.providerID IN
       \/ /\ Alive(i)
          /\ instance' = [instance EXCEPT ![i].state = "gone"]
          /\ \/ UNCHANGED faults /\ Returns(Released, FALSE)
             \/ Fault("lost") /\ Returns(OnError, TRUE)
       \/ /\ ~Alive(i)
          /\ UNCHANGED <<instance, faults>> /\ Returns(OnError, TRUE)
       \/ Fault("api") /\ UNCHANGED instance /\ Returns(OnError, TRUE)
    /\ UNCHANGED <<obj, cache, queue, gate>>

-----------------------------------------------------------------------------
(***************************************************************************)
(* The deferred patch: a merge patch of what differs between base and      *)
(* view, with no resourceVersion.                                          *)
(***************************************************************************)

SpecDiffers == \/ pass.base.finalizer # pass.view.finalizer
               \/ pass.base.providerID # pass.view.providerID

\* The API server refuses a patch of an absent object.
Refused(o) == o.phase = "gone"

\* Only the fields the pass changed are written; an object being deleted
\* disappears with its last finalizer.
Merge(o) ==
    LET f == IF pass.base.finalizer # pass.view.finalizer
               THEN pass.view.finalizer ELSE o.finalizer
        p == IF pass.base.providerID # pass.view.providerID
               THEN pass.view.providerID ELSE o.providerID
    IN  IF o.phase = "deleting" /\ ~f
          THEN Gone
          ELSE [o EXCEPT !.finalizer = f, !.providerID = p]

PatchSpec ==
    /\ pass.step = "patchSpec"
    /\ \/ /\ SpecDiffers /\ ~Refused(obj[pass.machine])
          /\ obj' = [obj EXCEPT ![pass.machine] = Merge(@)]
          /\ UNCHANGED faults
       \/ /\ SpecDiffers => Refused(obj[pass.machine])
          /\ UNCHANGED <<obj, faults>>
       \/ SpecDiffers /\ Fault("patch") /\ UNCHANGED obj
    /\ Goes("patchStatus")
    /\ UNCHANGED <<cache, queue, gate, instance>>

StatusDiffers == pass.base.provisioned # pass.view.provisioned

PatchStatus ==
    /\ pass.step = "patchStatus"
    /\ \/ /\ StatusDiffers /\ obj[pass.machine].phase # "gone"
          /\ obj' = [obj EXCEPT ![pass.machine].provisioned = pass.view.provisioned]
          /\ UNCHANGED faults
       \/ /\ StatusDiffers => obj[pass.machine].phase = "gone"
          /\ UNCHANGED <<obj, faults>>
       \/ StatusDiffers /\ Fault("patch") /\ UNCHANGED obj
    /\ pass' = Idle
    /\ queue' = IF pass.again THEN queue \cup {pass.machine} ELSE queue
    /\ UNCHANGED <<cache, gate, instance>>

-----------------------------------------------------------------------------
(***************************************************************************)
(* The specification.                                                      *)
(***************************************************************************)

Works == \/ InstanceCreate \/ InstanceGet
         \/ reconcileLoadBalancer \/ FindForDelete \/ InstanceDelete
         \/ PatchSpec \/ PatchStatus

Next == \/ \E m \in Machines : \/ RequestDeletion(m) \/ OwnerChange(m)
                               \/ CacheSync(m) \/ Resync(m)
                               \/ Begin(m)
        \/ \E i \in Ids : InstanceReady(i) \/ Vanish(i)
        \/ Works
        \/ Crash

Spec == Init /\ [][Next]_vars

\* The worker finishes what it began, the work queue is first-in first-out so
\* a queued machine is not passed over for ever, the watch stream delivers,
\* and Vultr finishes installing.
Progress ==
    /\ WF_vars(Works)
    /\ \A m \in Machines : SF_vars(Begin(m)) /\ WF_vars(CacheSync(m))
    /\ \A i \in Ids : WF_vars(InstanceReady(i))

\* The periodic resync comes every ten hours: it is counted on only after work
\* was dropped; till then events, polls and retries have to do.
FairSpec ==
    /\ Spec
    /\ Progress
    /\ \A m \in Machines : WF_vars(faults.dropped /\ Resync(m))

-----------------------------------------------------------------------------
(***************************************************************************)
(* Properties.                                                             *)
(***************************************************************************)

Referenced(i) == \E m \in Machines : obj[m].phase # "gone" /\ obj[m].providerID = i

InHand(i) == /\ pass.step = "patchSpec"
             /\ pass.view.providerID = i
             /\ pass.base.providerID # i

\* Instances that run, and are billed, though no object names them.
Leaked == {i \in Ids : Alive(i) /\ ~Referenced(i) /\ ~InHand(i)}

\* Each slip (a patch dropped, a stale read, a crash, a lost answer) leaks at
\* most one instance, and nothing else does: without slips none is leaked,
\* whatever Vultr and Cloudflare answer.
LeakBound == Cardinality(Leaked) <= faults.slips

\* A pass that is about to create an instance works for an object that is
\* still there and still holds the finalizer, however stale its copy: so the
\* controller never creates an instance for a machine that has left.
CreatesOnlyForPresent ==
    pass.step = "create" =>
        obj[pass.machine].phase # "gone" /\ obj[pass.machine].finalizer

\* The controller never destroys the instance of a machine nobody asked to
\* delete: an instance disappears under a pass that moves on only when the
\* deletion of its own machine was requested, however stale the pass's copy;
\* otherwise an outsider took it.
DestroysOnlyDeleted ==
    [][\A i \in Ids :
          Alive(i) /\ ~Alive(i)' =>
              pass' = pass \/ obj[instance[i].owner].phase # "live"]_vars

\* Every machine whose deletion was requested leaves the API server, faults
\* notwithstanding, provided its owner objects do not block it for ever.
DeletionCompletes ==
    \A m \in Machines :
        <>[](gate[m] # "blocked")
            => (obj[m].phase = "deleting" ~> obj[m].phase = "gone")

\* Every machine that is wanted, and whose owner objects become and stay
\* ready, is eventually marked provisioned: the events of these objects, the
\* polls and the retries see to it.  Only where its image is of another version,
\* so that its completion wakes nobody, has something else to queue the machine.
ProvisioningCompletes ==
    \A m \in Machines :
        <>[](gate[m] = "ready" /\ obj[m].phase = "live"
                /\ (m \in Hosted => obj[m].providerID # Foreign))
        /\ ([](gate[m] # "mismatched") \/ []<>(m \in queue))
            => <>(obj[m].provisioned)

\* What the controller promises.  Until the first slip it keeps its promise: at
\* most one instance per machine, taken away only on request, never left behind.
Contract == INSTANCE MachineContract WITH
                phase   <- [m \in Machines |-> obj[m].phase],
                running <- [m \in Machines |->
                              {i \in Ids : Alive(i) /\ instance[i].owner = m}],
                mishaps <- faults.all,
                disturbed <- faults.slips > 0

ImplementsContract == Contract!Spec

\* api/v1beta1/krumkakemachine_types.go:9 says the finalizer allows the
\* reconciler to clean up the machine's resources before the object goes.
FinalizerCleansUp ==
    \A m \in Machines : \A i \in Ids :
        obj[m].phase = "gone" /\ instance[i].owner = m => ~Alive(i)
================================================================================
