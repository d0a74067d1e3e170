---------------------------- MODULE LoadBalancerPool ----------------------------
(***************************************************************************)
(* reconcileLoadBalancer: how the machines of a control plane join and     *)
(* leave the Cloudflare pool.                                              *)
(*                                                                         *)
(* The controller reads the pool's whole list of origins, changes its copy *)
(* and writes the whole list back, with other calls and reads of a lagging *)
(* cache in between.  Anyone else with access to the account may change    *)
(* the list meanwhile.  A machine that leaves is replaced by another one.  *)
(*                                                                         *)
(* An origin is its address; its name, weight and port go along with it.   *)
(***************************************************************************)
EXTENDS Naturals, FiniteSets

CONSTANTS
    Machines,     \* the control plane's Machines; also stands for the host names
    Addresses,    \* external IP addresses
    NoAddress,    \* the empty string
    Aliens,       \* addresses of origins the controller has nothing to do with
    MaxOrigins,   \* the origins the account's subscriptions allow
    TakesEmpty,   \* whether Cloudflare takes an origin with an empty address
    FaultKinds,   \* the faults that may occur
    MaxFaults     \* bound: how many faults occur in one behaviour

\* A slip lets the controller work on what is no longer so of a machine: a
\* cached object is outdated ("stale"), an address changes after an origin was
\* made from it ("readdress"), or the infrastructure goes before its Machine
\* ("direct").  In a race someone else changes origins under a pass.
Slips == {"stale", "readdress", "direct"}
AllFaults == Slips \cup {"race", "api", "lost", "crash"}

ASSUME ConstantsAssumption ==
    /\ IsFiniteSet(Aliens)
    /\ Addresses \cap (Machines \cup Aliens) = {}
    /\ Aliens \cap Machines = {}
    /\ NoAddress \notin Machines \cup Addresses \cup Aliens
    /\ MaxOrigins \in Nat
    /\ TakesEmpty \in BOOLEAN
    /\ FaultKinds \subseteq AllFaults
    /\ MaxFaults \in Nat

VARIABLES
    machine,    \* machine[m]: the Machine, whether it is being deleted and its external IP
    infra,      \* infra[m]: the phase of its KrumkakeMachine
    cache,      \* cache[m]: the copies of both in the manager's informer cache
    pool,       \* the addresses of the pool's origins
    others,     \* how many origins the account's other pools have
    pass,       \* the pass of the controller's one worker
    faults      \* how many faults have occurred, and how many were slips or races

vars == <<machine, infra, cache, pool, others, pass, faults>>

-----------------------------------------------------------------------------
(***************************************************************************)
(* Data.                                                                   *)
(***************************************************************************)

Phases == {"live", "deleting", "gone"}
MachineObjects == [deleting : BOOLEAN, address : Addresses \cup {NoAddress}]

\* What may stand in the list of origins.
Origins == Addresses \cup Machines \cup Aliens \cup {NoAddress}

\* "rest" stands for what reconcileDelete does next: it deletes the instance
\* and takes the finalizer away.
Steps == {"idle", "get", "check", "list", "edit", "rest"}

\* object and leaving are what the pass read of the machine, origins is its copy
\* of the list.
Passes == [step : Steps, machine : Machines \cup {NoAddress},
           object : MachineObjects, leaving : BOOLEAN, origins : SUBSET Origins]

NoObject == [deleting |-> FALSE, address |-> NoAddress]
Idle == [step |-> "idle", machine |-> NoAddress, object |-> NoObject,
         leaving |-> FALSE, origins |-> {}]

TypeOK ==
    /\ machine \in [Machines -> MachineObjects]
    /\ infra \in [Machines -> Phases]
    /\ cache \in [Machines -> [machine : MachineObjects, infra : Phases]]
    /\ pool \subseteq Origins
    /\ others \in 0..MaxOrigins
    /\ pass \in Passes
    /\ pass.step # "idle" => pass.machine \in Machines
    /\ pass.step \in {"list", "rest"} => pass.leaving
    /\ faults \in [all : 0..MaxFaults, slips : 0..MaxFaults, races : 0..MaxFaults]

Fault(kind) ==
    /\ kind \in FaultKinds
    /\ faults.all < MaxFaults
    /\ faults' = [all   |-> faults.all + 1,
                  slips |-> faults.slips + IF kind \in Slips THEN 1 ELSE 0,
                  races |-> faults.races + IF kind = "race" THEN 1 ELSE 0]

Total == Cardinality(pool) + others

\* The addresses an origin of the machine may have: its external IPs, its
\* external names and its host name.
OwnAddresses(m, object) == {m, object.address} \ {NoAddress}

Init ==
    /\ machine = [m \in Machines |-> NoObject]
    /\ infra = [m \in Machines |-> "live"]
    /\ cache = [m \in Machines |-> [machine |-> machine[m], infra |-> infra[m]]]
    /\ pool \in SUBSET Aliens
    /\ others \in 0..MaxOrigins
    /\ Total <= MaxOrigins
    /\ pass = Idle
    /\ faults = [all |-> 0, slips |-> 0, races |-> 0]

-----------------------------------------------------------------------------
(***************************************************************************)
(* Cluster API, the watch streams and the account's other users.           *)
(***************************************************************************)

\* An IP address belongs to one running instance at a time.
Free(a) == \A m \in Machines : infra[m] # "gone" => machine[m].address # a

\* The machine's first external IP is reported.
Assign(m, a) ==
    /\ infra[m] = "live"
    /\ machine[m].address = NoAddress
    /\ Free(a)
    /\ machine' = [machine EXCEPT ![m].address = a]
    /\ UNCHANGED <<infra, cache, pool, others, pass, faults>>

\* The instance is replaced by one with another address.
Readdress(m, a) ==
    /\ infra[m] = "live"
    /\ machine[m].address \in Addresses
    /\ Free(a)
    /\ Fault("readdress")
    /\ machine' = [machine EXCEPT ![m].address = a]
    /\ UNCHANGED <<infra, cache, pool, others, pass>>

DeleteMachine(m) ==
    /\ ~machine[m].deleting
    /\ machine' = [machine EXCEPT ![m].deleting = TRUE]
    /\ UNCHANGED <<infra, cache, pool, others, pass, faults>>

\* Cluster API deletes the infrastructure of a Machine that is being deleted;
\* a user may delete it directly.
DeleteInfra(m) ==
    /\ infra[m] = "live"
    /\ infra' = [infra EXCEPT ![m] = "deleting"]
    /\ IF machine[m].deleting THEN UNCHANGED faults ELSE Fault("direct")
    /\ UNCHANGED <<machine, cache, pool, others, pass>>

\* Each object has a watch stream of its own.
SyncMachine(m) ==
    /\ cache[m].machine # machine[m]
    /\ cache' = [cache EXCEPT ![m].machine = machine[m]]
    /\ UNCHANGED <<machine, infra, pool, others, pass, faults>>

SyncInfra(m) ==
    /\ cache[m].infra # infra[m]
    /\ cache' = [cache EXCEPT ![m].infra = infra[m]]
    /\ UNCHANGED <<machine, infra, pool, others, pass, faults>>

\* Between its first read of Cloudflare and its write a pass can be raced.
Exposed == pass.step \in {"check", "list", "edit"}

\* Someone adds an origin, within what the subscriptions allow, or removes one.
AdminEdit(x) ==
    /\ pool' = IF x \in pool THEN pool \ {x} ELSE pool \cup {x}
    /\ Cardinality(pool') + others <= MaxOrigins \/ x \in pool
    /\ IF Exposed THEN Fault("race") ELSE UNCHANGED faults
    /\ UNCHANGED <<machine, infra, cache, others, pass>>

OtherPools(n) ==
    /\ others' = n
    /\ n # others
    /\ Cardinality(pool) + n <= MaxOrigins \/ n < others
    /\ IF Exposed THEN Fault("race") ELSE UNCHANGED faults
    /\ UNCHANGED <<machine, infra, cache, pool, pass>>

Crash ==
    /\ Fault("crash")
    /\ pass' = Idle
    /\ cache' = [m \in Machines |-> [machine |-> machine[m], infra |-> infra[m]]]
    /\ UNCHANGED <<machine, infra, pool, others>>

-----------------------------------------------------------------------------
(***************************************************************************)
(* reconcileLoadBalancer.                                                  *)
(***************************************************************************)

Goes(step, origins) == pass' = [pass EXCEPT !.step = step, !.origins = origins]

\* A machine that joins is done; one that leaves goes on to its instance.
DoneForgets == pass' = Idle
DoneReleases == Goes("rest", {})
Done == IF pass.leaving THEN Goes("rest", {}) ELSE pass' = Idle

\* A pass over a provisioned machine, or over one that is being deleted, reads
\* both objects from the cache; without an external IP it leaves the pool alone.
Begin(m) ==
    /\ pass.step = "idle"
    /\ cache[m].infra # "gone"
    /\ IF cache[m] = [machine |-> machine[m], infra |-> infra[m]]
         THEN UNCHANGED faults ELSE Fault("stale")
    /\ LET leaving == cache[m].infra = "deleting"
           unknown == cache[m].machine.address = NoAddress
       IN /\ leaving \/ ~unknown
          /\ pass' = [step    |-> IF unknown THEN "rest" ELSE "get",
                      machine |-> m, object |-> cache[m].machine,
                      leaving |-> leaving, origins |-> {}]
    /\ UNCHANGED <<machine, infra, cache, pool, others>>

\* Any address of the machine will do.
Own == OwnAddresses(pass.machine, pass.object)

\* CloudflarePoolService.Get: a machine that joins is not in the pool yet, one
\* that leaves still is; otherwise there is nothing to do.
PoolGet ==
    /\ pass.step = "get"
    /\ \/ /\ UNCHANGED faults
          /\ IF (Own \cap pool # {}) = pass.leaving
               THEN Goes(IF pass.leaving THEN "list" ELSE "check", pool)
               ELSE Done
       \/ Fault("api") /\ pass' = Idle
    /\ UNCHANGED <<machine, infra, cache, pool, others>>

\* Whether the account has room for one more origin.
RoomAtLimit == Total <= MaxOrigins
RoomForTwo == Total + 1 < MaxOrigins
Room == Total < MaxOrigins

\* Without room the pass ends, and nothing brings it back.
hasLoadBalancerEndpointCapacity ==
    /\ pass.step = "check"
    /\ \/ /\ UNCHANGED faults
          /\ IF Room THEN Goes("edit", pass.origins \cup {pass.object.address})
                     ELSE pass' = Idle
       \/ Fault("api") /\ pass' = Idle
    /\ UNCHANGED <<machine, infra, cache, pool, others>>

\* The machines the cache shows as neither leaving nor in the list.
SubstitutesLeaving(origins) ==
    {n \in Machines \ {pass.machine} : OwnAddresses(n, cache[n].machine) \cap origins = {}}
Substitutes(origins) ==
    {n \in Machines \ {pass.machine} :
        /\ ~cache[n].machine.deleting
        /\ OwnAddresses(n, cache[n].machine) \cap origins = {}}

\* The first other machine takes the leaving one's place, even when it has no
\* external IP yet; when the list of machines cannot be read, none does.
Replace ==
    /\ pass.step = "list"
    /\ LET rest == pass.origins \ Own IN
       \/ /\ UNCHANGED faults
          /\ IF Substitutes(rest) = {}
               THEN Goes("edit", rest)
               ELSE \E n \in Substitutes(rest) :
                      Goes("edit", rest \cup {cache[n].machine.address})
       \/ Fault("api") /\ Goes("edit", rest)
    /\ UNCHANGED <<machine, infra, cache, pool, others>>

\* What is sent replaces the whole list.
WrittenOwn == IF pass.leaving THEN pass.origins \ Own ELSE {pass.object.address}
Written == pass.origins

\* An error keeps a leaving machine.
Failure == pass' = Idle

\* What Cloudflare takes.
Acceptable(origins) == NoAddress \in origins => TakesEmpty

\* CloudflarePoolService.Edit.
PoolEdit ==
    /\ pass.step = "edit"
    /\ \/ /\ Acceptable(Written)
          /\ pool' = Written
          /\ \/ UNCHANGED faults /\ Done
             \/ Fault("lost") /\ Failure
       \/ /\ ~Acceptable(Written)
          /\ UNCHANGED <<pool, faults>> /\ Failure
       \/ Fault("api") /\ UNCHANGED pool /\ Failure
    /\ UNCHANGED <<machine, infra, cache, others>>

\* The rest of reconcileDelete, and the patch at its end.
Release ==
    /\ pass.step = "rest"
    /\ \/ /\ infra' = [infra EXCEPT ![pass.machine] = "gone"]
          /\ UNCHANGED faults
       \/ Fault("api") /\ UNCHANGED infra
    /\ pass' = Idle
    /\ UNCHANGED <<machine, cache, pool, others>>

-----------------------------------------------------------------------------
(***************************************************************************)
(* The specification.                                                      *)
(***************************************************************************)

Works == \/ PoolGet \/ hasLoadBalancerEndpointCapacity \/ Replace \/ PoolEdit \/ Release

Next == \/ \E m \in Machines : \/ DeleteMachine(m) \/ DeleteInfra(m)
                               \/ SyncMachine(m) \/ SyncInfra(m)
                               \/ Begin(m)
                               \/ \E a \in Addresses : Assign(m, a) \/ Readdress(m, a)
        \/ \E x \in Aliens \cup Machines \cup pool : AdminEdit(x)
        \/ \E n \in 0..MaxOrigins : OtherPools(n)
        \/ Works
        \/ Crash

Spec == Init /\ [][Next]_vars

\* The worker finishes its passes, the periodic resync and the first-in
\* first-out queue bring every machine's turn, the watch streams deliver,
\* and Cluster API deletes the infrastructure of a Machine being deleted.
FairSpec ==
    /\ Spec
    /\ WF_vars(Works)
    /\ \A m \in Machines :
          /\ SF_vars(Begin(m))
          /\ WF_vars(SyncMachine(m)) /\ WF_vars(SyncInfra(m))
          /\ WF_vars(machine[m].deleting /\ DeleteInfra(m))

-----------------------------------------------------------------------------
(***************************************************************************)
(* Properties.                                                             *)
(***************************************************************************)

\* The origins whose address no machine has, or no machine has any more.
Stray == {a \in pool \cap Addresses : Free(a)}

\* Traffic is sent to an address without a machine only after a slip: each slip
\* (a stale copy, a changed address, an infrastructure deleted without its
\* Machine) leaves at most one such origin behind.
StrayBound == Cardinality(Stray) <= faults.slips

\* The controller stays within the origins the subscriptions allow: only a race
\* between its check and its write exceeds them, by one each.
OverrunBound == Total <= MaxOrigins + faults.races

\* Rewriting the whole list drops a foreign origin only after a race, and the
\* origin of a machine that is not being deleted only after a race or a slip (a
\* stale pass over a machine that has left, whose address is in use again).
KeepsOthers ==
    [][pass' # pass =>
          \A x \in pool \ pool' :
             /\ x \in Aliens => faults'.races > 0
             /\ (\E m \in Machines : infra[m] = "live" /\ x \in OwnAddresses(m, machine[m]))
                   => faults'.races + faults'.slips > 0]_vars

\* A machine that keeps its address, and finds room as long as it is not in the
\* pool, joins it.
MachineJoins ==
    \A m \in Machines :
        <>[](/\ infra[m] = "live"
             /\ machine[m].address # NoAddress
             /\ OwnAddresses(m, machine[m]) \cap pool = {} => Total < MaxOrigins)
            => <>(OwnAddresses(m, machine[m]) \cap pool # {})

\* A machine being deleted leaves, provided the Machines not being deleted come
\* to have addresses: a replacement without one, its infrastructure gone or not,
\* is refused time and again where Cloudflare does not take it.
MachineLeaves ==
    \A m \in Machines :
        <>[](\A n \in Machines : machine[n].deleting \/ machine[n].address # NoAddress)
            => (infra[m] = "deleting" ~> infra[m] = "gone")
================================================================================
