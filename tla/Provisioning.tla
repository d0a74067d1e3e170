------------------------------ MODULE Provisioning ------------------------------
(***************************************************************************)
(* How a machine and its image find each other.  A machine with a selector *)
(* takes the first image of its version that matches and pins its name; an *)
(* image is imported once a machine names it; a machine waits for its      *)
(* image without asking again, until the image's completion wakes it.      *)
(*                                                                         *)
(* Two controllers, each with its queue, share the informer caches.  All   *)
(* machines are hosted and have their bootstrap data.  What becomes of an  *)
(* instance and of a snapshot is in KrumkakeMachine and KrumkakeImage.     *)
(***************************************************************************)
EXTENDS Naturals, FiniteSets

CONSTANTS
    Machines, Images,
    None,            \* the empty name
    Version,         \* Version[x]: the Kubernetes version of machine or image x
    Named,           \* Named[m]: the imageName m is made with, None with a selector
    FaultKinds,      \* the faults that may occur
    MaxFaults        \* bound: how many faults occur in one behaviour

AllFaults == {"patch", "stale", "crash", "api", "fail", "relabel", "remove"}

ASSUME ConstantsAssumption ==
    /\ None \notin Machines \cup Images
    /\ Machines \cup Images \subseteq DOMAIN Version
    /\ Named \in [Machines -> Images \cup {None}]
    /\ FaultKinds \subseteq AllFaults
    /\ MaxFaults \in Nat

VARIABLES
    machine,    \* machine[m]: its spec.imageName and the image of its instance
    image,      \* image[k]: the KrumkakeImage
    mcache,     \* mcache[m], icache[k]: the copies in the informer caches
    icache,
    mqueue,     \* the work queues
    iqueue,
    pass,       \* the pass of the machine controller
    faults      \* how many faults have occurred, how many passes were stale, and
                \* whether one dropped a patch

vars == <<machine, image, mcache, icache, mqueue, iqueue, pass, faults>>

-----------------------------------------------------------------------------
\* source is the image of the instance that spec.providerID names.
Specs == [imageName : Images \cup {None}, source : Images \cup {None}]

\* matching: whether the labels match the machines' selector.
Pictures == [present : BOOLEAN, matching : BOOLEAN,
             status : {"none", "pending", "complete", "error"}]
NoPicture == [present |-> FALSE, matching |-> FALSE, status |-> "none"]

Idle == [machine |-> None, base |-> None, image |-> None,
         source |-> None, again |-> FALSE]

TypeOK ==
    /\ machine \in [Machines -> Specs] /\ mcache \in [Machines -> Specs]
    /\ \A m \in Machines : machine[m].source # None => machine[m].imageName # None
    /\ image \in [Images -> Pictures] /\ icache \in [Images -> Pictures]
    /\ mqueue \subseteq Machines /\ iqueue \subseteq Images
    /\ pass \in [machine : Machines \cup {None}, base : Images \cup {None},
                 image : Images \cup {None}, source : Images \cup {None}, again : BOOLEAN]
    /\ pass.machine # None => pass.image \in Images /\ pass.source \in {None, pass.image}
    /\ faults \in [all : 0..MaxFaults, stale : 0..MaxFaults, dropped : BOOLEAN]

Fault(kind) ==
    /\ kind \in FaultKinds
    /\ faults.all < MaxFaults
    /\ faults' = [all     |-> faults.all + 1,
                  stale   |-> faults.stale + IF kind = "stale" THEN 1 ELSE 0,
                  dropped |-> faults.dropped \/ kind = "patch"]

Init ==
    /\ machine = [m \in Machines |-> [imageName |-> Named[m], source |-> None]]
    /\ image = [k \in Images |-> NoPicture]
    /\ mcache = machine /\ icache = image
    /\ mqueue = Machines
    /\ iqueue = {}
    /\ pass = Idle
    /\ faults = [all |-> 0, stale |-> 0, dropped |-> FALSE]

-----------------------------------------------------------------------------
(***************************************************************************)
(* The user and Vultr.                                                     *)
(***************************************************************************)

Apply(k) ==
    /\ ~image[k].present
    /\ \E b \in BOOLEAN :
          image' = [image EXCEPT ![k] = [NoPicture EXCEPT !.present = TRUE, !.matching = b]]
    /\ UNCHANGED <<machine, mcache, icache, mqueue, iqueue, pass, faults>>

Relabel(k) ==
    /\ image[k].present
    /\ Fault("relabel")
    /\ image' = [image EXCEPT ![k].matching = ~@]
    /\ UNCHANGED <<machine, mcache, icache, mqueue, iqueue, pass>>

Remove(k) ==
    /\ image[k].present
    /\ Fault("remove")
    /\ image' = [image EXCEPT ![k] = NoPicture]
    /\ UNCHANGED <<machine, mcache, icache, mqueue, iqueue, pass>>

-----------------------------------------------------------------------------
(***************************************************************************)
(* Wake-ups.                                                               *)
(***************************************************************************)

\* An event of a machine queues it and the image it names.
KrumkakeMachineToKrumkakeImages(spec) == {spec.imageName} \ {None}

MachineEvent(m, spec) ==
    /\ mqueue' = mqueue \cup {m}
    /\ iqueue' = iqueue \cup KrumkakeMachineToKrumkakeImages(spec)

SyncMachine(m) ==
    /\ mcache[m] # machine[m]
    /\ mcache' = [mcache EXCEPT ![m] = machine[m]]
    /\ MachineEvent(m, machine[m])
    /\ UNCHANGED <<machine, image, icache, pass, faults>>

\* A complete image wakes the machines of its version that name it or, without
\* a name, select it.
WakesSelecting(m, k, picture) == Version[m] = Version[k] /\ picture.matching
Wakes(m, k, picture) ==
    /\ Version[m] = Version[k]
    /\ IF mcache[m].imageName = None THEN picture.matching
                                     ELSE mcache[m].imageName = k

KrumkakeImageToKrumkakeMachines(k, picture) ==
    {m \in Machines : picture.status = "complete" /\ Wakes(m, k, picture)}

ImageEvent(k, picture) ==
    /\ iqueue' = iqueue \cup {k}
    /\ mqueue' = mqueue \cup KrumkakeImageToKrumkakeMachines(k, picture)

SyncImage(k) ==
    /\ icache[k] # image[k]
    /\ icache' = [icache EXCEPT ![k] = image[k]]
    /\ ImageEvent(k, image[k])
    /\ UNCHANGED <<machine, image, mcache, pass, faults>>

\* The periodic resync repeats the last event of every object of the caches.
ResyncMachine(m) ==
    /\ MachineEvent(m, mcache[m])
    /\ UNCHANGED <<machine, image, mcache, icache, pass, faults>>

ResyncImage(k) ==
    /\ icache[k].present
    /\ ImageEvent(k, icache[k])
    /\ UNCHANGED <<machine, image, mcache, icache, pass, faults>>

Resync == (\E m \in Machines : ResyncMachine(m)) \/ (\E k \in Images : ResyncImage(k))

Crash ==
    /\ Fault("crash")
    /\ pass' = Idle
    /\ mcache' = machine /\ icache' = image
    /\ mqueue' = Machines
    /\ iqueue' = {k \in Images : image[k].present}
    /\ UNCHANGED <<machine, image>>

-----------------------------------------------------------------------------
(***************************************************************************)
(* reconcileNormalVultr, as long as there is no instance.                  *)
(***************************************************************************)

\* The images the pass may take: the named one, else whichever is listed first.
ReselectEachTime(m) ==
    {k \in Images : icache[k].present /\ icache[k].matching /\ Version[k] = Version[m]}
Candidates(m) ==
    IF mcache[m].imageName # None
      THEN {k \in {mcache[m].imageName} : icache[k].present}
      ELSE {k \in Images : /\ icache[k].present /\ icache[k].matching
                           /\ Version[k] = Version[m]}

Picks(m) ==
    /\ pass = Idle /\ m \in mqueue
    /\ IF mcache[m] = machine[m] THEN UNCHANGED faults ELSE Fault("stale")

\* With an instance the pass has other concerns; no candidate is an error, and
\* the machine stays in the queue.
HasInstance(m) ==
    /\ Picks(m)
    /\ mcache[m].source # None
    /\ mqueue' = mqueue \ {m}
    /\ UNCHANGED <<machine, image, mcache, icache, iqueue, pass>>

\* An image that is not complete ends the pass, else Create is next.
SelectImage(m) ==
    /\ Picks(m)
    /\ mcache[m].source = None
    /\ mqueue' = mqueue \ {m}
    /\ \E k \in Candidates(m) :
          pass' = [machine |-> m, base |-> mcache[m].imageName, image |-> k,
                   source |-> IF icache[k].status = "complete" THEN k ELSE None,
                   again |-> FALSE]
    /\ UNCHANGED <<machine, image, mcache, icache, iqueue>>

\* InstanceService.Create fails.
CreateFails ==
    /\ pass.source # None
    /\ Fault("api")
    /\ pass' = [pass EXCEPT !.source = None, !.again = TRUE]
    /\ UNCHANGED <<machine, image, mcache, icache, mqueue, iqueue>>

\* The deferred patch writes the name the pass has pinned along with the
\* instance's ID; both only if they differ from what was read.  An instance it
\* drops is KrumkakeMachine's concern.
PinsNot(m) == machine[m].imageName
Pins(m) == IF pass.image # pass.base THEN pass.image ELSE machine[m].imageName

Patch ==
    /\ pass # Idle
    /\ LET m == pass.machine IN
       /\ \/ /\ machine' = [machine EXCEPT
                              ![m] = [imageName |-> Pins(m),
                                      source |-> IF pass.source # None THEN pass.source ELSE @.source]]
             /\ UNCHANGED faults
          \/ Fault("patch") /\ UNCHANGED machine
       /\ mqueue' = mqueue \cup {n \in {m} : pass.again}
    /\ pass' = Idle
    /\ UNCHANGED <<image, mcache, icache, iqueue>>

-----------------------------------------------------------------------------
(***************************************************************************)
(* The image controller, by the outcome of its passes; those by outdated   *)
(* copies are KrumkakeImage's concern.                                     *)
(***************************************************************************)

\* The index lookup: a machine that names the image.
NamedBySome(k) == \E m \in Machines : mcache[m].imageName = k

Sets(k, status) == image' = [image EXCEPT ![k].status = status]

ImageReconcile(k) ==
    /\ k \in iqueue /\ icache[k] = image[k]
    /\ \/ /\ image[k].present /\ image[k].status = "none" /\ NamedBySome(k)
          /\ \/ Sets(k, "pending") /\ UNCHANGED <<iqueue, faults>>
             \/ Fault("fail") /\ Sets(k, "error") /\ UNCHANGED iqueue
       \/ /\ image[k].present /\ image[k].status = "pending"
          /\ \/ Sets(k, "complete") /\ iqueue' = iqueue \ {k} /\ UNCHANGED faults
             \/ Fault("fail") /\ Sets(k, "error") /\ iqueue' = iqueue \ {k}
       \/ /\ ~(image[k].present /\ image[k].status = "none" /\ NamedBySome(k))
          /\ ~(image[k].present /\ image[k].status = "pending")
          /\ iqueue' = iqueue \ {k}
          /\ UNCHANGED <<image, faults>>
    /\ UNCHANGED <<machine, mcache, icache, mqueue, pass>>

-----------------------------------------------------------------------------
Next == \/ \E k \in Images : \/ Apply(k) \/ Relabel(k) \/ Remove(k)
                             \/ SyncImage(k) \/ ImageReconcile(k)
        \/ \E m \in Machines : SyncMachine(m) \/ HasInstance(m) \/ SelectImage(m)
        \/ CreateFails \/ Patch
        \/ Resync \/ Crash

Spec == Init /\ [][Next]_vars

\* Both workers work and take every object of their queues in turn, and the
\* watch streams deliver.  The periodic resync comes every ten hours: it is
\* counted on only after a patch was dropped, and each object's by itself.
FairSpec ==
    /\ Spec
    /\ WF_vars(Patch)
    /\ \A m \in Machines : SF_vars(HasInstance(m) \/ SelectImage(m))
    /\ \A k \in Images : WF_vars(ImageReconcile(k))
    /\ WF_vars(\E m \in Machines : SyncMachine(m))
    /\ WF_vars(\E k \in Images : SyncImage(k))
    /\ \A m \in Machines : WF_vars(faults.dropped /\ ResyncMachine(m))
    /\ \A k \in Images : WF_vars(faults.dropped /\ ResyncImage(k))

-----------------------------------------------------------------------------
(***************************************************************************)
(* Properties.                                                             *)
(***************************************************************************)

\* An instance is made from the image its machine names, though the selector
\* may choose anew in every pass, unless a pass went by an outdated copy.
PinnedIsUsed ==
    \A m \in Machines :
        machine[m].source \in {None, machine[m].imageName} \/ faults.stale > 0

\* An image is imported for a machine that names it from then on: a selector
\* that matches several does not import them in turn, and a dropped patch starts
\* no import; each stale pass may leave one import that serves nobody.
ImportBound ==
    Cardinality({k \in Images : /\ image[k].status # "none"
                                /\ \A m \in Machines : machine[m].imageName # k})
        <= faults.stale

Usable(k) == image[k].present /\ image[k].status # "error"

\* The machine's image is there, or one that it will select, and does not fail.
Served(m) ==
    IF machine[m].imageName # None
      THEN Usable(machine[m].imageName)
      ELSE \E k \in Images : image[k].matching /\ Usable(k) /\ Version[k] = Version[m]

\* The machine names no image of another version.
OwnVersion(m) ==
    machine[m].imageName # None => Version[m] = Version[machine[m].imageName]

\* A machine that stays served does not stay without an instance: it pins a
\* name, the name starts the import, and the import's end wakes it, whatever copies
\* each step goes by.  Only where its own image is of another version, whose end
\* does not wake it, has something else to bring passes over this machine.
GetsInstance ==
    \A m \in Machines :
        []<>(OwnVersion(m) \/ m \in mqueue)
            => []<>(Served(m) => machine[m].source # None)
================================================================================
