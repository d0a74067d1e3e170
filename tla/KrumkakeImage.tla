----------------------------- MODULE KrumkakeImage -----------------------------
(***************************************************************************)
(* The KrumkakeImage controller: it imports the image's URL into Vultr as  *)
(* a snapshot once a hosted machine names the image, follows the snapshot  *)
(* until it is complete, and deletes it with the image.                    *)
(*                                                                         *)
(* A pass reads the object from the cache, makes at most one call that     *)
(* changes something, and patches what it changed at its end: first the    *)
(* finalizer, then the status, each field on its own.  An error of that    *)
(* patch is logged and dropped.                                            *)
(***************************************************************************)
EXTENDS Naturals, FiniteSets

CONSTANTS
    Images,       \* KrumkakeImage objects, one identity (UID) each
    Ids,          \* snapshot IDs Vultr can hand out
    None,         \* the empty string
    FaultKinds,   \* the faults that may occur
    MaxFaults     \* bound: how many faults occur in one behaviour

\* Slips disturb the controller's own bookkeeping; the other faults do not.
Slips == {"patch", "stale", "crash", "lost"}
AllFaults == Slips \cup {"api", "fail", "vanish"}

ASSUME ConstantsAssumption ==
    /\ None \notin Images \cup Ids
    /\ FaultKinds \subseteq AllFaults
    /\ MaxFaults \in Nat

VARIABLES
    obj,        \* obj[k]: the KrumkakeImage as the API server stores it
    cache,      \* cache[k]: the copy in the manager's informer cache
    queue,      \* the images in the controller's work queue
    wanted,     \* wanted[k]: some machine hosted at Vultr names the image
    pass,       \* the reconcile pass of the controller's one worker
    snapshot,   \* snapshot[i]: the Vultr snapshot with ID i
    faults      \* how many faults have occurred, how many were slips, and
                \* whether one dropped a patch
vars == <<obj, cache, queue, wanted, pass, snapshot, faults>>

-----------------------------------------------------------------------------
(***************************************************************************)
(* Data.                                                                   *)
(***************************************************************************)

Phases == {"live", "deleting", "gone"}

\* The values of status.vultr.snapshotStatus.
Statuses == {"none", "pending", "complete", "error"}

Objects == [phase : Phases, finalizer : BOOLEAN,
            snapshotID : Ids \cup {None}, snapshotStatus : Statuses]

Fresh == [phase |-> "live", finalizer |-> FALSE,
          snapshotID |-> None, snapshotStatus |-> "none"]
Gone == [Fresh EXCEPT !.phase = "gone"]

\* "failed" stands for every status Vultr reports but "pending" and "complete".
Kept == {"pending", "complete", "failed"}

Snapshots == [image : Images \cup {None}, state : Kept \cup {"unused", "gone"},
              completed : BOOLEAN]

Exists(i) == snapshot[i].state \in Kept

Steps == {"idle", "resolve", "create", "get", "destroy", "patchSpec", "patchStatus"}

\* base is the object as the pass read it, view is what it has made of it.
Passes == [step : Steps, image : Images \cup {None},
           base : Objects, view : Objects, again : BOOLEAN]

Idle == [step |-> "idle", image |-> None, base |-> Gone, view |-> Gone,
         again |-> FALSE]

TypeOK ==
    /\ obj \in [Images -> Objects]
    /\ cache \in [Images -> Objects]
    /\ queue \subseteq Images
    /\ wanted \in [Images -> BOOLEAN]
    /\ pass \in Passes
    /\ pass.step # "idle" => pass.image \in Images
    /\ pass.step \in {"get", "destroy"} => pass.view.snapshotID \in Ids
    /\ snapshot \in [Ids -> Snapshots]
    /\ faults \in [all : 0..MaxFaults, slips : 0..MaxFaults, dropped : BOOLEAN]

Fault(kind) ==
    /\ kind \in FaultKinds
    /\ faults.all < MaxFaults
    /\ faults' = [all     |-> faults.all + 1,
                  slips   |-> faults.slips + IF kind \in Slips THEN 1 ELSE 0,
                  dropped |-> faults.dropped \/ kind = "patch"]

Init ==
    /\ obj = [k \in Images |-> Fresh]
    /\ cache = obj
    /\ queue = Images
    /\ wanted \in [Images -> BOOLEAN]
    /\ pass = Idle
    /\ snapshot = [i \in Ids |->
                     [image |-> None, state |-> "unused", completed |-> FALSE]]
    /\ faults = [all |-> 0, slips |-> 0, dropped |-> FALSE]

-----------------------------------------------------------------------------
(***************************************************************************)
(* The user, the watch stream and the cloud.                               *)
(***************************************************************************)

RequestDeletion(k) ==
    /\ obj[k].phase = "live"
    /\ obj' = [obj EXCEPT ![k] = IF obj[k].finalizer
                                   THEN [obj[k] EXCEPT !.phase = "deleting"]
                                   ELSE Gone]
    /\ UNCHANGED <<cache, queue, wanted, pass, snapshot, faults>>

\* A machine that names the image comes or goes; machines are watched, and the
\* event of one with a region queues the image it names.
MachineChange(k) ==
    /\ wanted' = [wanted EXCEPT ![k] = ~wanted[k]]
    /\ queue' = queue \cup {k}
    /\ UNCHANGED <<obj, cache, pass, snapshot, faults>>

CacheSync(k) ==
    /\ cache[k] # obj[k]
    /\ cache' = [cache EXCEPT ![k] = obj[k]]
    /\ queue' = queue \cup {k}
    /\ UNCHANGED <<obj, wanted, pass, snapshot, faults>>

Resync(k) ==
    /\ cache[k].phase # "gone"
    /\ k \notin queue
    /\ queue' = queue \cup {k}
    /\ UNCHANGED <<obj, cache, wanted, pass, snapshot, faults>>

SnapshotComplete(i) ==
    /\ snapshot[i].state = "pending"
    /\ snapshot' = [snapshot EXCEPT ![i].state = "complete", ![i].completed = TRUE]
    /\ UNCHANGED <<obj, cache, queue, wanted, pass, faults>>

SnapshotFail(i) ==
    /\ snapshot[i].state = "pending"
    /\ Fault("fail")
    /\ snapshot' = [snapshot EXCEPT ![i].state = "failed"]
    /\ UNCHANGED <<obj, cache, queue, wanted, pass>>

\* Someone deletes the snapshot behind the controller's back.
Vanish(i) ==
    /\ Exists(i)
    /\ Fault("vanish")
    /\ snapshot' = [snapshot EXCEPT ![i].state = "gone"]
    /\ UNCHANGED <<obj, cache, queue, wanted, pass>>

Crash ==
    /\ Fault("crash")
    /\ pass' = Idle
    /\ cache' = obj
    /\ queue' = {k \in Images : obj[k].phase # "gone"}
    /\ UNCHANGED <<obj, wanted, snapshot>>

-----------------------------------------------------------------------------
(***************************************************************************)
(* Reconcile: how a pass begins, by what it reads.                         *)
(***************************************************************************)

\* Reading a copy the API server has already left behind counts as a fault.
Picks(k) ==
    /\ pass.step = "idle"
    /\ k \in queue
    /\ queue' = queue \ {k}
    /\ IF cache[k] = obj[k] THEN UNCHANGED faults ELSE Fault("stale")
    /\ UNCHANGED <<obj, cache, wanted, snapshot>>

Starts(k, step, view) ==
    pass' = [step |-> step, image |-> k, base |-> cache[k],
             view |-> view, again |-> FALSE]

ReconcileNothing(k) ==
    /\ Picks(k)
    /\ cache[k].phase = "gone"
    /\ UNCHANGED pass

ReconcileFinalizer(k) ==
    /\ Picks(k)
    /\ cache[k].phase # "gone"
    /\ ~cache[k].finalizer
    /\ Starts(k, "patchSpec", [cache[k] EXCEPT !.finalizer = TRUE])

\* The copy has no deletionTimestamp.
StaysWhileWanted(k) == cache[k].phase = "live" /\ wanted[k]
Stays(k) == cache[k].phase = "live"

\* Whether there is a snapshot to be deleted first.
HasSnapshot(k) == cache[k].snapshotID # None

\* With a snapshot, it is deleted first.
reconcileDelete(k) ==
    /\ Picks(k)
    /\ cache[k].phase # "gone"
    /\ cache[k].finalizer
    /\ ~Stays(k)
    /\ IF HasSnapshot(k)
         THEN Starts(k, "destroy", cache[k])
         ELSE Starts(k, "patchSpec", [cache[k] EXCEPT !.finalizer = FALSE])

\* The snapshot statuses from which an import is begun.
ImportableAgain(status) == status \in {"none", "error"}
Importable(status) == status = "none"

\* A wanted image without a snapshot is imported and a pending snapshot is
\* looked up; a complete one, a failed one and an unwanted image are left alone.
reconcileNormal(k) ==
    /\ Picks(k)
    /\ cache[k].phase # "gone"
    /\ cache[k].finalizer
    /\ Stays(k)
    /\ \/ /\ Importable(cache[k].snapshotStatus)
          /\ wanted[k]
          /\ Starts(k, "resolve", cache[k])
       \/ /\ cache[k].snapshotStatus = "pending"
          /\ Starts(k, "get", cache[k])
       \/ /\ \/ Importable(cache[k].snapshotStatus) /\ ~wanted[k]
             \/ /\ ~Importable(cache[k].snapshotStatus)
                /\ cache[k].snapshotStatus # "pending"
          /\ Starts(k, "patchSpec", cache[k])

Begin(k) == \/ ReconcileNothing(k) \/ ReconcileFinalizer(k)
            \/ reconcileDelete(k) \/ reconcileNormal(k)

-----------------------------------------------------------------------------
(***************************************************************************)
(* The calls of a pass.  Each answers, fails without effect (fault "api"), *)
(* or takes effect and loses its answer (fault "lost").                    *)
(***************************************************************************)

Returns(view, again) ==
    pass' = [pass EXCEPT !.step = "patchSpec", !.view = view, !.again = again]

\* The request that resolves the image's URL; an error is retried.
resolveImageURL ==
    /\ pass.step = "resolve"
    /\ \/ UNCHANGED faults /\ pass' = [pass EXCEPT !.step = "create"]
       \/ Fault("api") /\ Returns(pass.view, TRUE)
    /\ UNCHANGED <<obj, cache, queue, wanted, snapshot>>

\* An import that failed is an error for good.
ImportError == [pass.view EXCEPT !.snapshotStatus = "error"]

\* An import under way is looked up again later.
PollsNot == FALSE
Polls == TRUE

\* SnapshotService.CreateFromURL: the pass writes down the ID it is given and
\* polls a pending snapshot; any other status is an error.
SnapshotCreate ==
    /\ pass.step = "create"
    /\ \/ \E i \in Ids : \E s \in Kept :
            /\ snapshot[i].state = "unused"
            /\ snapshot' = [snapshot EXCEPT
                              ![i] = [image |-> pass.image, state |-> s,
                                      completed |-> s = "complete"]]
            /\ \/ /\ s = "pending"
                  /\ UNCHANGED faults
                  /\ Returns([pass.view EXCEPT !.snapshotID = i,
                                               !.snapshotStatus = "pending"], Polls)
               \/ /\ s # "pending"
                  /\ Fault("fail")
                  /\ Returns([pass.view EXCEPT !.snapshotID = i,
                                               !.snapshotStatus = "error"], FALSE)
               \/ s = "pending" /\ Fault("lost") /\ Returns(ImportError, TRUE)
       \/ Fault("api") /\ UNCHANGED snapshot /\ Returns(ImportError, TRUE)
    /\ UNCHANGED <<obj, cache, queue, wanted>>

\* What a status Vultr reports makes of the import.
VerdictTrusting(state) == IF state = "pending" THEN "pending" ELSE "complete"
Verdict(state) == IF state \in {"pending", "complete"} THEN state ELSE "error"

\* A 404 forgets the snapshot and is an error.
NotFoundStays == [pass.view EXCEPT !.snapshotID = None]
NotFound == [pass.view EXCEPT !.snapshotID = None, !.snapshotStatus = "error"]

\* SnapshotService.Get.
SnapshotGet ==
    /\ pass.step = "get"
    /\ LET state == snapshot[pass.view.snapshotID].state IN
       \/ /\ state \in Kept
          /\ UNCHANGED faults
          /\ Returns([pass.view EXCEPT !.snapshotStatus = Verdict(state)],
                     state = "pending" /\ Polls)
       \/ /\ state \notin Kept
          /\ UNCHANGED faults /\ Returns(NotFound, FALSE)
       \/ Fault("api") /\ Returns(pass.view, TRUE)
    /\ UNCHANGED <<obj, cache, queue, wanted, snapshot>>

\* A failed deletion keeps the finalizer.
DeleteErrorReleases == [pass.view EXCEPT !.finalizer = FALSE]
DeleteError == pass.view
RetriesNot == FALSE
Retries == TRUE

\* SnapshotService.Delete: any error, a 404 too, is retried; only then does the
\* object go.
SnapshotDelete ==
    /\ pass.step = "destroy"
    /\ LET i == pass.view.snapshotID IN
       \/ /\ Exists(i)
          /\ snapshot' = [snapshot EXCEPT ![i].state = "gone"]
          /\ \/ UNCHANGED faults /\ Returns([pass.view EXCEPT !.finalizer = FALSE], FALSE)
             \/ Fault("lost") /\ Returns(DeleteError, Retries)
       \/ /\ ~Exists(i)
          /\ UNCHANGED <<snapshot, faults>> /\ Returns(DeleteError, Retries)
       \/ Fault("api") /\ UNCHANGED snapshot /\ Returns(DeleteError, Retries)
    /\ UNCHANGED <<obj, cache, queue, wanted>>

-----------------------------------------------------------------------------
(***************************************************************************)
(* The deferred patch: a merge patch of what differs between base and      *)
(* view, with no resourceVersion, in two requests.                         *)
(***************************************************************************)

Absent == obj[pass.image].phase = "gone"

SpecDiffers == pass.base.finalizer # pass.view.finalizer

\* An object being deleted disappears with its last finalizer.
MergeSpec(o) == IF o.phase = "deleting" /\ ~pass.view.finalizer
                  THEN Gone
                  ELSE [o EXCEPT !.finalizer = pass.view.finalizer]

PatchSpec ==
    /\ pass.step = "patchSpec"
    /\ \/ /\ SpecDiffers /\ ~Absent
          /\ obj' = [obj EXCEPT ![pass.image] = MergeSpec(@)]
          /\ UNCHANGED faults
       \/ /\ SpecDiffers => Absent
          /\ UNCHANGED <<obj, faults>>
       \/ SpecDiffers /\ Fault("patch") /\ UNCHANGED obj
    /\ pass' = [pass EXCEPT !.step = "patchStatus"]
    /\ UNCHANGED <<cache, queue, wanted, snapshot>>

StatusDiffers == \/ pass.base.snapshotID # pass.view.snapshotID
                 \/ pass.base.snapshotStatus # pass.view.snapshotStatus

MergeStatus(o) ==
    [o EXCEPT !.snapshotID = IF pass.base.snapshotID # pass.view.snapshotID
                               THEN pass.view.snapshotID ELSE @,
              !.snapshotStatus = IF pass.base.snapshotStatus # pass.view.snapshotStatus
                                   THEN pass.view.snapshotStatus ELSE @]

PatchStatus ==
    /\ pass.step = "patchStatus"
    /\ \/ /\ StatusDiffers /\ ~Absent
          /\ obj' = [obj EXCEPT ![pass.image] = MergeStatus(@)]
          /\ UNCHANGED faults
       \/ /\ StatusDiffers => Absent
          /\ UNCHANGED <<obj, faults>>
       \/ StatusDiffers /\ Fault("patch") /\ UNCHANGED obj
    /\ pass' = Idle
    /\ queue' = IF pass.again THEN queue \cup {pass.image} ELSE queue
    /\ UNCHANGED <<cache, wanted, snapshot>>

-----------------------------------------------------------------------------
(***************************************************************************)
(* The specification.                                                      *)
(***************************************************************************)

Works == \/ resolveImageURL \/ SnapshotCreate \/ SnapshotGet \/ SnapshotDelete
         \/ PatchSpec \/ PatchStatus

Next == \/ \E k \in Images : \/ RequestDeletion(k) \/ MachineChange(k)
                             \/ CacheSync(k) \/ Resync(k)
                             \/ Begin(k)
        \/ \E i \in Ids : SnapshotComplete(i) \/ SnapshotFail(i) \/ Vanish(i)
        \/ Works
        \/ Crash

Spec == Init /\ [][Next]_vars

\* The worker finishes what it began, the first-in first-out queue passes no
\* image over for ever, the watch stream delivers, and Vultr finishes a
\* pending snapshot.  The periodic resync comes every ten hours: it is counted
\* on only after a patch was dropped.
FairSpec ==
    /\ Spec
    /\ WF_vars(Works)
    /\ \A k \in Images :
          SF_vars(Begin(k)) /\ WF_vars(CacheSync(k)) /\ WF_vars(faults.dropped /\ Resync(k))
    /\ \A i \in Ids : WF_vars(SnapshotComplete(i))

-----------------------------------------------------------------------------
(***************************************************************************)
(* Properties.                                                             *)
(***************************************************************************)

Referenced(i) == \E k \in Images : obj[k].phase # "gone" /\ obj[k].snapshotID = i

InHand(i) == /\ pass.step \in {"patchSpec", "patchStatus"}
             /\ pass.view.snapshotID = i
             /\ pass.base.snapshotID # i

\* Snapshots that exist, and are billed, though no object names them.
Leaked == {i \in Ids : Exists(i) /\ ~Referenced(i) /\ ~InHand(i)}

\* Each slip (a patch dropped, a stale read, a crash, a lost answer) leaks at
\* most one snapshot, and nothing else does, whatever Vultr answers.
LeakBound == Cardinality(Leaked) <= faults.slips

\* As long as at most one slip has disturbed the controller, an image that the
\* API server shows as complete names a snapshot of its own that Vultr did
\* complete, though the ID and the status are patched field by field: it is
\* what a machine's instance is created from.
CompleteIsReal ==
    faults.slips <= 1 =>
        \A k \in Images :
            obj[k].snapshotStatus = "complete" =>
                \E i \in Ids : /\ obj[k].snapshotID = i
                               /\ snapshot[i].image = k
                               /\ snapshot[i].completed

Advances(old, new) ==
    \/ new.phase = "gone"
    \/ /\ new.snapshotStatus = old.snapshotStatus
       /\ new.snapshotID = old.snapshotID
    \/ /\ old.snapshotStatus = "none"
       /\ new.snapshotStatus \in {"pending", "error"}
    \/ /\ old.snapshotStatus = "pending"
       /\ new.snapshotStatus \in {"complete", "error"}
       /\ new.snapshotID \in {old.snapshotID, None}

\* Without a slip the import only moves forward: a complete or a failed import
\* is never taken up again, and a snapshot is not exchanged for another one.
ImportMovesForward ==
    [][faults'.slips = 0 => \A k \in Images : Advances(obj[k], obj'[k])]_vars

\* The controller never deletes the snapshot of an image whose deletion nobody
\* requested, however stale the pass's copy.
DestroysOnlyDeleted ==
    [][\A i \in Ids :
          Exists(i) /\ ~Exists(i)' =>
              pass' = pass \/ obj[snapshot[i].image].phase # "live"]_vars

\* The import of an image that is wanted and stays so ends, one way or the
\* other.
ImportEnds ==
    \A k \in Images :
        <>[](wanted[k] /\ obj[k].phase = "live")
            => <>(obj[k].snapshotStatus \in {"complete", "error"})

\* Every image whose deletion was requested leaves the API server, unless the
\* snapshot it names disappeared first and is asked for again and again.
DeletionEnds ==
    \A k \in Images :
        [](obj[k].phase = "deleting" =>
              <>(\/ obj[k].phase = "gone"
                 \/ [](\E i \in Ids : obj[k].snapshotID = i /\ ~Exists(i))))

\* api/v1beta1/krumkakeimage_types.go:9 says the finalizer is there to clean up
\* before the object is removed from the API server: a deletion completes.
DeletionCompletes ==
    \A k \in Images : obj[k].phase = "deleting" ~> obj[k].phase = "gone"
================================================================================
