--------------------------- MODULE KrumkakeImageInv ---------------------------
(***************************************************************************)
(* The inductive invariants of KrumkakeImage: what relates the object at   *)
(* the API server, the cache, the pass under way and the snapshots.        *)
(***************************************************************************)
EXTENDS KrumkakeImage

\* An object only moves from live to deleting to gone.
Reaches(p, q) == p = q \/ p = "live" \/ q = "gone"

HoldsFinalizer(o) == o.phase # "gone" /\ o.finalizer

\* The steps between reading the object and returning, and those after.
Calls == {"resolve", "create", "get", "destroy"}
Patches == {"patchSpec", "patchStatus"}

\* Slips are among the faults counted.
Counts == faults.slips <= faults.all

\* The pass read the object before the cache's copy was taken, and that before
\* the API server's copy: no copy is ahead of a later one.
Ordered ==
    /\ \A k \in Images : Reaches(cache[k].phase, obj[k].phase)
    /\ pass.step # "idle" => /\ pass.base.phase # "gone"
                             /\ Reaches(pass.base.phase, cache[pass.image].phase)

\* A copy that is live and holds the finalizer proves that the object still
\* does, for only a pass over a deleting copy takes the finalizer away.
Guarded ==
    /\ \A k \in Images :
          cache[k].phase = "live" /\ cache[k].finalizer => HoldsFinalizer(obj[k])
    /\ pass.step # "idle" /\ pass.base.phase = "live" /\ pass.base.finalizer
          => HoldsFinalizer(obj[pass.image])

\* A copy that names a snapshot names one that was created for its image; the
\* ID and the status, though patched field by field, never contradict each other.
Coherent(o, k) ==
    /\ o.snapshotID \in Ids => /\ snapshot[o.snapshotID].image = k
                               /\ snapshot[o.snapshotID].state # "unused"
    /\ o.snapshotStatus = "none" => o.snapshotID = None
    /\ o.snapshotStatus = "pending" => o.snapshotID \in Ids

Named ==
    /\ \A k \in Images : Coherent(obj[k], k) /\ Coherent(cache[k], k)
    /\ pass.step # "idle" => Coherent(pass.base, pass.image) /\ Coherent(pass.view, pass.image)

\* Every call of a pass has passed the checks on its way there.
Dispatched ==
    /\ pass.step \in Calls => pass.view = pass.base /\ pass.base.finalizer
    /\ pass.step \in {"resolve", "create"} =>
          pass.base.phase = "live" /\ pass.base.snapshotStatus = "none"
    /\ pass.step = "get" =>
          pass.base.phase = "live" /\ pass.base.snapshotStatus = "pending"
    /\ pass.step = "destroy" => pass.base.phase = "deleting"

\* A snapshot that is complete was completed.
Finished == \A i \in Ids : snapshot[i].state = "complete" => snapshot[i].completed

Completed(i) == i \in Ids /\ snapshot[i].completed

\* What a pass may have made of a live image.
Progress(base, view) ==
    \/ /\ base.snapshotStatus = "none"
       /\ view.snapshotID \in Ids \cup {None}
       /\ view.snapshotStatus \in {"pending", "error"}
       /\ view.snapshotStatus = "pending" => view.snapshotID \in Ids
    \/ /\ base.snapshotStatus = "pending"
       /\ view.snapshotID = base.snapshotID
       /\ \/ view.snapshotStatus = "complete" /\ Completed(base.snapshotID)
          \/ view.snapshotStatus = "error"
    \/ /\ base.snapshotStatus = "pending" /\ ~Exists(base.snapshotID)
       /\ view.snapshotID = None /\ view.snapshotStatus = "error"

\* A pass about to patch has changed nothing but the finalizer, which it takes
\* away only when no snapshot is left; or it has moved the import of a live
\* image on.
Settled ==
    pass.step \in Patches =>
       \/ /\ pass.view.snapshotID = pass.base.snapshotID
          /\ pass.view.snapshotStatus = pass.base.snapshotStatus
          /\ \/ pass.view.finalizer
             \/ /\ pass.base.phase = "deleting"
                /\ pass.base.snapshotID \in Ids => ~Exists(pass.base.snapshotID)
       \/ /\ pass.base.phase = "live" /\ pass.base.finalizer /\ pass.view.finalizer
          /\ Progress(pass.base, pass.view)

SafetyInv == /\ TypeOK /\ Counts /\ Ordered /\ Guarded /\ Named
             /\ Dispatched /\ Finished /\ Settled

-----------------------------------------------------------------------------
\* What the object has become since the copy c was taken of it, as long as no
\* pass wrote what it had computed from an outdated copy.
Descends(c, o) ==
    \/ o.phase = "gone" \/ c.snapshotStatus = "none"
    \/ o.snapshotID = c.snapshotID /\ o.snapshotStatus = c.snapshotStatus
    \/ /\ c.snapshotStatus = "pending" /\ o.snapshotStatus \in {"complete", "error"}
       /\ \/ o.snapshotID = c.snapshotID
          \/ o.snapshotID = None /\ o.snapshotStatus = "error" /\ ~Exists(c.snapshotID)

\* Before the first slip no pass is out of date, and no copy is older than that;
\* the first slip may make one pass so.
Synced ==
    /\ faults.slips = 0 =>
          /\ \A k \in Images : Descends(cache[k], obj[k])
          /\ pass.step # "idle" =>
                \/ obj[pass.image].phase = "gone"
                \/ /\ obj[pass.image].snapshotID = pass.base.snapshotID
                   /\ obj[pass.image].snapshotStatus = pass.base.snapshotStatus
    /\ faults.slips <= 1 /\ pass.step # "idle" => Descends(pass.base, obj[pass.image])

\* A complete import is that of a completed snapshot; the pass that writes this
\* down writes it next to the snapshot's ID.
Real ==
    faults.slips <= 1 =>
       /\ \A k \in Images :
             obj[k].snapshotStatus = "complete" => Completed(obj[k].snapshotID)
       /\ pass.step \in Patches /\ pass.view.snapshotStatus = "complete" =>
             \/ pass.base.snapshotStatus = "complete"
             \/ obj[pass.image].phase = "gone"
             \/ obj[pass.image].snapshotID = pass.base.snapshotID

CompleteInv == SafetyInv /\ Synced /\ Real

-----------------------------------------------------------------------------
\* A named snapshot is protected by its object's finalizer.
Protected == \A k \in Images : obj[k].snapshotID \in Ids => obj[k].finalizer

\* A pass that works on an outdated ID may still leak the snapshot the object
\* names by now; the stale read that made it so is paid already.
Debt == IF /\ pass.step # "idle"
           /\ obj[pass.image].phase # "gone"
           /\ obj[pass.image].snapshotID # pass.base.snapshotID
          THEN 1 ELSE 0

Accounted == IsFiniteSet(Leaked) /\ Cardinality(Leaked) + Debt <= faults.slips

LeakInv == SafetyInv /\ Protected /\ Accounted
===============================================================================
