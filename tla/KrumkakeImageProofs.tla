-------------------------- MODULE KrumkakeImageProofs --------------------------
(***************************************************************************)
(* Theorems about KrumkakeImage, for every set of images, of snapshot IDs  *)
(* and of faults.                                                          *)
(***************************************************************************)
EXTENDS KrumkakeImageInv, FiniteSetTheorems, TLAPS

-----------------------------------------------------------------------------
(***************************************************************************)
(* What a step does, action by action.                                     *)
(***************************************************************************)

\* A fault keeps both counters within the bound; only a slip counts as one.
LEMMA FaultStep ==
    ASSUME TypeOK, Counts, NEW kind, Fault(kind)
    PROVE  /\ faults' \in [all : 0..MaxFaults, slips : 0..MaxFaults, dropped : BOOLEAN]
           /\ Counts'
           /\ faults.slips \in Nat /\ faults'.slips \in Nat
           /\ faults'.slips = faults.slips + IF kind \in Slips THEN 1 ELSE 0
  BY ConstantsAssumption DEF TypeOK, Counts, Fault

\* The worker between two passes, and an object that is gone, are well typed.
LEMMA IdleType ==
    /\ Idle \in Passes /\ Idle.step = "idle" /\ Gone \in Objects
    /\ Gone.phase = "gone" /\ ~Gone.finalizer
    /\ Gone.snapshotID = None /\ Gone.snapshotStatus = "none"
  BY DEF Idle, Passes, Steps, Gone, Fresh, Objects, Phases, Statuses

\* The fields of the pass.
LEMMA PassFields ==
    ASSUME TypeOK
    PROVE  /\ pass.step \in Steps /\ pass.image \in Images \cup {None}
           /\ pass.base \in Objects /\ pass.view \in Objects /\ pass.again \in BOOLEAN
  BY DEF TypeOK, Passes

\* The fields of an object.
LEMMA ObjectFields ==
    ASSUME NEW o \in Objects
    PROVE  /\ o.phase \in Phases /\ o.finalizer \in BOOLEAN
           /\ o.snapshotID \in Ids \cup {None} /\ o.snapshotStatus \in Statuses
  BY DEF Objects

\* A pass begins with the cache's copy as its base, and goes on to a call only
\* with a copy that has passed the checks.
LEMMA BeginFacts ==
    ASSUME TypeOK, Counts, NEW k \in Images, Begin(k)
    PROVE  /\ UNCHANGED <<obj, cache, wanted, snapshot>>
           /\ queue' \subseteq Images
           /\ pass.step = "idle"
           /\ \/ UNCHANGED pass
              \/ /\ pass' \in Passes /\ pass'.image = k /\ pass'.base = cache[k]
                 /\ pass'.step \in {"patchSpec", "resolve", "get", "destroy"}
                 /\ cache[k].phase # "gone"
                 /\ pass'.view.snapshotID = cache[k].snapshotID
                 /\ pass'.view.snapshotStatus = cache[k].snapshotStatus
                 /\ pass'.step \in Calls =>
                       pass'.view = cache[k] /\ cache[k].finalizer
                 /\ pass'.step = "resolve" =>
                       cache[k].phase = "live" /\ cache[k].snapshotStatus = "none"
                 /\ pass'.step = "get" =>
                       cache[k].phase = "live" /\ cache[k].snapshotStatus = "pending"
                 /\ pass'.step = "destroy" =>
                       cache[k].phase = "deleting" /\ cache[k].snapshotID \in Ids
                 /\ pass'.step = "patchSpec" =>
                       \/ pass'.view.finalizer
                       \/ cache[k].phase = "deleting" /\ cache[k].snapshotID = None
           /\ \/ cache[k] = obj[k] /\ UNCHANGED faults
              \/ Fault("stale")
  <1>. DEFINE New(step, view) ==
                 /\ pass'.image = k /\ pass'.base = cache[k]
                 /\ pass'.step = step /\ pass'.view = view /\ pass' \in Passes
  <1>1. cache[k] \in Objects /\ queue \subseteq Images
    BY DEF TypeOK
  <1>2. Picks(k)
    BY DEF Begin, ReconcileNothing, ReconcileFinalizer, reconcileDelete, reconcileNormal
  <1>3. /\ UNCHANGED <<obj, cache, wanted, snapshot>> /\ queue' \subseteq Images
        /\ pass.step = "idle"
        /\ (cache[k] = obj[k] /\ UNCHANGED faults) \/ Fault("stale")
    BY <1>1, <1>2 DEF Picks
  <1>4. ASSUME NEW step \in Steps, NEW view \in Objects, Starts(k, step, view)
        PROVE  New(step, view)
    BY <1>1, <1>4 DEF Starts, Passes
  <1>5. CASE ReconcileNothing(k)
    BY <1>3, <1>5 DEF ReconcileNothing
  <1>6. CASE ReconcileFinalizer(k)
    <2>. DEFINE view == [cache[k] EXCEPT !.finalizer = TRUE]
    <2>1. /\ view \in Objects /\ view.finalizer
          /\ view.snapshotID = cache[k].snapshotID
          /\ view.snapshotStatus = cache[k].snapshotStatus
      BY <1>1 DEF Objects
    <2>2. Starts(k, "patchSpec", view) /\ cache[k].phase # "gone"
      BY <1>6 DEF ReconcileFinalizer
    <2>. HIDE DEF view
    <2>3. New("patchSpec", view)
      BY <1>4, <2>1, <2>2 DEF Steps
    <2>. QED BY <1>3, <2>1, <2>2, <2>3 DEF Calls
  <1>7. CASE reconcileDelete(k)
    <2>1. /\ cache[k].phase = "deleting" /\ cache[k].finalizer
          /\ IF HasSnapshot(k)
               THEN Starts(k, "destroy", cache[k])
               ELSE Starts(k, "patchSpec", [cache[k] EXCEPT !.finalizer = FALSE])
      BY <1>1, <1>7, ObjectFields DEF reconcileDelete, Stays, Phases
    <2>2. CASE HasSnapshot(k)
      <3>1. New("destroy", cache[k]) /\ cache[k].snapshotID \in Ids
        BY <1>1, <1>4, <2>1, <2>2, ObjectFields DEF HasSnapshot, Steps
      <3>. QED BY <1>3, <2>1, <3>1
    <2>3. CASE ~HasSnapshot(k)
      <3>. DEFINE view == [cache[k] EXCEPT !.finalizer = FALSE]
      <3>1. /\ view \in Objects
            /\ view.snapshotID = cache[k].snapshotID
            /\ view.snapshotStatus = cache[k].snapshotStatus
        BY <1>1 DEF Objects
      <3>2. Starts(k, "patchSpec", view)
        BY <2>1, <2>3
      <3>. HIDE DEF view
      <3>3. New("patchSpec", view) /\ cache[k].snapshotID = None
        BY <1>4, <2>3, <3>1, <3>2 DEF Steps, HasSnapshot
      <3>. QED BY <1>3, <2>1, <3>1, <3>3 DEF Calls
    <2>. QED BY <2>2, <2>3
  <1>8. CASE reconcileNormal(k)
    <2>1. cache[k].phase = "live" /\ cache[k].finalizer
      BY <1>8 DEF reconcileNormal, Stays
    <2>2. \/ cache[k].snapshotStatus = "none" /\ Starts(k, "resolve", cache[k])
          \/ cache[k].snapshotStatus = "pending" /\ Starts(k, "get", cache[k])
          \/ Starts(k, "patchSpec", cache[k])
      BY <1>8 DEF reconcileNormal, Importable
    <2>3. \/ cache[k].snapshotStatus = "none" /\ New("resolve", cache[k])
          \/ cache[k].snapshotStatus = "pending" /\ New("get", cache[k])
          \/ New("patchSpec", cache[k])
      BY <1>1, <1>4, <2>2 DEF Steps
    <2>. QED BY <1>3, <2>1, <2>3 DEF Calls
  <1>. QED BY <1>5, <1>6, <1>7, <1>8 DEF Begin

\* A call that returns goes on to the deferred patch.
LEMMA ReturnsStep ==
    ASSUME TypeOK, NEW view \in Objects, NEW again \in BOOLEAN, Returns(view, again)
    PROVE  /\ pass' \in Passes /\ pass'.step = "patchSpec"
           /\ pass'.image = pass.image /\ pass'.base = pass.base /\ pass'.view = view
  BY DEF Returns, TypeOK, Passes, Steps

\* Resolving the URL changes nothing but the pass.
LEMMA ResolveFacts ==
    ASSUME TypeOK, Counts, resolveImageURL
    PROVE  /\ UNCHANGED <<obj, cache, queue, wanted, snapshot>>
           /\ UNCHANGED faults \/ Fault("api")
           /\ pass.step = "resolve" /\ pass' \in Passes
           /\ pass'.step \in {"create", "patchSpec"} /\ pass'.view = pass.view
           /\ pass'.image = pass.image /\ pass'.base = pass.base
  <1>1. CASE pass' = [pass EXCEPT !.step = "create"] /\ UNCHANGED faults
    BY <1>1 DEF resolveImageURL, TypeOK, Passes, Steps
  <1>2. CASE Returns(pass.view, TRUE) /\ Fault("api")
    BY <1>2, ReturnsStep, PassFields DEF resolveImageURL
  <1>. QED BY <1>1, <1>2 DEF resolveImageURL

\* The record of a new snapshot.
NewSnapshot(s) == [image |-> pass.image, state |-> s, completed |-> s = "complete"]

\* Vultr takes the request, and begins to import into snapshot i.
Imports(i, s) ==
    /\ snapshot[i].state = "unused"
    /\ snapshot' = [snapshot EXCEPT ![i] = NewSnapshot(s)]
    /\ \/ /\ UNCHANGED faults
          /\ Returns([pass.view EXCEPT !.snapshotID = i,
                                       !.snapshotStatus = "pending"], Polls)
       \/ /\ Fault("fail")
          /\ Returns([pass.view EXCEPT !.snapshotID = i,
                                       !.snapshotStatus = "error"], FALSE)
       \/ Fault("lost") /\ Returns(ImportError, TRUE)

\* The import writes an ID down only when Vultr has just given it out.
LEMMA CreateFacts ==
    ASSUME TypeOK, Counts, SnapshotCreate
    PROVE  /\ UNCHANGED <<obj, cache, queue, wanted>>
           /\ pass.step = "create" /\ pass' \in Passes /\ pass'.step = "patchSpec"
           /\ pass'.image = pass.image /\ pass'.base = pass.base
           /\ pass'.view.finalizer = pass.view.finalizer
           /\ pass'.view.snapshotStatus \in {"pending", "error"}
           /\ \/ /\ UNCHANGED snapshot /\ Fault("api")
                 /\ pass'.view.snapshotID = pass.view.snapshotID
                 /\ pass'.view.snapshotStatus = "error"
              \/ \E i \in Ids, s \in Kept :
                    /\ snapshot[i].state = "unused"
                    /\ snapshot' = [snapshot EXCEPT ![i] = NewSnapshot(s)]
                    /\ \/ /\ pass'.view.snapshotID = i
                          /\ UNCHANGED faults \/ Fault("fail")
                       \/ /\ pass'.view.snapshotID = pass.view.snapshotID
                          /\ pass'.view.snapshotStatus = "error"
                          /\ Fault("lost")
  <1>. pass.view \in Objects
    BY PassFields
  <1>0. UNCHANGED <<obj, cache, queue, wanted>> /\ pass.step = "create"
    BY DEF SnapshotCreate
  <1>1. /\ ImportError \in Objects /\ ImportError.snapshotStatus = "error"
        /\ ImportError.finalizer = pass.view.finalizer
        /\ ImportError.snapshotID = pass.view.snapshotID
    BY DEF ImportError, Objects, Statuses
  <1>2. CASE UNCHANGED snapshot /\ Fault("api") /\ Returns(ImportError, TRUE)
    BY <1>0, <1>1, <1>2, ReturnsStep
  <1>3. ASSUME NEW i \in Ids, NEW s \in Kept, Imports(i, s)
        PROVE  /\ pass' \in Passes /\ pass'.step = "patchSpec"
               /\ pass'.image = pass.image /\ pass'.base = pass.base
               /\ pass'.view.finalizer = pass.view.finalizer
               /\ pass'.view.snapshotStatus \in {"pending", "error"}
               /\ \/ /\ pass'.view.snapshotID = i
                     /\ UNCHANGED faults \/ Fault("fail")
                  \/ /\ pass'.view.snapshotID = pass.view.snapshotID
                     /\ pass'.view.snapshotStatus = "error"
                     /\ Fault("lost")
    <2>1. ASSUME NEW st \in {"pending", "error"}, NEW again \in BOOLEAN,
                 Returns([pass.view EXCEPT !.snapshotID = i, !.snapshotStatus = st], again)
          PROVE  /\ pass' \in Passes /\ pass'.step = "patchSpec"
                 /\ pass'.image = pass.image /\ pass'.base = pass.base
                 /\ pass'.view.finalizer = pass.view.finalizer
                 /\ pass'.view.snapshotStatus = st /\ pass'.view.snapshotID = i
      <3>. DEFINE view == [pass.view EXCEPT !.snapshotID = i, !.snapshotStatus = st]
      <3>1. /\ view \in Objects /\ view.finalizer = pass.view.finalizer
            /\ view.snapshotStatus = st /\ view.snapshotID = i
        BY DEF Objects, Statuses
      <3>. HIDE DEF view
      <3>2. Returns(view, again)
        BY <2>1 DEF view
      <3>. QED BY <3>1, <3>2, ReturnsStep
    <2>2. CASE Fault("lost") /\ Returns(ImportError, TRUE)
      BY <1>1, <2>2, ReturnsStep
    <2>3. CASE /\ UNCHANGED faults
               /\ Returns([pass.view EXCEPT !.snapshotID = i,
                                            !.snapshotStatus = "pending"], Polls)
      BY <2>1, <2>3 DEF Polls
    <2>4. CASE /\ Fault("fail")
               /\ Returns([pass.view EXCEPT !.snapshotID = i,
                                            !.snapshotStatus = "error"], FALSE)
      BY <2>1, <2>4
    <2>. QED BY <1>3, <2>2, <2>3, <2>4 DEF Imports
  <1>4. \/ UNCHANGED snapshot /\ Fault("api") /\ Returns(ImportError, TRUE)
        \/ \E i \in Ids, s \in Kept : Imports(i, s)
    BY DEF SnapshotCreate, NewSnapshot, Imports
  <1>5. ASSUME NEW i \in Ids, NEW s \in Kept, Imports(i, s)
        PROVE  /\ snapshot[i].state = "unused"
               /\ snapshot' = [snapshot EXCEPT ![i] = NewSnapshot(s)]
    BY <1>5 DEF Imports
  <1>. QED BY <1>0, <1>2, <1>3, <1>4, <1>5


\* A look at the snapshot writes down what Vultr reports of it, and forgets it
\* only when it is no more.
LEMMA GetFacts ==
    ASSUME TypeOK, Counts, SnapshotGet, pass.view.snapshotStatus = "pending"
    PROVE  /\ UNCHANGED <<obj, cache, queue, wanted, snapshot>>
           /\ UNCHANGED faults \/ Fault("api")
           /\ pass.step = "get" /\ pass' \in Passes /\ pass'.step = "patchSpec"
           /\ pass'.image = pass.image /\ pass'.base = pass.base
           /\ pass'.view.finalizer = pass.view.finalizer
           /\ \/ pass'.view = pass.view
              \/ /\ pass'.view.snapshotID = pass.view.snapshotID
                 /\ pass'.view.snapshotStatus = "complete"
                 /\ snapshot[pass.view.snapshotID].state = "complete"
              \/ /\ pass'.view.snapshotID = pass.view.snapshotID
                 /\ pass'.view.snapshotStatus = "error"
              \/ /\ pass'.view.snapshotID = None
                 /\ pass'.view.snapshotStatus = "error"
                 /\ ~Exists(pass.view.snapshotID)
  <1>. DEFINE i == pass.view.snapshotID
              state == snapshot[i].state
  <1>. pass.view \in Objects
    BY PassFields
  <1>0. UNCHANGED <<obj, cache, queue, wanted, snapshot>> /\ pass.step = "get"
    BY DEF SnapshotGet
  <1>1. CASE /\ state \in Kept /\ UNCHANGED faults
             /\ \E again \in BOOLEAN :
                   Returns([pass.view EXCEPT !.snapshotStatus = Verdict(state)], again)
    <2>. DEFINE view == [pass.view EXCEPT !.snapshotStatus = Verdict(state)]
    <2>1. \/ Verdict(state) = "pending"
          \/ Verdict(state) = "complete" /\ state = "complete"
          \/ Verdict(state) = "error"
      BY DEF Verdict
    <2>2. /\ view \in Objects /\ view.finalizer = pass.view.finalizer
          /\ view.snapshotID = i /\ view.snapshotStatus = Verdict(state)
          /\ Verdict(state) = "pending" => view = pass.view
      BY <2>1 DEF Objects, Statuses
    <2>3. PICK again \in BOOLEAN : Returns(view, again)
      BY <1>1
    <2>. HIDE DEF view
    <2>. QED BY <1>0, <1>1, <2>1, <2>2, <2>3, ReturnsStep
  <1>2. CASE state \notin Kept /\ UNCHANGED faults /\ Returns(NotFound, FALSE)
    <2>1. /\ NotFound \in Objects /\ NotFound.finalizer = pass.view.finalizer
          /\ NotFound.snapshotID = None /\ NotFound.snapshotStatus = "error"
      BY DEF NotFound, Objects, Statuses
    <2>. QED BY <1>0, <1>2, <2>1, ReturnsStep DEF Exists
  <1>3. CASE Fault("api") /\ Returns(pass.view, TRUE)
    BY <1>0, <1>3, ReturnsStep
  <1>. QED BY <1>1, <1>2, <1>3 DEF SnapshotGet, Polls

\* The deletion gives the finalizer up only once the snapshot is gone.
LEMMA DeleteFacts ==
    ASSUME TypeOK, Counts, SnapshotDelete
    PROVE  /\ UNCHANGED <<obj, cache, queue, wanted>>
           /\ UNCHANGED faults \/ Fault("api") \/ Fault("lost")
           /\ pass.step = "destroy" /\ pass' \in Passes /\ pass'.step = "patchSpec"
           /\ pass'.image = pass.image /\ pass'.base = pass.base
           /\ pass'.view.snapshotID = pass.view.snapshotID
           /\ pass'.view.snapshotStatus = pass.view.snapshotStatus
           /\ \/ UNCHANGED snapshot
              \/ snapshot' = [snapshot EXCEPT ![pass.view.snapshotID].state = "gone"]
           /\ \/ pass'.view = pass.view
              \/ ~Exists(pass.view.snapshotID)'
  <1>. DEFINE i == pass.view.snapshotID
              released == [pass.view EXCEPT !.finalizer = FALSE]
  <1>0. UNCHANGED <<obj, cache, queue, wanted>> /\ pass.step = "destroy"
    BY DEF SnapshotDelete
  <1>1. /\ released \in Objects /\ pass.view \in Objects
        /\ released.snapshotID = i
        /\ released.snapshotStatus = pass.view.snapshotStatus
        /\ i \in Ids
    BY <1>0, PassFields DEF Objects, TypeOK
  <1>. HIDE DEF released
  <1>2. CASE /\ snapshot' = [snapshot EXCEPT ![i].state = "gone"]
             /\ UNCHANGED faults /\ Returns(released, FALSE)
    <2>1. snapshot'[i].state = "gone"
      BY <1>1, <1>2 DEF TypeOK, Snapshots
    <2>2. pass'.view = released
      BY <1>1, <1>2, ReturnsStep
    <2>3. ~Exists(pass.view.snapshotID)'
      <3>1. pass'.view.snapshotID = i
        BY <1>1, <2>2
      <3>. QED BY <2>1, <3>1 DEF Exists, Kept
    <2>. QED BY <1>0, <1>1, <1>2, <2>2, <2>3, ReturnsStep
  <1>3. CASE /\ \/ UNCHANGED snapshot
                \/ snapshot' = [snapshot EXCEPT ![i].state = "gone"]
             /\ UNCHANGED faults \/ Fault("api") \/ Fault("lost")
             /\ Returns(pass.view, TRUE)
    BY <1>0, <1>1, <1>3, ReturnsStep
  <1>. QED BY <1>2, <1>3 DEF SnapshotDelete, DeleteError, Retries, released

\* The first patch is about the finalizer of one object, which may disappear.
LEMMA PatchSpecFacts ==
    ASSUME TypeOK, Counts, PatchSpec
    PROVE  /\ UNCHANGED <<cache, queue, wanted, snapshot>>
           /\ pass.step = "patchSpec" /\ pass'.step = "patchStatus" /\ pass' \in Passes
           /\ pass'.image = pass.image /\ pass'.base = pass.base
           /\ pass'.view = pass.view
           /\ obj' \in [Images -> Objects]
           /\ \A n \in Images : n # pass.image => obj'[n] = obj[n]
           /\ \/ UNCHANGED <<obj, faults>>
              \/ UNCHANGED obj /\ Fault("patch") /\ SpecDiffers
              \/ /\ UNCHANGED faults
                 /\ SpecDiffers /\ ~pass.view.finalizer
                 /\ obj[pass.image].phase = "deleting"
                 /\ obj'[pass.image] = Gone
              \/ /\ UNCHANGED faults /\ SpecDiffers
                 /\ obj[pass.image].phase # "gone"
                 /\ obj[pass.image].phase = "deleting" => pass.view.finalizer
                 /\ obj'[pass.image].phase = obj[pass.image].phase
                 /\ obj'[pass.image].finalizer = pass.view.finalizer
                 /\ obj'[pass.image].snapshotID = obj[pass.image].snapshotID
                 /\ obj'[pass.image].snapshotStatus = obj[pass.image].snapshotStatus
  <1>. DEFINE o == obj[pass.image]
              merged == [o EXCEPT !.finalizer = pass.view.finalizer]
  <1>1. /\ UNCHANGED <<cache, queue, wanted, snapshot>>
        /\ pass.step = "patchSpec" /\ pass.image \in Images
        /\ pass'.step = "patchStatus" /\ pass' \in Passes
        /\ pass'.image = pass.image /\ pass'.base = pass.base
        /\ pass'.view = pass.view
    BY DEF PatchSpec, TypeOK, Passes, Steps
  <1>2. obj \in [Images -> Objects] /\ o \in Objects /\ pass.view \in Objects
    BY <1>1, PassFields DEF TypeOK
  <1>3. CASE UNCHANGED obj /\ (UNCHANGED faults \/ (Fault("patch") /\ SpecDiffers))
    BY <1>1, <1>2, <1>3
  <1>4. CASE /\ SpecDiffers /\ o.phase # "gone" /\ UNCHANGED faults
             /\ obj' = [obj EXCEPT ![pass.image] = MergeSpec(o)]
    <2>1. /\ merged \in Objects /\ merged.phase = o.phase
          /\ merged.finalizer = pass.view.finalizer
          /\ merged.snapshotID = o.snapshotID
          /\ merged.snapshotStatus = o.snapshotStatus
      BY <1>2 DEF Objects
    <2>2. \/ o.phase = "deleting" /\ ~pass.view.finalizer /\ MergeSpec(o) = Gone
          \/ /\ o.phase = "deleting" => pass.view.finalizer
             /\ MergeSpec(o) = merged
      BY DEF MergeSpec
    <2>3. MergeSpec(o) \in Objects
      BY <2>1, <2>2, IdleType
    <2>. HIDE DEF merged, o
    <2>4. /\ obj' \in [Images -> Objects] /\ obj'[pass.image] = MergeSpec(o)
          /\ \A n \in Images : n # pass.image => obj'[n] = obj[n]
      BY <1>1, <1>2, <1>4, <2>3
    <2>. QED BY <1>1, <1>4, <2>1, <2>2, <2>4 DEF o
  <1>. QED BY <1>3, <1>4 DEF PatchSpec, Absent

\* The second patch is about the import of one object, and ends the pass.
LEMMA PatchStatusFacts ==
    ASSUME TypeOK, Counts, PatchStatus
    PROVE  /\ UNCHANGED <<cache, wanted, snapshot>> /\ queue' \subseteq Images
           /\ pass.step = "patchStatus" /\ pass' = Idle
           /\ obj' \in [Images -> Objects]
           /\ \A n \in Images : /\ n # pass.image => obj'[n] = obj[n]
                                /\ obj'[n].phase = obj[n].phase
                                /\ obj'[n].finalizer = obj[n].finalizer
           /\ \/ /\ UNCHANGED <<obj, faults>>
                 /\ StatusDiffers => obj[pass.image].phase = "gone"
              \/ UNCHANGED obj /\ Fault("patch") /\ StatusDiffers
              \/ /\ UNCHANGED faults /\ StatusDiffers
                 /\ obj[pass.image].phase # "gone"
                 /\ obj'[pass.image].snapshotID =
                       IF pass.base.snapshotID # pass.view.snapshotID
                         THEN pass.view.snapshotID ELSE obj[pass.image].snapshotID
                 /\ obj'[pass.image].snapshotStatus =
                       IF pass.base.snapshotStatus # pass.view.snapshotStatus
                         THEN pass.view.snapshotStatus ELSE obj[pass.image].snapshotStatus
  <1>. DEFINE o == obj[pass.image]
              id == IF pass.base.snapshotID # pass.view.snapshotID
                      THEN pass.view.snapshotID ELSE o.snapshotID
              status == IF pass.base.snapshotStatus # pass.view.snapshotStatus
                          THEN pass.view.snapshotStatus ELSE o.snapshotStatus
              merged == [o EXCEPT !.snapshotID = id, !.snapshotStatus = status]
  <1>1. /\ UNCHANGED <<cache, wanted, snapshot>> /\ queue' \subseteq Images
        /\ pass.step = "patchStatus" /\ pass.image \in Images /\ pass' = Idle
    BY DEF PatchStatus, TypeOK
  <1>2. obj \in [Images -> Objects] /\ o \in Objects /\ pass.view \in Objects
    BY <1>1, PassFields DEF TypeOK
  <1>3. CASE UNCHANGED obj
    <2>1. CASE \/ UNCHANGED faults /\ (StatusDiffers => o.phase = "gone")
               \/ Fault("patch") /\ StatusDiffers
      BY <1>1, <1>2, <1>3, <2>1
    <2>2. CASE /\ UNCHANGED faults /\ StatusDiffers /\ o.phase # "gone"
               /\ o = merged
      <3>1. o.snapshotID = id /\ o.snapshotStatus = status
        <4>. HIDE DEF id, status, o
        <4>1. merged.snapshotID = id /\ merged.snapshotStatus = status
          BY <1>2 DEF Objects
        <4>. QED BY <2>2, <4>1
      <3>. QED BY <1>1, <1>2, <1>3, <2>2, <3>1
    <2>3. \/ UNCHANGED faults /\ (StatusDiffers => o.phase = "gone")
          \/ Fault("patch") /\ StatusDiffers
          \/ /\ UNCHANGED faults /\ StatusDiffers /\ o.phase # "gone"
             /\ o = merged
      BY <1>1, <1>2, <1>3 DEF PatchStatus, Absent, MergeStatus
    <2>. QED BY <2>1, <2>2, <2>3
  <1>4. CASE /\ StatusDiffers /\ o.phase # "gone" /\ UNCHANGED faults
             /\ obj' = [obj EXCEPT ![pass.image] = merged]
    <2>1. id \in Ids \cup {None} /\ status \in Statuses
      BY <1>2, ObjectFields
    <2>. HIDE DEF id, status
    <2>2. /\ merged \in Objects /\ merged.phase = o.phase
          /\ merged.finalizer = o.finalizer
          /\ merged.snapshotID = id /\ merged.snapshotStatus = status
      BY <1>2, <2>1 DEF Objects
    <2>. HIDE DEF merged
    <2>3. /\ obj' \in [Images -> Objects] /\ obj'[pass.image] = merged
          /\ \A n \in Images : n # pass.image => obj'[n] = obj[n]
      BY <1>1, <1>2, <1>4, <2>2
    <2>4. \A n \in Images : obj'[n].phase = obj[n].phase /\ obj'[n].finalizer = obj[n].finalizer
      BY <2>2, <2>3
    <2>. QED BY <1>1, <1>4, <2>2, <2>3, <2>4 DEF id, status
  <1>5. MergeStatus(o) = merged
    BY DEF MergeStatus
  <1>. QED BY <1>3, <1>4, <1>5 DEF PatchStatus, Absent

\* The steps that touch neither the objects, nor the pass, nor the snapshots,
\* except that the cache may catch up.
LEMMA QuietFacts ==
    ASSUME TypeOK, NEW k \in Images, MachineChange(k) \/ CacheSync(k) \/ Resync(k)
    PROVE  /\ UNCHANGED <<obj, pass, snapshot, faults>>
           /\ queue' \subseteq Images /\ wanted' \in [Images -> BOOLEAN]
           /\ cache' \in [Images -> Objects]
           /\ \A n \in Images : cache'[n] \in {cache[n], obj[n]}
  BY DEF MachineChange, CacheSync, Resync, TypeOK

\* A request for deletion touches one object, and loses it only when the object
\* held no finalizer.
LEMMA RequestFacts ==
    ASSUME TypeOK, NEW k \in Images, RequestDeletion(k)
    PROVE  /\ UNCHANGED <<cache, queue, wanted, pass, snapshot, faults>>
           /\ obj' \in [Images -> Objects]
           /\ \A n \in Images : n # k => obj'[n] = obj[n]
           /\ obj[k].phase = "live"
           /\ \/ ~obj[k].finalizer /\ obj'[k] = Gone
              \/ /\ obj'[k].phase = "deleting"
                 /\ obj[k].finalizer /\ obj'[k].finalizer
                 /\ obj'[k].snapshotID = obj[k].snapshotID
                 /\ obj'[k].snapshotStatus = obj[k].snapshotStatus
  <1>. DEFINE dying == [obj[k] EXCEPT !.phase = "deleting"]
  <1>1. obj \in [Images -> Objects] /\ obj[k] \in Objects
    BY DEF TypeOK
  <1>2. /\ dying \in Objects /\ dying.phase = "deleting"
        /\ dying.finalizer = obj[k].finalizer
        /\ dying.snapshotID = obj[k].snapshotID
        /\ dying.snapshotStatus = obj[k].snapshotStatus
    BY <1>1 DEF Objects, Phases
  <1>. HIDE DEF dying
  <1>. QED BY <1>1, <1>2, IdleType DEF RequestDeletion, dying

\* The cloud's own moves leave everything but the snapshots alone.
LEMMA CloudFacts ==
    ASSUME TypeOK, Counts, NEW i \in Ids,
           SnapshotComplete(i) \/ SnapshotFail(i) \/ Vanish(i)
    PROVE  /\ UNCHANGED <<obj, cache, queue, wanted, pass>>
           /\ UNCHANGED faults \/ Fault("fail") \/ Fault("vanish")
           /\ snapshot' \in [Ids -> Snapshots]
           /\ \A j \in Ids :
                 \/ snapshot'[j] = snapshot[j]
                 \/ /\ Exists(j) /\ snapshot'[j].image = snapshot[j].image
                    /\ snapshot'[j].state \in {"complete", "failed", "gone"}
                    /\ snapshot[j].completed => snapshot'[j].completed
                    /\ snapshot'[j].state = "complete" => snapshot'[j].completed
  <1>1. /\ UNCHANGED <<obj, cache, queue, wanted, pass>>
        /\ UNCHANGED faults \/ Fault("fail") \/ Fault("vanish")
    BY DEF SnapshotComplete, SnapshotFail, Vanish
  <1>2. snapshot \in [Ids -> Snapshots] /\ snapshot[i] \in Snapshots
    BY DEF TypeOK
  <1>3. PICK s \in {"complete", "failed", "gone"}, c \in BOOLEAN :
           /\ snapshot' = [snapshot EXCEPT ![i].state = s, ![i].completed = c]
           /\ Exists(i) /\ (snapshot[i].completed => c) /\ (s = "complete" => c)
    <2>1. CASE SnapshotComplete(i)
      BY <2>1 DEF SnapshotComplete, Exists, Kept
    <2>2. ASSUME NEW s \in {"failed", "gone"}, Exists(i),
                 snapshot' = [snapshot EXCEPT ![i].state = s]
          PROVE  /\ snapshot' = [snapshot EXCEPT ![i].state = s,
                                                 ![i].completed = snapshot[i].completed]
                 /\ snapshot[i].completed \in BOOLEAN
      BY <1>2, <2>2 DEF Snapshots
    <2>3. CASE SnapshotFail(i) \/ Vanish(i)
      <3>1. /\ Exists(i)
            /\ \E s \in {"failed", "gone"} : snapshot' = [snapshot EXCEPT ![i].state = s]
        BY <2>3 DEF SnapshotFail, Vanish, Exists, Kept
      <3>. QED BY <2>2, <3>1
    <2>. QED BY <2>1, <2>3
  <1>4. /\ snapshot'[i].image = snapshot[i].image /\ snapshot'[i].state = s
        /\ snapshot'[i].completed = c /\ snapshot'[i] \in Snapshots
        /\ \A j \in Ids : j # i => snapshot'[j] = snapshot[j]
    BY <1>2, <1>3 DEF Snapshots, Kept
  <1>5. snapshot' \in [Ids -> Snapshots]
    BY <1>2, <1>3, <1>4
  <1>. QED BY <1>1, <1>3, <1>4, <1>5


-----------------------------------------------------------------------------
(***************************************************************************)
(* Types.                                                                  *)
(***************************************************************************)

\* The initial states are well typed.
LEMMA InitType == Init => TypeOK /\ Counts
  <1>. SUFFICES ASSUME Init PROVE TypeOK /\ Counts
    OBVIOUS
  <1>1. obj \in [Images -> Objects] /\ cache \in [Images -> Objects]
    <2>1. Fresh \in Objects
      BY DEF Fresh, Objects, Phases, Statuses
    <2>. QED BY <2>1 DEF Init
  <1>2. snapshot \in [Ids -> Snapshots]
    BY DEF Init, Snapshots
  <1>3. faults \in [all : 0..MaxFaults, slips : 0..MaxFaults, dropped : BOOLEAN] /\ Counts
    BY ConstantsAssumption DEF Init, Counts
  <1>. QED BY <1>1, <1>2, <1>3, IdleType DEF Init, TypeOK

\* Every step, stuttering included, keeps the types.  A pass asks Vultr about a
\* snapshot only with an ID to ask for, which takes more than the types.
LEMMA StepType ==
    ASSUME TypeOK, Counts, Named, Dispatched, [Next]_vars
    PROVE  TypeOK' /\ Counts'
  <1>f. ASSUME \/ UNCHANGED faults
               \/ \E kind \in AllFaults : Fault(kind)
        PROVE  /\ faults' \in [all : 0..MaxFaults, slips : 0..MaxFaults, dropped : BOOLEAN]
               /\ Counts'
    BY <1>f, FaultStep DEF TypeOK, Counts
  <1>1. ASSUME NEW k \in Images, RequestDeletion(k) PROVE TypeOK' /\ Counts'
    BY <1>1, <1>f, RequestFacts DEF TypeOK
  <1>2. ASSUME NEW k \in Images, MachineChange(k) \/ CacheSync(k) \/ Resync(k)
        PROVE  TypeOK' /\ Counts'
    BY <1>2, <1>f, QuietFacts DEF TypeOK
  <1>3. ASSUME NEW k \in Images, Begin(k) PROVE TypeOK' /\ Counts'
    <2>1. /\ UNCHANGED <<obj, cache, wanted, snapshot>> /\ queue' \subseteq Images
          /\ UNCHANGED faults \/ Fault("stale")
      BY <1>3, BeginFacts
    <2>2. /\ pass' \in Passes
          /\ pass'.step # "idle" => pass'.image \in Images
          /\ pass'.step \in {"get", "destroy"} => pass'.view.snapshotID \in Ids
      <3>1. CASE UNCHANGED pass
        BY <3>1 DEF TypeOK
      <3>2. CASE ~UNCHANGED pass
        <4>1. /\ pass' \in Passes /\ pass'.image = k
              /\ pass'.view.snapshotID = cache[k].snapshotID
              /\ pass'.step = "get" => cache[k].snapshotStatus = "pending"
              /\ pass'.step = "destroy" => cache[k].snapshotID \in Ids
          BY <1>3, <3>2, BeginFacts
        <4>. QED BY <4>1 DEF Named, Coherent
      <3>. QED BY <3>1, <3>2
    <2>3. /\ faults' \in [all : 0..MaxFaults, slips : 0..MaxFaults, dropped : BOOLEAN]
          /\ Counts'
      BY <1>f, <2>1 DEF AllFaults, Slips
    <2>. QED BY <2>1, <2>2, <2>3 DEF TypeOK
  <1>4. ASSUME NEW i \in Ids, SnapshotComplete(i) \/ SnapshotFail(i) \/ Vanish(i)
        PROVE  TypeOK' /\ Counts'
    BY <1>4, <1>f, CloudFacts DEF TypeOK, AllFaults
  <1>5. CASE resolveImageURL
    BY <1>5, <1>f, ResolveFacts DEF TypeOK, AllFaults
  <1>6. CASE SnapshotCreate
    <2>1. snapshot' \in [Ids -> Snapshots]
      <3>1. snapshot \in [Ids -> Snapshots] /\ pass.image \in Images
        BY <1>6, CreateFacts DEF TypeOK
      <3>2. \A s \in Kept : NewSnapshot(s) \in Snapshots
        BY <3>1 DEF NewSnapshot, Snapshots, Kept
      <3>. QED BY <1>6, <3>1, <3>2, CreateFacts
    <2>2. /\ faults' \in [all : 0..MaxFaults, slips : 0..MaxFaults, dropped : BOOLEAN]
          /\ Counts'
      BY <1>6, <1>f, CreateFacts DEF AllFaults, Slips
    <2>. QED BY <1>6, <2>1, <2>2, CreateFacts DEF TypeOK
  <1>7. CASE SnapshotGet
    <2>1. pass.view.snapshotStatus = "pending"
      BY <1>7 DEF SnapshotGet, Dispatched, Calls
    <2>. QED BY <1>7, <1>f, <2>1, GetFacts DEF TypeOK, AllFaults
  <1>8. CASE SnapshotDelete
    <2>1. snapshot' \in [Ids -> Snapshots]
      <3>1. snapshot \in [Ids -> Snapshots] /\ pass.view.snapshotID \in Ids
        BY <1>8, DeleteFacts DEF TypeOK
      <3>2. [snapshot[pass.view.snapshotID] EXCEPT !.state = "gone"] \in Snapshots
        BY <3>1 DEF Snapshots
      <3>. QED BY <1>8, <3>1, <3>2, DeleteFacts
    <2>2. /\ faults' \in [all : 0..MaxFaults, slips : 0..MaxFaults, dropped : BOOLEAN]
          /\ Counts'
      BY <1>8, <1>f, DeleteFacts DEF AllFaults, Slips
    <2>. QED BY <1>8, <2>1, <2>2, DeleteFacts DEF TypeOK
  <1>9. CASE PatchSpec
    <2>1. /\ faults' \in [all : 0..MaxFaults, slips : 0..MaxFaults, dropped : BOOLEAN]
          /\ Counts'
      BY <1>9, <1>f, PatchSpecFacts DEF AllFaults, Slips
    <2>. QED BY <1>9, <2>1, PatchSpecFacts DEF TypeOK
  <1>10. CASE PatchStatus
    <2>1. /\ faults' \in [all : 0..MaxFaults, slips : 0..MaxFaults, dropped : BOOLEAN]
          /\ Counts'
      BY <1>10, <1>f, PatchStatusFacts DEF AllFaults, Slips
    <2>. QED BY <1>10, <2>1, PatchStatusFacts, IdleType DEF TypeOK
  <1>11. CASE Crash
    <2>1. /\ faults' \in [all : 0..MaxFaults, slips : 0..MaxFaults, dropped : BOOLEAN]
          /\ Counts'
      BY <1>11, FaultStep DEF Crash
    <2>. QED BY <1>11, <2>1, IdleType DEF Crash, TypeOK
  <1>12. CASE UNCHANGED vars
    BY <1>12 DEF vars, TypeOK, Counts
  <1>. QED BY <1>1, <1>2, <1>3, <1>4, <1>5, <1>6, <1>7, <1>8, <1>9, <1>10, <1>11, <1>12
           DEF Next, Works

-----------------------------------------------------------------------------
(***************************************************************************)
(* The safety invariant, conjunct by conjunct.                             *)
(***************************************************************************)

\* The initial states satisfy the safety invariant.
LEMMA InitInv == Init => SafetyInv
  <1>. SUFFICES ASSUME Init PROVE SafetyInv
    OBVIOUS
  <1>1. TypeOK /\ Counts
    BY InitType
  <1>2. \A k \in Images : /\ cache[k] = obj[k] /\ obj[k].phase = "live"
                          /\ ~obj[k].finalizer /\ obj[k].snapshotID = None
                          /\ obj[k].snapshotStatus = "none"
    BY DEF Init, Fresh
  <1>3. pass.step = "idle"
    BY DEF Init, Idle
  <1>4. Ordered /\ Guarded /\ Named
    BY <1>2, <1>3, ConstantsAssumption DEF Ordered, Guarded, Named, Reaches, Coherent
  <1>5. Dispatched /\ Settled
    BY <1>3 DEF Dispatched, Settled, Calls, Patches
  <1>6. Finished
    BY DEF Init, Finished
  <1>. QED BY <1>1, <1>4, <1>5, <1>6 DEF SafetyInv

\* What the calls of a pass leave alone.
LEMMA CallFacts ==
    ASSUME TypeOK, Counts, Dispatched,
           resolveImageURL \/ SnapshotCreate \/ SnapshotGet \/ SnapshotDelete
    PROVE  /\ UNCHANGED <<obj, cache>>
           /\ pass.step \in Calls /\ pass'.step \in {"create", "patchSpec"}
           /\ pass'.image = pass.image /\ pass'.base = pass.base
           /\ pass.view = pass.base /\ pass.base.finalizer
           /\ SnapshotGet => pass.view.snapshotStatus = "pending"
  <1>1. SnapshotGet => pass.view.snapshotStatus = "pending"
    BY DEF SnapshotGet, Dispatched, Calls
  <1>2. pass.step \in Calls /\ pass'.step \in {"create", "patchSpec"}
        /\ UNCHANGED <<obj, cache>> /\ pass'.image = pass.image /\ pass'.base = pass.base
    BY <1>1, ResolveFacts, CreateFacts, GetFacts, DeleteFacts DEF Calls
  <1>. QED BY <1>1, <1>2 DEF Dispatched

\* No copy of an object is ahead of a later one.
LEMMA OrderedStep ==
    ASSUME SafetyInv, [Next]_vars
    PROVE  Ordered'
  <1>. USE DEF SafetyInv
  <1>t. /\ \A k \in Images : /\ obj[k].phase \in Phases /\ cache[k].phase \in Phases
        /\ pass.base.phase \in Phases
        /\ pass.step # "idle" => pass.image \in Images
    BY DEF TypeOK, Objects, Passes
  <1>. USE DEF Ordered, Reaches, Phases
  <1>1. ASSUME NEW k \in Images, RequestDeletion(k) PROVE Ordered'
    BY <1>t, <1>1, RequestFacts, IdleType
  <1>2. ASSUME NEW k \in Images, MachineChange(k) \/ CacheSync(k) \/ Resync(k)
        PROVE  Ordered'
    BY <1>t, <1>2, QuietFacts
  <1>3. ASSUME NEW k \in Images, Begin(k) PROVE Ordered'
    BY <1>t, <1>3, BeginFacts
  <1>4. ASSUME NEW i \in Ids, SnapshotComplete(i) \/ SnapshotFail(i) \/ Vanish(i)
        PROVE  Ordered'
    BY <1>4, CloudFacts
  <1>5. CASE resolveImageURL \/ SnapshotCreate \/ SnapshotGet \/ SnapshotDelete
    BY <1>5, CallFacts DEF Calls
  <1>6. CASE PatchSpec
    BY <1>t, <1>6, PatchSpecFacts, IdleType
  <1>7. CASE PatchStatus
    BY <1>7, PatchStatusFacts, IdleType
  <1>8. CASE Crash
    BY <1>8, IdleType DEF Crash
  <1>9. CASE UNCHANGED vars
    BY <1>9 DEF vars
  <1>. QED BY <1>1, <1>2, <1>3, <1>4, <1>5, <1>6, <1>7, <1>8, <1>9 DEF Next, Works

\* A live copy that holds the finalizer still proves that the object does.
LEMMA GuardedStep ==
    ASSUME SafetyInv, [Next]_vars
    PROVE  Guarded'
  <1>. USE DEF SafetyInv
  <1>t. /\ \A k \in Images : /\ obj[k].phase \in Phases /\ cache[k].phase \in Phases
                             /\ obj[k].finalizer \in BOOLEAN
                             /\ cache[k].finalizer \in BOOLEAN
        /\ pass.base.phase \in Phases
        /\ pass.base.finalizer \in BOOLEAN /\ pass.view.finalizer \in BOOLEAN
        /\ pass.step # "idle" => pass.image \in Images
    BY DEF TypeOK, Objects, Passes
  <1>. USE DEF Guarded, HoldsFinalizer
  <1>1. ASSUME NEW k \in Images, RequestDeletion(k) PROVE Guarded'
    BY <1>t, <1>1, RequestFacts, IdleType
  <1>2. ASSUME NEW k \in Images, MachineChange(k) \/ CacheSync(k) \/ Resync(k)
        PROVE  Guarded'
    BY <1>t, <1>2, QuietFacts
  <1>3. ASSUME NEW k \in Images, Begin(k) PROVE Guarded'
    BY <1>t, <1>3, BeginFacts
  <1>4. ASSUME NEW i \in Ids, SnapshotComplete(i) \/ SnapshotFail(i) \/ Vanish(i)
        PROVE  Guarded'
    BY <1>4, CloudFacts
  <1>5. CASE resolveImageURL \/ SnapshotCreate \/ SnapshotGet \/ SnapshotDelete
    BY <1>5, CallFacts DEF Calls
  <1>6. CASE PatchSpec
    <2>1. UNCHANGED cache /\ pass'.image = pass.image /\ pass'.base = pass.base
          /\ pass.step = "patchSpec" /\ pass.image \in Images
      BY <1>t, <1>6, PatchSpecFacts
    <2>2. \A n \in Images : n # pass.image => obj'[n] = obj[n]
      BY <1>6, PatchSpecFacts
    <2>3. pass.base.phase = "live" => (HoldsFinalizer(obj[pass.image])
                                         => HoldsFinalizer(obj'[pass.image]))
      <3>1. pass.base.phase = "live" => pass.view.finalizer
        BY <2>1 DEF Settled, Patches
      <3>. QED BY <1>t, <1>6, <2>1, <3>1, PatchSpecFacts
    <2>4. pass.base.phase # "live" => cache[pass.image].phase # "live"
      BY <1>t, <2>1 DEF Ordered, Reaches, Phases
    <2>. QED BY <2>1, <2>2, <2>3, <2>4
  <1>7. CASE PatchStatus
    BY <1>7, PatchStatusFacts, IdleType
  <1>8. CASE Crash
    BY <1>8, <1>t, IdleType DEF Crash
  <1>9. CASE UNCHANGED vars
    BY <1>9 DEF vars
  <1>. QED BY <1>1, <1>2, <1>3, <1>4, <1>5, <1>6, <1>7, <1>8, <1>9 DEF Next, Works


\* Vultr hands an ID out once, does not take a completion back, and no snapshot
\* comes back.
LEMMA SnapshotsStep ==
    ASSUME TypeOK, Counts, Dispatched, [Next]_vars, NEW i \in Ids
    PROVE  /\ snapshot[i].state # "unused" =>
                 /\ snapshot'[i].image = snapshot[i].image
                 /\ snapshot'[i].state # "unused"
                 /\ snapshot[i].completed => snapshot'[i].completed
                 /\ Exists(i)' => Exists(i)
           /\ \/ snapshot'[i] = snapshot[i]
              \/ snapshot'[i].state = "complete" => snapshot'[i].completed
  <1>. snapshot \in [Ids -> Snapshots]
    BY DEF TypeOK
  <1>1. CASE UNCHANGED snapshot
    BY <1>1 DEF Exists
  <1>2. ASSUME NEW j \in Ids, SnapshotComplete(j) \/ SnapshotFail(j) \/ Vanish(j)
        PROVE  \/ snapshot'[i] = snapshot[i]
               \/ /\ Exists(i) /\ snapshot'[i].image = snapshot[i].image
                  /\ snapshot'[i].state \in {"complete", "failed", "gone"}
                  /\ snapshot[i].completed => snapshot'[i].completed
                  /\ snapshot'[i].state = "complete" => snapshot'[i].completed
    BY <1>2, CloudFacts
  <1>3. CASE SnapshotCreate
    <2>1. \/ UNCHANGED snapshot
          \/ \E j \in Ids, s \in Kept :
                /\ snapshot[j].state = "unused"
                /\ snapshot' = [snapshot EXCEPT ![j] = NewSnapshot(s)]
      BY <1>3, CreateFacts
    <2>2. \A s \in Kept : /\ NewSnapshot(s).state = s
                          /\ NewSnapshot(s).completed <=> s = "complete"
      BY DEF NewSnapshot
    <2>. QED BY <1>1, <2>1, <2>2 DEF Exists
  <1>4. CASE SnapshotDelete
    <2>1. \/ UNCHANGED snapshot
          \/ snapshot' = [snapshot EXCEPT ![pass.view.snapshotID].state = "gone"]
      BY <1>4, DeleteFacts
    <2>2. pass.view.snapshotID \in Ids
      BY <1>4, DeleteFacts DEF TypeOK
    <2>. QED BY <1>1, <2>1, <2>2 DEF Exists, Kept, Snapshots
  <1>5. resolveImageURL \/ SnapshotGet \/ PatchSpec \/ PatchStatus \/ Crash
           => UNCHANGED snapshot
    BY DEF resolveImageURL, SnapshotGet, PatchSpec, PatchStatus, Crash
  <1>6. ASSUME NEW k \in Images,
               \/ RequestDeletion(k) \/ MachineChange(k) \/ CacheSync(k) \/ Resync(k)
               \/ Begin(k)
        PROVE  UNCHANGED snapshot
    BY <1>6, RequestFacts, QuietFacts, BeginFacts
  <1>7. UNCHANGED vars => UNCHANGED snapshot
    BY DEF vars
  <1>8. CASE \E j \in Ids : SnapshotComplete(j) \/ SnapshotFail(j) \/ Vanish(j)
    BY <1>2, <1>8 DEF Exists
  <1>. QED BY <1>1, <1>3, <1>4, <1>5, <1>6, <1>7, <1>8 DEF Next, Works

\* Every call of the pass has passed the checks on its way there.
LEMMA DispatchedStep ==
    ASSUME SafetyInv, [Next]_vars
    PROVE  Dispatched'
  <1>. USE DEF SafetyInv
  <1>1. ASSUME NEW k \in Images,
               \/ RequestDeletion(k) \/ MachineChange(k) \/ CacheSync(k) \/ Resync(k)
        PROVE  Dispatched'
    BY <1>1, RequestFacts, QuietFacts DEF Dispatched
  <1>2. ASSUME NEW k \in Images, Begin(k) PROVE Dispatched'
    BY <1>2, BeginFacts DEF Dispatched, Calls
  <1>3. ASSUME NEW i \in Ids, SnapshotComplete(i) \/ SnapshotFail(i) \/ Vanish(i)
        PROVE  Dispatched'
    BY <1>3, CloudFacts DEF Dispatched
  <1>4. CASE resolveImageURL
    BY <1>4, ResolveFacts DEF Dispatched, Calls
  <1>5. CASE SnapshotCreate \/ SnapshotGet \/ SnapshotDelete
    <2>1. pass'.step = "patchSpec"
      BY <1>5, CallFacts, CreateFacts, GetFacts, DeleteFacts
    <2>. QED BY <2>1 DEF Dispatched, Calls
  <1>6. CASE PatchSpec \/ PatchStatus \/ Crash
    BY <1>6, PatchSpecFacts, PatchStatusFacts, IdleType DEF Crash, Dispatched, Calls
  <1>7. CASE UNCHANGED vars
    BY <1>7 DEF vars, Dispatched
  <1>. QED BY <1>1, <1>2, <1>3, <1>4, <1>5, <1>6, <1>7 DEF Next, Works

\* A coherent copy stays so.
LEMMA CoherentStays ==
    ASSUME TypeOK, Counts, Dispatched, [Next]_vars, NEW o, NEW k, Coherent(o, k)
    PROVE  /\ o.snapshotID \in Ids => /\ snapshot'[o.snapshotID].image = k
                                      /\ snapshot'[o.snapshotID].state # "unused"
           /\ o.snapshotStatus = "none" => o.snapshotID = None
           /\ o.snapshotStatus = "pending" => o.snapshotID \in Ids
  BY SnapshotsStep DEF Coherent

\* What a patch that goes through makes of a coherent object is coherent: the
\* ID and the status go on together, or the import has ended.
LEMMA MergedCoherent ==
    ASSUME SafetyInv, PatchStatus
    PROVE  Coherent(obj'[pass.image], pass.image)
  <1>. USE DEF SafetyInv
  <1>0. /\ pass.image \in Images /\ pass.step = "patchStatus"
        /\ Coherent(obj[pass.image], pass.image)
        /\ Coherent(pass.base, pass.image) /\ Coherent(pass.view, pass.image)
    BY PatchStatusFacts DEF TypeOK, Named
  <1>. DEFINE o == obj[pass.image]  n == obj'[pass.image]
  <1>1. CASE UNCHANGED obj
    BY <1>0, <1>1
  <1>2. CASE /\ n.snapshotID = IF pass.base.snapshotID # pass.view.snapshotID
                                 THEN pass.view.snapshotID ELSE o.snapshotID
             /\ n.snapshotStatus = IF pass.base.snapshotStatus # pass.view.snapshotStatus
                                     THEN pass.view.snapshotStatus ELSE o.snapshotStatus
    <2>. HIDE DEF o, n
    <2>1. CASE /\ pass.view.snapshotID = pass.base.snapshotID
               /\ pass.view.snapshotStatus = pass.base.snapshotStatus
      BY <1>0, <1>2, <2>1 DEF Coherent, o, n
    <2>2. CASE Progress(pass.base, pass.view)
      BY <1>0, <1>2, <2>2, ConstantsAssumption DEF Coherent, Progress, o, n
    <2>. QED BY <1>0, <2>1, <2>2 DEF Settled, Patches
  <1>. QED BY <1>1, <1>2, PatchStatusFacts

\* A copy keeps naming only its own image's snapshot.
LEMMA NamedStep ==
    ASSUME SafetyInv, [Next]_vars
    PROVE  Named'
  <1>. USE DEF SafetyInv
  <1>t. pass.step # "idle" => pass.image \in Images
    BY DEF TypeOK
  <1>. DEFINE Fits(o, k) ==
         /\ o.snapshotID \in Ids => /\ snapshot'[o.snapshotID].image = k
                                    /\ snapshot'[o.snapshotID].state # "unused"
         /\ o.snapshotStatus = "none" => o.snapshotID = None
         /\ o.snapshotStatus = "pending" => o.snapshotID \in Ids
  <1>k. ASSUME NEW o, NEW k, Coherent(o, k) PROVE Fits(o, k)
    BY <1>k, CoherentStays
  <1>g. \A k : Fits(Gone, k)
    BY IdleType, ConstantsAssumption
  <1>e. ASSUME NEW o, NEW n, NEW k, Fits(o, k),
               n.snapshotID = o.snapshotID, n.snapshotStatus = o.snapshotStatus
        PROVE  Fits(n, k)
    BY <1>e
  \* It is enough that the new copies were coherent before the step.
  <1>s. ASSUME \A k \in Images : Fits(obj'[k], k) /\ Fits(cache'[k], k),
               pass'.step # "idle" => /\ Fits(pass'.base, pass'.image)
                                      /\ Fits(pass'.view, pass'.image)
        PROVE  Named'
    BY <1>s DEF Named, Coherent
  <1>h. /\ \A k \in Images : Fits(obj[k], k) /\ Fits(cache[k], k)
        /\ pass.step # "idle" => /\ Fits(pass.base, pass.image)
                                 /\ Fits(pass.view, pass.image)
    BY <1>k DEF Named
  <1>1. ASSUME NEW k \in Images, RequestDeletion(k) PROVE Named'
    <2>1. Fits(obj'[k], k)
      <3>. HIDE DEF Fits
      <3>. QED BY <1>g, <1>e, <1>h, <1>1, RequestFacts
    <2>. HIDE DEF Fits
    <2>. QED BY <1>h, <1>s, <1>1, <2>1, RequestFacts
  <1>2. ASSUME NEW k \in Images, MachineChange(k) \/ CacheSync(k) \/ Resync(k)
        PROVE  Named'
    BY <1>k, <1>s, <1>2, QuietFacts DEF Named
  <1>3. ASSUME NEW k \in Images, Begin(k) PROVE Named'
    BY <1>k, <1>s, <1>3, BeginFacts DEF Named
  <1>4. ASSUME NEW i \in Ids, SnapshotComplete(i) \/ SnapshotFail(i) \/ Vanish(i)
        PROVE  Named'
    BY <1>k, <1>s, <1>4, CloudFacts DEF Named
  <1>5. CASE resolveImageURL \/ SnapshotCreate \/ SnapshotGet \/ SnapshotDelete
    <2>1. /\ UNCHANGED <<obj, cache>> /\ pass.step # "idle" /\ pass.view = pass.base
          /\ pass'.image = pass.image /\ pass'.base = pass.base
          /\ Coherent(pass.base, pass.image)
      BY <1>5, CallFacts DEF Named, Calls
    <2>2. Fits(pass'.view, pass.image)
      <3>1. CASE resolveImageURL \/ SnapshotDelete
        BY <1>k, <2>1, <3>1, ResolveFacts, DeleteFacts
      <3>2. CASE SnapshotGet
        BY <1>k, <2>1, <3>2, CallFacts, GetFacts, ConstantsAssumption
      <3>3. CASE SnapshotCreate
        <4>1. CASE pass'.view.snapshotID = pass.view.snapshotID
                   /\ pass'.view.snapshotStatus = "error"
          BY <1>k, <2>1, <4>1
        <4>2. ASSUME NEW i \in Ids, NEW s \in Kept, pass'.view.snapshotID = i,
                     snapshot' = [snapshot EXCEPT ![i] = NewSnapshot(s)],
                     pass'.view.snapshotStatus \in {"pending", "error"}
              PROVE  Fits(pass'.view, pass.image)
          <5>1. snapshot'[i] = NewSnapshot(s)
            BY <4>2 DEF TypeOK
          <5>2. snapshot'[i].image = pass.image /\ snapshot'[i].state # "unused"
            BY <5>1 DEF NewSnapshot, Kept
          <5>. QED BY <4>2, <5>2
        <4>. QED BY <3>3, <4>1, <4>2, CreateFacts
      <3>. QED BY <1>5, <3>1, <3>2, <3>3
    <2>. QED BY <1>k, <1>s, <2>1, <2>2 DEF Named
  <1>6. CASE PatchSpec
    <2>1. /\ UNCHANGED <<cache, snapshot>> /\ pass.step # "idle"
          /\ pass'.image = pass.image /\ pass'.base = pass.base
          /\ pass'.view = pass.view
          /\ \A n \in Images : n # pass.image => obj'[n] = obj[n]
          /\ \/ obj'[pass.image] = Gone
             \/ /\ obj'[pass.image].snapshotID = obj[pass.image].snapshotID
                /\ obj'[pass.image].snapshotStatus = obj[pass.image].snapshotStatus
      BY <1>6, PatchSpecFacts
    <2>. HIDE DEF Fits
    <2>2. Fits(obj'[pass.image], pass.image)
      BY <1>t, <1>g, <1>e, <1>h, <2>1
    <2>. QED BY <1>h, <1>s, <2>1, <2>2
  <1>7. CASE PatchStatus
    <2>1. /\ UNCHANGED cache /\ pass'.step = "idle"
          /\ \A n \in Images : n # pass.image => obj'[n] = obj[n]
          /\ Coherent(obj'[pass.image], pass.image)
      BY <1>7, MergedCoherent, PatchStatusFacts, IdleType
    <2>. QED BY <1>k, <1>s, <2>1 DEF Named
  <1>8. CASE Crash
    BY <1>k, <1>s, <1>8, IdleType DEF Crash, Named
  <1>9. CASE UNCHANGED vars
    BY <1>k, <1>s, <1>9 DEF vars, Named
  <1>. QED BY <1>1, <1>2, <1>3, <1>4, <1>5, <1>6, <1>7, <1>8, <1>9 DEF Next, Works

\* A pass takes the finalizer away only when no snapshot is left, and moves an
\* import on only from where its copy has it.
LEMMA SettledStep ==
    ASSUME SafetyInv, [Next]_vars
    PROVE  Settled'
  <1>. USE DEF SafetyInv
  <1>k. \A i \in Ids : snapshot[i].state # "unused" =>
                          /\ ~Exists(i) => ~Exists(i)'
                          /\ snapshot[i].completed => snapshot'[i].completed
    BY SnapshotsStep
  \* The pass and what it goes by stay as they are.
  <1>s. ASSUME pass'.base = pass.base, pass'.view = pass.view,
               pass'.step \in Patches => pass.step \in Patches
        PROVE  Settled'
    <2>1. pass.step \in Patches => Coherent(pass.base, pass.image)
      BY DEF Named, Patches
    <2>2. ASSUME pass.step \in Patches, Progress(pass.base, pass.view)
          PROVE  Progress(pass.base, pass.view)'
      BY <1>s, <1>k, <2>1, <2>2 DEF Progress, Completed, Coherent, Exists
    <2>3. ASSUME pass.step \in Patches, pass.base.snapshotID \in Ids,
                 ~Exists(pass.base.snapshotID)
          PROVE  ~Exists(pass.base.snapshotID)'
      BY <1>s, <1>k, <2>1, <2>3 DEF Coherent, Exists
    <2>. QED BY <1>s, <2>2, <2>3 DEF Settled
  <1>1. ASSUME NEW k \in Images,
               \/ RequestDeletion(k) \/ MachineChange(k) \/ CacheSync(k) \/ Resync(k)
        PROVE  Settled'
    BY <1>s, <1>1, RequestFacts, QuietFacts
  <1>2. ASSUME NEW k \in Images, Begin(k) PROVE Settled'
    <2>1. CASE UNCHANGED pass
      BY <1>s, <2>1
    <2>2. CASE ~UNCHANGED pass
      BY <1>2, <2>2, BeginFacts, ConstantsAssumption DEF Settled, Patches
    <2>. QED BY <2>1, <2>2
  <1>3. ASSUME NEW i \in Ids, SnapshotComplete(i) \/ SnapshotFail(i) \/ Vanish(i)
        PROVE  Settled'
    BY <1>s, <1>3, CloudFacts
  <1>c. ASSUME resolveImageURL \/ SnapshotCreate \/ SnapshotGet \/ SnapshotDelete
        PROVE  /\ pass.view = pass.base /\ pass.base.finalizer /\ pass'.base = pass.base
               /\ pass.view \in Objects /\ pass'.view \in Objects
               /\ Coherent(pass.base, pass.image)
    BY <1>c, CallFacts, ResolveFacts, CreateFacts, GetFacts, DeleteFacts, PassFields
       DEF Named, Calls, Passes
  <1>4. CASE resolveImageURL
    BY <1>4, <1>c, ResolveFacts DEF Settled
  <1>5. CASE SnapshotCreate
    <2>1. /\ pass.base.phase = "live" /\ pass.base.snapshotStatus = "none"
          /\ pass.base.snapshotID = None
      BY <1>5, <1>c, CreateFacts DEF Dispatched, Coherent
    <2>2. /\ pass'.view.snapshotID \in Ids \cup {None}
          /\ pass'.view.snapshotStatus \in {"pending", "error"}
          /\ pass'.view.snapshotStatus = "pending" => pass'.view.snapshotID \in Ids
          /\ pass'.view.finalizer = pass.view.finalizer
      BY <1>5, <1>c, <2>1, CreateFacts
    <2>. QED BY <1>c, <1>5, <2>1, <2>2 DEF Settled, Progress
  <1>6. CASE SnapshotGet
    <2>1. /\ pass.base.phase = "live" /\ pass.base.snapshotStatus = "pending"
          /\ pass.base.snapshotID \in Ids /\ pass.step = "get" /\ UNCHANGED snapshot
      BY <1>6, <1>c, CallFacts, GetFacts DEF Dispatched, Coherent
    <2>2. CASE pass'.view = pass.view
      BY <1>c, <1>6, <2>2 DEF Settled
    <2>3. CASE pass'.view # pass.view
      <3>1. /\ pass'.view.finalizer /\ pass'.base.finalizer
            /\ pass'.base.phase = "live" /\ pass'.base.snapshotStatus = "pending"
            /\ pass'.base.snapshotID = pass.base.snapshotID
        BY <1>6, <1>c, <2>1, CallFacts, GetFacts
      <3>2. \/ /\ pass'.view.snapshotID = pass'.base.snapshotID
               /\ pass'.view.snapshotStatus = "complete"
               /\ snapshot'[pass'.base.snapshotID].completed
            \/ /\ pass'.view.snapshotID = pass'.base.snapshotID
               /\ pass'.view.snapshotStatus = "error"
            \/ /\ pass'.view.snapshotID = None
               /\ pass'.view.snapshotStatus = "error"
               /\ snapshot'[pass'.base.snapshotID].state \notin Kept
        <4>1. snapshot[pass.base.snapshotID].state = "complete"
                 => snapshot[pass.base.snapshotID].completed
          BY <2>1 DEF Finished
        <4>. QED BY <1>6, <1>c, <2>1, <2>3, <4>1, CallFacts, GetFacts DEF Exists
      <3>. QED BY <2>1, <3>1, <3>2 DEF Settled, Progress, Completed, Exists
    <2>. QED BY <2>2, <2>3
  <1>7. CASE SnapshotDelete
    <2>1. pass.base.phase = "deleting" /\ pass.base.snapshotID \in Ids
      BY <1>7, <1>c, DeleteFacts DEF Dispatched, TypeOK
    <2>2. /\ pass'.view.snapshotID = pass.base.snapshotID
          /\ pass'.view.snapshotStatus = pass.base.snapshotStatus
          /\ \/ pass'.view.finalizer
             \/ snapshot'[pass'.base.snapshotID].state \notin Kept
      BY <1>7, <1>c, DeleteFacts DEF Exists
    <2>. QED BY <1>7, <1>c, <2>1, <2>2 DEF Settled, Exists
  <1>8. CASE PatchSpec
    BY <1>s, <1>8, PatchSpecFacts DEF Patches
  <1>9. CASE PatchStatus \/ Crash
    BY <1>9, PatchStatusFacts, IdleType DEF Crash, Settled, Patches
  <1>10. CASE UNCHANGED vars
    BY <1>s, <1>10 DEF vars
  <1>. QED BY <1>1, <1>2, <1>3, <1>4, <1>5, <1>6, <1>7, <1>8, <1>9, <1>10 DEF Next, Works


\* Once Vultr has completed a snapshot, it stays one that was completed.
LEMMA FinishedStep ==
    ASSUME SafetyInv, [Next]_vars
    PROVE  Finished'
  BY SnapshotsStep DEF SafetyInv, Finished

\* However stale each copy, the controller goes by copies that agree with what
\* came before them and name no other image's snapshot.
THEOREM SafetyInvariance == Spec => []SafetyInv
  <1>1. SafetyInv /\ [Next]_vars => SafetyInv'
    BY StepType, OrderedStep, GuardedStep, NamedStep, DispatchedStep, FinishedStep,
       SettledStep DEF SafetyInv
  <1>. QED BY InitInv, <1>1, PTL DEF Spec

\* A pass that asks Vultr about a snapshot has an ID to ask for: the cache never
\* shows an import as pending without one.
THEOREM TypeCorrect == Spec => []TypeOK
  <1>1. SafetyInv => TypeOK
    BY DEF SafetyInv
  <1>. QED BY <1>1, SafetyInvariance, PTL

\* However stale the copy, the controller never deletes the snapshot of an image
\* whose deletion nobody has requested.
THEOREM DestroysOnlyDeletedHolds == Spec => DestroysOnlyDeleted
  <1>. DEFINE Excused(i) == pass' = pass \/ obj[snapshot[i].image].phase # "live"
  <1>1. ASSUME SafetyInv, [Next]_vars, NEW i \in Ids, Exists(i), ~Exists(i)'
        PROVE  Excused(i)
    <2>. USE <1>1 DEF SafetyInv
    <2>1. ASSUME NEW k \in Images,
                 \/ RequestDeletion(k) \/ MachineChange(k) \/ CacheSync(k) \/ Resync(k)
                 \/ Begin(k)
          PROVE  UNCHANGED snapshot
      BY <2>1, RequestFacts, QuietFacts, BeginFacts
    <2>2. ASSUME NEW j \in Ids, SnapshotComplete(j) \/ SnapshotFail(j) \/ Vanish(j)
          PROVE  pass' = pass
      BY <2>2, CloudFacts
    <2>3. ASSUME resolveImageURL \/ SnapshotGet \/ PatchSpec \/ PatchStatus \/ Crash
          PROVE  UNCHANGED snapshot
      BY <2>3 DEF resolveImageURL, SnapshotGet, PatchSpec, PatchStatus, Crash
    <2>4. SnapshotCreate => FALSE
      <3>1. SnapshotCreate =>
               \/ UNCHANGED snapshot
               \/ \E j \in Ids, s \in Kept : snapshot' = [snapshot EXCEPT ![j] = NewSnapshot(s)]
        BY CreateFacts
      <3>2. \A s \in Kept : NewSnapshot(s).state \in Kept
        BY DEF NewSnapshot
      <3>. QED BY <3>1, <3>2 DEF Exists, TypeOK
    <2>5. CASE SnapshotDelete
      <3>1. pass.step = "destroy" /\ pass.image \in Images
            /\ pass.view.snapshotID \in Ids
        BY <2>5, DeleteFacts DEF TypeOK
      <3>2. i = pass.view.snapshotID
        BY <2>5, <3>1, DeleteFacts DEF Exists, TypeOK
      <3>3. snapshot[i].image = pass.image
        BY <3>1, <3>2 DEF Named, Coherent
      <3>4. obj[pass.image].phase # "live"
        BY <3>1 DEF Dispatched, Ordered, Reaches
      <3>. QED BY <3>3, <3>4
    <2>6. UNCHANGED vars => UNCHANGED snapshot
      BY DEF vars
    <2>. QED BY <2>1, <2>2, <2>3, <2>4, <2>5, <2>6 DEF Next, Works, Exists
  <1>2. SafetyInv /\ [Next]_vars
           => [\A i \in Ids : Exists(i) /\ ~Exists(i)' => Excused(i)]_vars
    BY <1>1
  <1>. QED BY <1>2, SafetyInvariance, PTL DEF Spec, DestroysOnlyDeleted

-----------------------------------------------------------------------------
(***************************************************************************)
(* The import.                                                             *)
(***************************************************************************)

\* A slip never uncounts one, and no step counts two.
LEMMA SlipsGrow ==
    ASSUME SafetyInv, [Next]_vars
    PROVE  /\ faults.slips \in Nat /\ faults'.slips \in Nat
           /\ faults'.slips >= faults.slips
           /\ UNCHANGED faults \/ \E kind \in AllFaults : Fault(kind)
  <1>. USE DEF SafetyInv
  <1>1. faults.slips \in Nat /\ faults'.slips \in Nat
    BY StepType, ConstantsAssumption DEF TypeOK
  <1>2. UNCHANGED faults \/ \E kind \in AllFaults : Fault(kind)
    <2>1. ASSUME NEW k \in Images,
                 \/ RequestDeletion(k) \/ MachineChange(k) \/ CacheSync(k) \/ Resync(k)
          PROVE  UNCHANGED faults
      BY <2>1, RequestFacts, QuietFacts
    <2>2. ASSUME NEW k \in Images, Begin(k) PROVE UNCHANGED faults \/ Fault("stale")
      BY <2>2, BeginFacts
    <2>3. ASSUME NEW i \in Ids, SnapshotComplete(i) \/ SnapshotFail(i) \/ Vanish(i)
          PROVE  UNCHANGED faults \/ Fault("fail") \/ Fault("vanish")
      BY <2>3, CloudFacts
    <2>4. ASSUME resolveImageURL \/ SnapshotCreate \/ SnapshotGet \/ SnapshotDelete
          PROVE  UNCHANGED faults \/ Fault("api") \/ Fault("fail") \/ Fault("lost")
      BY <2>4, CallFacts, ResolveFacts, CreateFacts, GetFacts, DeleteFacts
    <2>5. ASSUME PatchSpec \/ PatchStatus \/ Crash
          PROVE  UNCHANGED faults \/ Fault("patch") \/ Fault("crash")
      BY <2>5, PatchSpecFacts, PatchStatusFacts DEF Crash
    <2>6. UNCHANGED vars => UNCHANGED faults
      BY DEF vars
    <2>. QED BY <2>1, <2>2, <2>3, <2>4, <2>5, <2>6 DEF Next, Works, AllFaults, Slips
  <1>. QED BY <1>1, <1>2, FaultStep


\* The patch of the status writes down the progress of an import.
LEMMA ImportStep ==
    ASSUME SafetyInv, PatchStatus, obj' # obj
    PROVE  /\ UNCHANGED <<faults, snapshot>> /\ pass.step \in Patches
           /\ pass.image \in Images /\ obj[pass.image].phase # "gone"
           /\ Progress(pass.base, pass.view) /\ pass.base.phase = "live"
           /\ pass.base.snapshotStatus \in {"none", "pending"}
           /\ pass.view.snapshotStatus \in {"pending", "complete", "error"}
           /\ pass.view.snapshotStatus # pass.base.snapshotStatus
           /\ obj'[pass.image].snapshotStatus = pass.view.snapshotStatus
           /\ obj'[pass.image].snapshotID =
                 IF pass.base.snapshotID # pass.view.snapshotID
                   THEN pass.view.snapshotID ELSE obj[pass.image].snapshotID
  <1>. USE DEF SafetyInv
  <1>1. /\ pass.image \in Images /\ pass.step \in Patches
        /\ UNCHANGED <<faults, snapshot>> /\ StatusDiffers
        /\ obj[pass.image].phase # "gone"
        /\ obj'[pass.image].snapshotID =
              IF pass.base.snapshotID # pass.view.snapshotID
                THEN pass.view.snapshotID ELSE obj[pass.image].snapshotID
        /\ obj'[pass.image].snapshotStatus =
              IF pass.base.snapshotStatus # pass.view.snapshotStatus
                THEN pass.view.snapshotStatus ELSE obj[pass.image].snapshotStatus
    BY PatchStatusFacts DEF TypeOK, Patches
  <1>2. Progress(pass.base, pass.view) /\ pass.base.phase = "live"
    BY <1>1 DEF Settled, StatusDiffers
  <1>3. /\ pass.base.snapshotStatus \in {"none", "pending"}
        /\ pass.view.snapshotStatus \in {"pending", "complete", "error"}
        /\ pass.view.snapshotStatus # pass.base.snapshotStatus
    BY <1>2 DEF Progress
  <1>. QED BY <1>1, <1>2, <1>3

\* What any other step makes of an object's import: nothing, unless the object
\* disappears.
LEMMA ImportKept ==
    ASSUME SafetyInv, [Next]_vars, ~PatchStatus, NEW k \in Images
    PROVE  \/ obj'[k] = Gone
           \/ /\ obj'[k].snapshotID = obj[k].snapshotID
              /\ obj'[k].snapshotStatus = obj[k].snapshotStatus
              /\ obj'[k].phase = "live" => obj[k].phase = "live"
              /\ obj[k].phase = "gone" => obj'[k].phase = "gone"
  <1>. USE DEF SafetyInv
  <1>1. ASSUME NEW n \in Images, RequestDeletion(n)
        PROVE  \/ obj'[k] = Gone
               \/ /\ obj'[k].snapshotID = obj[k].snapshotID
                  /\ obj'[k].snapshotStatus = obj[k].snapshotStatus
                  /\ obj'[k].phase = "live" => obj[k].phase = "live"
                  /\ obj[k].phase = "gone" => obj'[k].phase = "gone"
    BY <1>1, RequestFacts, IdleType
  <1>2. ASSUME NEW n \in Images, MachineChange(n) \/ CacheSync(n) \/ Resync(n) \/ Begin(n)
        PROVE  UNCHANGED obj
    BY <1>2, QuietFacts, BeginFacts
  <1>3. ASSUME NEW i \in Ids, SnapshotComplete(i) \/ SnapshotFail(i) \/ Vanish(i)
        PROVE  UNCHANGED obj
    BY <1>3, CloudFacts
  <1>4. resolveImageURL \/ SnapshotCreate \/ SnapshotGet \/ SnapshotDelete \/ Crash
           => UNCHANGED obj
    BY CallFacts DEF Crash
  <1>5. CASE PatchSpec
    <2>1. pass.image \in Images
      BY <1>5, PatchSpecFacts DEF TypeOK
    <2>. QED BY <1>5, <2>1, PatchSpecFacts, IdleType
  <1>6. UNCHANGED vars => UNCHANGED obj
    BY DEF vars
  <1>. QED BY <1>1, <1>2, <1>3, <1>4, <1>5, <1>6 DEF Next, Works

\* What any step makes of the cache: it may catch up with the object.
LEMMA CacheStep ==
    ASSUME SafetyInv, [Next]_vars, NEW k \in Images
    PROVE  \/ cache'[k] = cache[k]
           \/ cache'[k] = obj[k] /\ UNCHANGED obj
  <1>. USE DEF SafetyInv
  <1>1. ASSUME NEW n \in Images, RequestDeletion(n) PROVE UNCHANGED cache
    BY <1>1, RequestFacts
  <1>2. ASSUME NEW n \in Images, MachineChange(n) \/ CacheSync(n) \/ Resync(n)
        PROVE  UNCHANGED obj /\ cache'[k] \in {cache[k], obj[k]}
    BY <1>2, QuietFacts
  <1>3. ASSUME NEW n \in Images, Begin(n) PROVE UNCHANGED cache
    BY <1>3, BeginFacts
  <1>4. ASSUME NEW i \in Ids, SnapshotComplete(i) \/ SnapshotFail(i) \/ Vanish(i)
        PROVE  UNCHANGED cache
    BY <1>4, CloudFacts
  <1>5. resolveImageURL \/ SnapshotCreate \/ SnapshotGet \/ SnapshotDelete
           \/ PatchSpec \/ PatchStatus => UNCHANGED cache
    BY CallFacts, PatchSpecFacts, PatchStatusFacts
  <1>6. Crash => UNCHANGED obj /\ cache'[k] = obj[k]
    BY DEF Crash
  <1>7. UNCHANGED vars => UNCHANGED cache
    BY DEF vars
  <1>. QED BY <1>1, <1>2, <1>3, <1>4, <1>5, <1>6, <1>7 DEF Next, Works

\* What any step makes of the pass: it goes on with the copy it has, begins with
\* the cache's copy, or has ended.
LEMMA PassStep ==
    ASSUME SafetyInv, [Next]_vars
    PROVE  \/ /\ pass'.base = pass.base /\ pass'.image = pass.image
              /\ pass.step # "idle" /\ ~PatchStatus
           \/ pass'.step = "idle"
           \/ /\ UNCHANGED <<obj, snapshot>>
              /\ pass'.image \in Images /\ pass'.base = cache[pass'.image]
              /\ pass'.view.snapshotStatus = pass'.base.snapshotStatus
              /\ \/ cache[pass'.image] = obj[pass'.image] /\ UNCHANGED faults
                 \/ Fault("stale")
  <1>. USE DEF SafetyInv
  <1>1. UNCHANGED pass =>
          \/ /\ pass'.base = pass.base /\ pass'.image = pass.image
             /\ pass.step # "idle" /\ ~PatchStatus
          \/ pass'.step = "idle"
    BY PatchStatusFacts, IdleType
  <1>2. ASSUME NEW k \in Images,
               \/ RequestDeletion(k) \/ MachineChange(k) \/ CacheSync(k) \/ Resync(k)
        PROVE  UNCHANGED pass
    BY <1>2, RequestFacts, QuietFacts
  <1>3. ASSUME NEW k \in Images, Begin(k)
        PROVE  \/ UNCHANGED pass
               \/ /\ UNCHANGED <<obj, snapshot>>
                  /\ pass'.image = k /\ pass'.base = cache[k]
                  /\ pass'.view.snapshotStatus = pass'.base.snapshotStatus
                  /\ \/ cache[k] = obj[k] /\ UNCHANGED faults
                     \/ Fault("stale")
    BY <1>3, BeginFacts
  <1>4. ASSUME NEW i \in Ids, SnapshotComplete(i) \/ SnapshotFail(i) \/ Vanish(i)
        PROVE  UNCHANGED pass
    BY <1>4, CloudFacts
  <1>5. CASE resolveImageURL \/ SnapshotCreate \/ SnapshotGet \/ SnapshotDelete
    <2>1. ~PatchStatus
      BY <1>5, CallFacts DEF PatchStatus, Calls
    <2>. QED BY <1>5, <2>1, CallFacts DEF Calls
  <1>6. CASE PatchSpec
    <2>1. ~PatchStatus
      BY <1>6, PatchSpecFacts DEF PatchStatus
    <2>. QED BY <1>6, <2>1, PatchSpecFacts
  <1>7. PatchStatus \/ Crash => pass'.step = "idle"
    BY PatchStatusFacts, IdleType DEF Crash
  <1>8. UNCHANGED vars => UNCHANGED pass
    BY DEF vars
  <1>. QED BY <1>1, <1>2, <1>3, <1>4, <1>5, <1>6, <1>7, <1>8 DEF Next, Works

\* A copy of which the object descends remains one, as long as no outdated pass
\* writes.
LEMMA DescendsKept ==
    ASSUME SafetyInv, [Next]_vars, NEW k \in Images, NEW c, Coherent(c, k),
           Descends(c, obj[k]),
           \/ obj'[k].phase = "gone"
           \/ /\ obj'[k].snapshotID = obj[k].snapshotID
              /\ obj'[k].snapshotStatus = obj[k].snapshotStatus
              /\ obj[k].phase = "gone" => obj'[k].phase = "gone"
    PROVE  \/ obj'[k].phase = "gone" \/ c.snapshotStatus = "none"
           \/ /\ obj'[k].snapshotID = c.snapshotID
              /\ obj'[k].snapshotStatus = c.snapshotStatus
           \/ /\ c.snapshotStatus = "pending"
              /\ obj'[k].snapshotStatus \in {"complete", "error"}
              /\ \/ obj'[k].snapshotID = c.snapshotID
                 \/ /\ obj'[k].snapshotID = None /\ obj'[k].snapshotStatus = "error"
                    /\ snapshot'[c.snapshotID].state \notin Kept
  <1>1. c.snapshotStatus = "pending" /\ ~Exists(c.snapshotID)
           => snapshot'[c.snapshotID].state \notin Kept
    <2>1. ASSUME NEW i \in Ids, snapshot[i].state # "unused", ~Exists(i)
          PROVE  snapshot'[i].state \notin Kept
      BY <2>1, SnapshotsStep DEF SafetyInv, Exists
    <2>. QED BY <2>1 DEF Coherent
  <1>. QED BY <1>1 DEF Descends


\* A pass out of date is one whose staleness has been paid: before the first slip
\* every copy is one the object descends from.
LEMMA SyncedStep ==
    ASSUME SafetyInv, Synced, [Next]_vars
    PROVE  Synced'
  <1>. USE DEF SafetyInv
  <1>. DEFINE Kin(c, o) ==
         \/ o.phase = "gone" \/ c.snapshotStatus = "none"
         \/ o.snapshotID = c.snapshotID /\ o.snapshotStatus = c.snapshotStatus
         \/ /\ c.snapshotStatus = "pending"
            /\ o.snapshotStatus \in {"complete", "error"}
            /\ \/ o.snapshotID = c.snapshotID
               \/ /\ o.snapshotID = None /\ o.snapshotStatus = "error"
                  /\ snapshot'[c.snapshotID].state \notin Kept
  <1>s. faults.slips \in Nat /\ faults'.slips \in Nat /\ faults'.slips >= faults.slips
    BY SlipsGrow
  <1>g. Gone.phase = "gone"
    BY IdleType
  <1>p. pass.step # "idle" => pass.image \in Images
    BY DEF TypeOK
  \* What the object has become when no outdated pass writes to it.
  <1>k. ASSUME NEW k \in Images, NEW c, Coherent(c, k), Descends(c, obj[k]),
               ~PatchStatus \/ obj'[k] = obj[k]
        PROVE  Kin(c, obj'[k])
    BY <1>k, <1>g, ImportKept, DescendsKept
  <1>1. ASSUME faults'.slips = 0, NEW k \in Images
        PROVE  Kin(cache'[k], obj'[k])
    <2>1. faults.slips = 0 /\ Descends(cache[k], obj[k]) /\ Coherent(cache[k], k)
      BY <1>1, <1>s DEF Synced, Named
    <2>2. CASE cache'[k] = obj[k] /\ UNCHANGED obj
      BY <2>2
    <2>3. CASE cache'[k] = cache[k] /\ (~PatchStatus \/ obj'[k] = obj[k])
      BY <1>k, <2>1, <2>3
    <2>4. CASE cache'[k] = cache[k] /\ PatchStatus /\ obj'[k] # obj[k]
      <3>1. k = pass.image /\ obj' # obj
        BY <2>4, PatchStatusFacts
      <3>2. /\ UNCHANGED snapshot
            /\ pass.step # "idle" /\ obj[k].phase # "gone"
            /\ Progress(pass.base, pass.view)
            /\ obj'[k].snapshotStatus = pass.view.snapshotStatus
            /\ obj'[k].snapshotID = IF pass.base.snapshotID # pass.view.snapshotID
                                      THEN pass.view.snapshotID ELSE obj[k].snapshotID
        BY <2>4, <3>1, ImportStep DEF Patches
      <3>3. /\ obj[k].snapshotID = pass.base.snapshotID
            /\ obj[k].snapshotStatus = pass.base.snapshotStatus
        BY <2>1, <3>1, <3>2 DEF Synced
      <3>4. /\ obj'[k].snapshotID = pass.view.snapshotID
            /\ Coherent(pass.base, k)
        BY <3>1, <3>2, <3>3 DEF Named
      <3>5. CASE cache[k].snapshotStatus = "none"
        BY <2>4, <3>5
      <3>6. CASE cache[k].snapshotStatus # "none"
        <4>1. /\ pass.base.snapshotStatus = "pending"
              /\ cache[k].snapshotStatus = "pending"
              /\ cache[k].snapshotID = pass.base.snapshotID
          BY <2>1, <3>2, <3>3, <3>6 DEF Descends, Progress
        <4>. QED BY <2>4, <3>2, <3>4, <4>1 DEF Progress, Exists
      <3>. QED BY <3>5, <3>6
    <2>. QED BY <2>2, <2>3, <2>4, CacheStep
  <1>2. ASSUME faults'.slips <= 1, pass'.step # "idle"
        PROVE  /\ Kin(pass'.base, obj'[pass'.image])
               /\ faults'.slips = 0 =>
                     \/ obj'[pass'.image].phase = "gone"
                     \/ /\ obj'[pass'.image].snapshotID = pass'.base.snapshotID
                        /\ obj'[pass'.image].snapshotStatus = pass'.base.snapshotStatus
    <2>1. CASE /\ pass'.base = pass.base /\ pass'.image = pass.image
               /\ pass.step # "idle" /\ ~PatchStatus
      <3>1. /\ Coherent(pass.base, pass.image)
            /\ Descends(pass.base, obj[pass.image])
            /\ faults'.slips = 0 =>
                  \/ obj[pass.image].phase = "gone"
                  \/ /\ obj[pass.image].snapshotID = pass.base.snapshotID
                     /\ obj[pass.image].snapshotStatus = pass.base.snapshotStatus
        BY <1>s, <1>2, <2>1 DEF Named, Synced
      <3>2. Kin(pass.base, obj'[pass.image])
        BY <1>k, <1>p, <2>1, <3>1
      <3>. HIDE DEF Kin
      <3>. QED BY <1>g, <1>p, <2>1, <3>1, <3>2, ImportKept
    <2>2. CASE /\ UNCHANGED <<obj, snapshot>>
               /\ pass'.image \in Images /\ pass'.base = cache[pass'.image]
               /\ \/ cache[pass'.image] = obj[pass'.image] /\ UNCHANGED faults
                  \/ Fault("stale")
      <3>1. CASE cache[pass'.image] = obj[pass'.image]
        BY <2>2, <3>1
      <3>2. CASE Fault("stale")
        <4>1. faults'.slips = faults.slips + 1
          BY <3>2, FaultStep DEF Slips
        <4>2. faults.slips = 0 /\ faults'.slips # 0
          BY <1>s, <1>2, <4>1
        <4>3. Descends(cache[pass'.image], obj[pass'.image])
          BY <2>2, <4>2 DEF Synced
        <4>. QED BY <2>2, <4>2, <4>3 DEF Descends, Exists
      <3>. QED BY <2>2, <3>1, <3>2
    <2>. QED BY <1>2, <2>1, <2>2, PassStep
  <1>. QED BY <1>1, <1>2 DEF Synced, Descends, Exists

\* Where a pass that is about to write "complete" has it from.
LEMMA CompleteStep ==
    ASSUME SafetyInv, [Next]_vars,
           pass'.step \in Patches, pass'.view.snapshotStatus = "complete"
    PROVE  \/ pass'.base.snapshotStatus = "complete"
           \/ /\ pass.step \in Patches /\ pass.view.snapshotStatus = "complete"
              /\ pass'.base = pass.base /\ pass'.image = pass.image /\ ~PatchStatus
           \/ /\ SnapshotGet /\ UNCHANGED obj /\ pass.step = "get"
              /\ pass'.base = pass.base /\ pass'.image = pass.image
              /\ Exists(pass.base.snapshotID)
  <1>. USE DEF SafetyInv
  <1>1. ASSUME UNCHANGED pass, ~PatchStatus
        PROVE  /\ pass.step \in Patches /\ pass.view.snapshotStatus = "complete"
               /\ pass'.base = pass.base /\ pass'.image = pass.image /\ ~PatchStatus
    BY <1>1
  <1>2. pass'.step # "idle"
    BY DEF Patches
  <1>3. ~PatchStatus /\ ~Crash
    BY <1>2, PatchStatusFacts, IdleType DEF Crash
  <1>4. ASSUME NEW k \in Images,
               \/ RequestDeletion(k) \/ MachineChange(k) \/ CacheSync(k) \/ Resync(k)
        PROVE  UNCHANGED pass
    BY <1>4, RequestFacts, QuietFacts
  <1>5. ASSUME NEW k \in Images, Begin(k)
        PROVE  UNCHANGED pass \/ pass'.base.snapshotStatus = "complete"
    BY <1>5, BeginFacts
  <1>6. ASSUME NEW i \in Ids, SnapshotComplete(i) \/ SnapshotFail(i) \/ Vanish(i)
        PROVE  UNCHANGED pass
    BY <1>6, CloudFacts
  <1>7. resolveImageURL \/ SnapshotDelete => pass'.base.snapshotStatus = "complete"
    BY CallFacts, ResolveFacts, DeleteFacts
  <1>8. ~SnapshotCreate
    BY CreateFacts
  <1>9. ASSUME SnapshotGet
        PROVE  /\ UNCHANGED obj /\ pass.step = "get"
               /\ pass'.base = pass.base /\ pass'.image = pass.image
               /\ Exists(pass.base.snapshotID)
    <2>1. /\ UNCHANGED obj /\ pass.step = "get" /\ pass.view = pass.base
          /\ pass'.base = pass.base /\ pass'.image = pass.image
          /\ pass.view.snapshotStatus = "pending"
      BY <1>9, CallFacts, GetFacts
    <2>2. snapshot[pass.view.snapshotID].state = "complete"
      BY <1>9, <2>1, GetFacts
    <2>. QED BY <2>1, <2>2 DEF Exists, Kept
  <1>10. PatchSpec => /\ pass.step \in Patches /\ pass.view.snapshotStatus = "complete"
                      /\ pass'.base = pass.base /\ pass'.image = pass.image
    BY PatchSpecFacts DEF Patches
  <1>11. UNCHANGED vars => UNCHANGED pass
    BY DEF vars
  <1>. QED BY <1>1, <1>3, <1>4, <1>5, <1>6, <1>7, <1>8, <1>9, <1>10, <1>11
           DEF Next, Works

\* Until the second slip, "complete" is written down only next to the ID of the
\* snapshot that was seen complete.
LEMMA RealStep ==
    ASSUME SafetyInv, Synced, Real, [Next]_vars
    PROVE  Real'
  <1>. USE DEF SafetyInv
  <1>s. faults.slips \in Nat /\ faults'.slips \in Nat /\ faults'.slips >= faults.slips
    BY SlipsGrow
  <1>c. \A k \in Images : obj[k].snapshotID \in Ids
                             => snapshot[obj[k].snapshotID].state # "unused"
    BY DEF Named, Coherent
  <1>1. ASSUME faults'.slips <= 1, NEW k \in Images,
               obj'[k].snapshotStatus = "complete"
        PROVE  obj'[k].snapshotID \in Ids /\ snapshot'[obj'[k].snapshotID].completed
    <2>1. faults.slips <= 1
      BY <1>1, <1>s
    <2>2. ASSUME obj'[k].snapshotID = obj[k].snapshotID,
                 obj'[k].snapshotStatus = obj[k].snapshotStatus
          PROVE  obj'[k].snapshotID \in Ids /\ snapshot'[obj'[k].snapshotID].completed
      BY <1>1, <1>c, <2>1, <2>2, SnapshotsStep DEF Real, Completed
    <2>3. CASE ~PatchStatus
      BY <1>1, <2>2, <2>3, ImportKept, IdleType
    <2>4. CASE PatchStatus /\ obj'[k] = obj[k]
      BY <2>2, <2>4
    <2>5. CASE PatchStatus /\ obj'[k] # obj[k]
      <3>1. k = pass.image /\ obj' # obj
        BY <2>5, PatchStatusFacts
      <3>2. /\ UNCHANGED snapshot /\ pass.step \in Patches
            /\ obj[k].phase # "gone"
            /\ Progress(pass.base, pass.view)
            /\ obj'[k].snapshotStatus = pass.view.snapshotStatus
            /\ obj'[k].snapshotID = IF pass.base.snapshotID # pass.view.snapshotID
                                      THEN pass.view.snapshotID ELSE obj[k].snapshotID
        BY <2>5, <3>1, ImportStep
      <3>3. /\ pass.base.snapshotStatus = "pending"
            /\ pass.view.snapshotID = pass.base.snapshotID
            /\ Completed(pass.base.snapshotID)
        BY <1>1, <3>2 DEF Progress
      <3>4. obj[k].snapshotID = pass.base.snapshotID
        BY <1>1, <2>1, <3>1, <3>2, <3>3 DEF Real
      <3>. QED BY <3>2, <3>3, <3>4 DEF Completed
    <2>. QED BY <2>3, <2>4, <2>5
  <1>2. ASSUME faults'.slips <= 1, pass'.step \in Patches,
               pass'.view.snapshotStatus = "complete"
        PROVE  \/ pass'.base.snapshotStatus = "complete"
               \/ obj'[pass'.image].phase = "gone"
               \/ obj'[pass'.image].snapshotID = pass'.base.snapshotID
    <2>1. faults.slips <= 1
      BY <1>2, <1>s
    <2>2. CASE /\ pass.step \in Patches /\ pass.view.snapshotStatus = "complete"
               /\ pass'.base = pass.base /\ pass'.image = pass.image /\ ~PatchStatus
      <3>1. pass.image \in Images
        BY <2>2 DEF TypeOK, Patches
      <3>2. \/ pass.base.snapshotStatus = "complete"
            \/ obj[pass.image].phase = "gone"
            \/ obj[pass.image].snapshotID = pass.base.snapshotID
        BY <2>1, <2>2 DEF Real
      <3>. QED BY <2>2, <3>1, <3>2, ImportKept, IdleType
    <2>3. CASE /\ SnapshotGet /\ UNCHANGED obj /\ pass.step = "get"
               /\ pass'.base = pass.base /\ pass'.image = pass.image
               /\ Exists(pass.base.snapshotID)
      <3>1. Descends(pass.base, obj[pass.image])
        BY <2>1, <2>3 DEF Synced
      <3>2. pass.base.snapshotStatus = "pending"
        BY <2>3 DEF Dispatched
      <3>. QED BY <2>3, <3>1, <3>2 DEF Descends
    <2>. QED BY <1>2, <2>2, <2>3, CompleteStep
  <1>. QED BY <1>1, <1>2 DEF Real, Completed

\* Until the second slip each copy is one the object descends from, and what is
\* written as complete has been completed.
THEOREM CompleteInvariance == Spec => []CompleteInv
  <1>1. Init => CompleteInv
    <2>. SUFFICES ASSUME Init PROVE CompleteInv
      OBVIOUS
    <2>1. pass.step = "idle"
      BY IdleType DEF Init
    <2>2. \A k \in Images : obj[k] = Fresh /\ cache[k] = obj[k]
      BY DEF Init
    <2>3. Synced
      BY <2>1, <2>2 DEF Synced, Descends
    <2>4. Real
      BY <2>1, <2>2 DEF Real, Patches, Fresh
    <2>. QED BY <2>3, <2>4, InitInv DEF CompleteInv
  <1>2. CompleteInv /\ [Next]_vars => CompleteInv'
    <2>. SUFFICES ASSUME CompleteInv, [Next]_vars PROVE CompleteInv'
      OBVIOUS
    <2>1. SafetyInv'
      BY StepType, OrderedStep, GuardedStep, NamedStep, DispatchedStep, FinishedStep,
         SettledStep DEF CompleteInv, SafetyInv
    <2>. QED BY <2>1, SyncedStep, RealStep DEF CompleteInv
  <1>. QED BY <1>1, <1>2, PTL DEF Spec

\* What a machine's instance is created from: unless the controller has slipped
\* twice, an image shown as complete names a snapshot of its own that Vultr did
\* complete.
THEOREM CompleteIsRealHolds == Spec => []CompleteIsReal
  <1>1. CompleteInv => CompleteIsReal
    BY DEF CompleteInv, SafetyInv, Real, Completed, Named, Coherent, CompleteIsReal
  <1>. QED BY <1>1, CompleteInvariance, PTL

\* Unless the controller slips, an import is never taken up again once it has
\* ended, and its snapshot is not exchanged for another one.
THEOREM ImportMovesForwardHolds == Spec => ImportMovesForward
  <1>1. ASSUME CompleteInv, [Next]_vars, faults'.slips = 0, NEW k \in Images
        PROVE  Advances(obj[k], obj'[k])
    <2>. USE <1>1 DEF CompleteInv, SafetyInv
    <2>1. faults.slips = 0
      BY SlipsGrow
    <2>2. CASE ~PatchStatus \/ obj'[k] = obj[k]
      BY <2>2, ImportKept, IdleType DEF Advances
    <2>3. CASE PatchStatus /\ obj'[k] # obj[k]
      <3>1. k = pass.image /\ obj' # obj
        BY <2>3, PatchStatusFacts
      <3>2. /\ pass.step # "idle" /\ obj[k].phase # "gone"
            /\ Progress(pass.base, pass.view)
            /\ obj'[k].snapshotStatus = pass.view.snapshotStatus
            /\ obj'[k].snapshotID = IF pass.base.snapshotID # pass.view.snapshotID
                                      THEN pass.view.snapshotID ELSE obj[k].snapshotID
        BY <2>3, <3>1, ImportStep DEF Patches
      <3>3. /\ obj[k].snapshotID = pass.base.snapshotID
            /\ obj[k].snapshotStatus = pass.base.snapshotStatus
        BY <2>1, <3>1, <3>2 DEF Synced
      <3>. QED BY <3>2, <3>3 DEF Progress, Advances
    <2>. QED BY <2>2, <2>3
  <1>2. CompleteInv /\ [Next]_vars
           => [faults'.slips = 0 => \A k \in Images : Advances(obj[k], obj'[k])]_vars
    BY <1>1
  <1>. QED BY <1>2, CompleteInvariance, PTL DEF Spec, ImportMovesForward


-----------------------------------------------------------------------------
(***************************************************************************)
(* The account of leaked snapshots.                                        *)
(***************************************************************************)

\* A pass that is about to write down another ID finds the object there, with
\* its finalizer: its copy was live and held it.
LEMMA WritesToHolder ==
    ASSUME SafetyInv, pass.step \in Patches, StatusDiffers
    PROVE  /\ Progress(pass.base, pass.view) /\ HoldsFinalizer(obj[pass.image])
           /\ pass.view.finalizer /\ pass.base.finalizer
  BY DEF SafetyInv, Settled, Guarded, StatusDiffers, Patches

\* A pass gives an ID up, or another one its place, only when no snapshot is left
\* under the ID it started from.
LEMMA GivesUpNothing ==
    ASSUME SafetyInv, pass.step \in Patches, pass.base.snapshotID \in Ids,
           ~pass.view.finalizer \/ pass.view.snapshotID # pass.base.snapshotID
    PROVE  ~Exists(pass.base.snapshotID)
  <1>1. Coherent(pass.base, pass.image)
    BY DEF SafetyInv, Named, Patches
  <1>. QED BY <1>1, ConstantsAssumption DEF SafetyInv, Settled, Progress, Coherent

\* Whatever is named is protected by its finalizer: the patch that takes the
\* finalizer away finds the object deleting, and removes it altogether.
LEMMA ProtectedStep ==
    ASSUME SafetyInv, Protected, [Next]_vars
    PROVE  Protected'
  <1>. USE DEF SafetyInv
  <1>1. ASSUME NEW k \in Images, RequestDeletion(k) PROVE Protected'
    BY <1>1, RequestFacts, IdleType, ConstantsAssumption DEF Protected
  <1>2. ASSUME NEW k \in Images, MachineChange(k) \/ CacheSync(k) \/ Resync(k) \/ Begin(k)
        PROVE  Protected'
    BY <1>2, QuietFacts, BeginFacts DEF Protected
  <1>3. ASSUME NEW i \in Ids, SnapshotComplete(i) \/ SnapshotFail(i) \/ Vanish(i)
        PROVE  Protected'
    BY <1>3, CloudFacts DEF Protected
  <1>4. CASE resolveImageURL \/ SnapshotCreate \/ SnapshotGet \/ SnapshotDelete
    BY <1>4, CallFacts DEF Protected
  <1>5. CASE PatchSpec
    <2>1. /\ pass.step = "patchSpec" /\ pass.image \in Images
          /\ \A n \in Images : n # pass.image => obj'[n] = obj[n]
      BY <1>5, PatchSpecFacts DEF TypeOK
    <2>2. obj[pass.image].phase \in Phases /\ cache[pass.image].phase \in Phases
      BY <2>1 DEF TypeOK, Objects
    <2>3. ~pass.view.finalizer => obj[pass.image].phase \in {"deleting", "gone"}
      BY <2>1, <2>2 DEF Settled, Patches, Ordered, Reaches, Phases
    <2>4. obj'[pass.image].snapshotID \in Ids => obj'[pass.image].finalizer
      BY <1>5, <2>1, <2>2, <2>3, PatchSpecFacts, IdleType, ConstantsAssumption
      DEF Protected
    <2>. QED BY <2>1, <2>4 DEF Protected
  <1>6. CASE PatchStatus
    <2>1. /\ pass.step \in Patches
          /\ \A n \in Images : /\ n # pass.image => obj'[n] = obj[n]
                               /\ obj'[n].finalizer = obj[n].finalizer
      BY <1>6, PatchStatusFacts DEF Patches
    <2>2. UNCHANGED obj \/ obj[pass.image].finalizer
      BY <1>6, <2>1, PatchStatusFacts, WritesToHolder DEF HoldsFinalizer
    <2>. QED BY <2>1, <2>2 DEF Protected
  <1>7. CASE Crash
    BY <1>7 DEF Crash, Protected
  <1>8. CASE UNCHANGED vars
    BY <1>8 DEF vars, Protected
  <1>. QED BY <1>1, <1>2, <1>3, <1>4, <1>5, <1>6, <1>7, <1>8 DEF Next, Works

\* The account stays balanced when nothing new leaks and the debt grows no
\* faster than the slips.
LEMMA NothingLeaks ==
    ASSUME SafetyInv, [Next]_vars, Accounted,
           Leaked' \subseteq Leaked,
           Debt' + faults.slips <= Debt + faults'.slips
    PROVE  Accounted'
  <1>1. IsFiniteSet(Leaked') /\ Cardinality(Leaked') <= Cardinality(Leaked)
    BY FS_Subset DEF Accounted
  <1>2. Cardinality(Leaked) \in Nat /\ Cardinality(Leaked') \in Nat
    BY <1>1, FS_CardinalityType DEF Accounted
  <1>3. faults.slips \in Nat /\ faults'.slips \in Nat
    BY SlipsGrow
  <1>4. Debt \in Nat /\ Debt' \in Nat
    BY DEF Debt
  <1>. QED BY <1>1, <1>2, <1>3, <1>4 DEF Accounted

\* One snapshot may leak for one slip, or for the debt of one.
LEMMA OneLeaks ==
    ASSUME SafetyInv, [Next]_vars, Accounted, NEW x,
           Leaked' \subseteq Leaked \cup {x},
           Debt' + 1 + faults.slips <= Debt + faults'.slips
    PROVE  Accounted'
  <1>. DEFINE S == Leaked
  <1>0. IsFiniteSet(S) /\ Cardinality(S) \in Nat
    BY FS_CardinalityType DEF Accounted
  <1>1. /\ IsFiniteSet(S \cup {x})
        /\ Cardinality(S \cup {x}) <= Cardinality(S) + 1
    <2>. HIDE DEF S
    <2>1. /\ IsFiniteSet(S \cup {x})
          /\ Cardinality(S \cup {x}) \in {Cardinality(S), Cardinality(S) + 1}
      BY <1>0, FS_AddElement
    <2>. QED BY <1>0, <2>1
  <1>2. IsFiniteSet(Leaked') /\ Cardinality(Leaked') <= Cardinality(Leaked \cup {x})
    BY <1>1, FS_Subset
  <1>3. /\ Cardinality(Leaked) \in Nat /\ Cardinality(Leaked') \in Nat
        /\ Cardinality(Leaked \cup {x}) \in Nat
    BY <1>1, <1>2, FS_CardinalityType DEF Accounted
  <1>4. faults.slips \in Nat /\ faults'.slips \in Nat
    BY SlipsGrow
  <1>5. Debt \in Nat /\ Debt' \in Nat
    BY DEF Debt
  <1>. QED BY <1>1, <1>2, <1>3, <1>4, <1>5 DEF Accounted

\* An import that was asked for leaks only if the answer is lost, and that is
\* a slip.
LEMMA CreateAccounted ==
    ASSUME LeakInv, SnapshotCreate
    PROVE  Accounted'
  <1>. USE DEF LeakInv, SafetyInv
  <1>n. [Next]_vars
    BY DEF Next, Works
  <1>s. faults.slips \in Nat /\ faults'.slips \in Nat /\ faults'.slips >= faults.slips
    BY <1>n, SlipsGrow
  <1>1. /\ UNCHANGED obj /\ pass.step = "create" /\ pass'.step = "patchSpec"
        /\ pass'.image = pass.image /\ pass'.base = pass.base
    BY CreateFacts
  <1>2. Debt' = Debt /\ Debt \in Nat
    BY <1>1 DEF Debt
  <1>3. \A j \in Ids : ~InHand(j) /\ (Referenced(j)' <=> Referenced(j))
    BY <1>1 DEF InHand, Referenced
  <1>4. CASE UNCHANGED snapshot
    <2>1. Leaked' \subseteq Leaked
      BY <1>3, <1>4 DEF Leaked, Exists
    <2>. QED BY <1>n, <1>s, <1>2, <2>1, NothingLeaks
  <1>5. ASSUME NEW i \in Ids, NEW s \in Kept,
               snapshot' = [snapshot EXCEPT ![i] = NewSnapshot(s)],
               \/ pass'.view.snapshotID = i
               \/ Fault("lost")
        PROVE  Accounted'
    <2>1. \A j \in Ids : j # i => (Exists(j)' => Exists(j))
      BY <1>5 DEF Exists, TypeOK
    <2>2. Leaked' \subseteq Leaked \cup {i}
      BY <1>3, <2>1 DEF Leaked
    <2>3. CASE Fault("lost")
      <3>1. faults'.slips = faults.slips + 1
        BY <2>3, FaultStep DEF Slips
      <3>. QED BY <1>n, <1>s, <1>2, <2>2, <3>1, OneLeaks
    <2>4. CASE pass'.view.snapshotID = i
      <3>1. pass.base.snapshotID = None
        BY <1>1 DEF Dispatched, Named, Coherent
      <3>2. InHand(i)'
        BY <1>1, <2>4, <3>1, ConstantsAssumption DEF InHand
      <3>3. Leaked' \subseteq Leaked
        BY <2>2, <3>2 DEF Leaked
      <3>. QED BY <1>n, <1>s, <1>2, <3>3, NothingLeaks
    <2>. QED BY <1>5, <2>3, <2>4
  <1>. QED BY <1>4, <1>5, CreateFacts

\* The object disappears with its last finalizer: only what it names by now can
\* be lost, and only if the pass started from another name.
LEMMA PatchSpecAccounted ==
    ASSUME LeakInv, PatchSpec
    PROVE  Accounted'
  <1>. USE DEF LeakInv, SafetyInv
  <1>n. [Next]_vars
    BY DEF Next, Works
  <1>s. faults.slips \in Nat /\ faults'.slips \in Nat /\ faults'.slips >= faults.slips
    BY <1>n, SlipsGrow
  <1>1. /\ UNCHANGED snapshot /\ pass.step = "patchSpec" /\ pass'.step = "patchStatus"
        /\ pass'.image = pass.image /\ pass'.base = pass.base /\ pass'.view = pass.view
        /\ pass.image \in Images
        /\ \A n \in Images : n # pass.image => obj'[n] = obj[n]
    BY PatchSpecFacts DEF TypeOK
  <1>2. \A i \in Ids : (InHand(i)' <=> InHand(i)) /\ (Exists(i)' <=> Exists(i))
    BY <1>1 DEF InHand, Exists
  <1>3. CASE /\ obj'[pass.image].phase = obj[pass.image].phase
             /\ obj'[pass.image].snapshotID = obj[pass.image].snapshotID
    <2>1. \A i \in Ids : Referenced(i)' <=> Referenced(i)
      BY <1>1, <1>3 DEF Referenced
    <2>2. Leaked' \subseteq Leaked
      BY <1>2, <2>1 DEF Leaked
    <2>3. Debt' = Debt /\ Debt \in Nat
      BY <1>1, <1>3 DEF Debt
    <2>. QED BY <1>n, <1>s, <2>2, <2>3, NothingLeaks
  <1>4. CASE /\ UNCHANGED faults /\ ~pass.view.finalizer
             /\ obj[pass.image].phase = "deleting"
             /\ obj'[pass.image] = Gone
    <2>1. \A i \in Ids : Referenced(i) /\ ~Referenced(i)'
                            => obj[pass.image].snapshotID = i
      BY <1>1 DEF Referenced
    <2>2. Leaked' \subseteq Leaked \cup {obj[pass.image].snapshotID}
      BY <1>2, <2>1 DEF Leaked
    <2>3. Debt' = 0
      BY <1>1, <1>4, IdleType DEF Debt
    <2>4. CASE pass.base.snapshotID = obj[pass.image].snapshotID
      <3>1. Leaked' \subseteq Leaked
        BY <1>1, <1>2, <1>4, <2>1, <2>4, GivesUpNothing DEF Leaked, Patches
      <3>. QED BY <1>n, <1>s, <1>4, <2>3, <3>1, NothingLeaks DEF Debt
    <2>5. CASE pass.base.snapshotID # obj[pass.image].snapshotID
      <3>1. Debt = 1
        BY <1>1, <1>4, <2>5 DEF Debt
      <3>. QED BY <1>n, <1>s, <1>4, <2>2, <2>3, <3>1, OneLeaks
    <2>. QED BY <2>4, <2>5
  <1>. QED BY <1>3, <1>4, PatchSpecFacts

\* The status takes over what is in hand; it can lose only what the object names
\* by now, and only if the pass started from another name.
LEMMA PatchStatusAccounted ==
    ASSUME LeakInv, PatchStatus
    PROVE  Accounted'
  <1>. USE DEF LeakInv, SafetyInv
  <1>n. [Next]_vars
    BY DEF Next, Works
  <1>s. faults.slips \in Nat /\ faults'.slips \in Nat /\ faults'.slips >= faults.slips
    BY <1>n, SlipsGrow
  <1>1. /\ UNCHANGED snapshot /\ pass.step = "patchStatus" /\ pass'.step = "idle"
        /\ pass.step \in Patches /\ pass.image \in Images
        /\ \A n \in Images : /\ n # pass.image => obj'[n] = obj[n]
                             /\ obj'[n].phase = obj[n].phase
    BY PatchStatusFacts, IdleType DEF TypeOK, Patches
  <1>2. Debt' = 0 /\ Debt \in Nat
    BY <1>1 DEF Debt
  <1>3. \A i \in Ids : i \in Leaked' => Exists(i) /\ ~Referenced(i)'
    BY <1>1 DEF Leaked, Exists
  <1>4. CASE UNCHANGED obj /\ ~StatusDiffers
    <2>1. Leaked' \subseteq Leaked
      BY <1>3, <1>4 DEF Leaked, Referenced, InHand, StatusDiffers
    <2>. QED BY <1>n, <1>s, <1>2, <2>1, NothingLeaks
  <1>5. CASE UNCHANGED obj /\ Fault("patch")
    <2>1. Leaked' \subseteq Leaked \cup {pass.view.snapshotID}
      BY <1>3, <1>5 DEF Leaked, Referenced, InHand
    <2>2. faults'.slips = faults.slips + 1
      BY <1>5, FaultStep DEF Slips
    <2>. QED BY <1>n, <1>s, <1>2, <2>1, <2>2, OneLeaks
  <1>6. CASE /\ obj[pass.image].phase # "gone"
             /\ obj'[pass.image].snapshotID =
                   IF pass.base.snapshotID # pass.view.snapshotID
                     THEN pass.view.snapshotID ELSE obj[pass.image].snapshotID
    <2>1. \A i \in Ids : InHand(i) => Referenced(i)'
      BY <1>1, <1>6 DEF InHand, Referenced
    <2>2. \A i \in Ids : Referenced(i) /\ ~Referenced(i)'
                            => /\ obj[pass.image].snapshotID = i
                               /\ pass.base.snapshotID # pass.view.snapshotID
      BY <1>1, <1>6 DEF Referenced
    <2>3. Leaked' \subseteq Leaked \cup {obj[pass.image].snapshotID}
      BY <1>3, <2>1, <2>2 DEF Leaked
    <2>4. CASE pass.base.snapshotID = obj[pass.image].snapshotID
      <3>1. Leaked' \subseteq Leaked
        BY <1>1, <1>3, <2>1, <2>2, <2>4, GivesUpNothing DEF Leaked
      <3>. QED BY <1>n, <1>s, <1>2, <3>1, NothingLeaks
    <2>5. CASE pass.base.snapshotID # obj[pass.image].snapshotID
      <3>1. Debt = 1
        BY <1>1, <1>6, <2>5 DEF Debt
      <3>. QED BY <1>n, <1>s, <1>2, <2>3, <3>1, OneLeaks
    <2>. QED BY <2>4, <2>5
  <1>7. StatusDiffers => obj[pass.image].phase # "gone"
    BY <1>1, WritesToHolder DEF HoldsFinalizer
  <1>. QED BY <1>4, <1>5, <1>6, <1>7, PatchStatusFacts

\* The leaked snapshots and the debt together never grow by more than the slips
\* do.
LEMMA AccountedStep ==
    ASSUME LeakInv, [Next]_vars
    PROVE  Accounted'
  <1>. USE DEF LeakInv, SafetyInv
  <1>s. faults.slips \in Nat /\ faults'.slips \in Nat /\ faults'.slips >= faults.slips
    BY SlipsGrow
  <1>t. pass.step # "idle" => pass.image \in Images
    BY DEF TypeOK
  <1>d. Debt \in Nat /\ Debt' \in Nat
    BY DEF Debt
  <1>1. ASSUME NEW k \in Images, RequestDeletion(k) PROVE Accounted'
    <2>1. \A i \in Ids : Referenced(i) => Referenced(i)'
      BY <1>1, RequestFacts DEF Referenced, Protected
    <2>2. Leaked' \subseteq Leaked
      BY <1>1, <2>1, RequestFacts DEF Leaked, Exists, InHand
    <2>3. Debt' <= Debt
      BY <1>1, <1>t, RequestFacts, IdleType DEF Debt
    <2>. QED BY <1>s, <1>d, <2>2, <2>3, NothingLeaks
  <1>2. ASSUME NEW k \in Images, MachineChange(k) \/ CacheSync(k) \/ Resync(k)
        PROVE  Accounted'
    BY <1>2, QuietFacts DEF Accounted, Leaked, Referenced, InHand, Exists, Debt
  <1>3. ASSUME NEW k \in Images, Begin(k) PROVE Accounted'
    <2>1. Leaked' \subseteq Leaked
      BY <1>3, BeginFacts DEF Leaked, Referenced, InHand, Exists
    <2>2. Debt = 0 /\ pass.step = "idle"
      BY <1>3, BeginFacts DEF Debt
    <2>3. Debt' \in {0, 1} /\ (Debt' = 1 => cache[k] # obj[k])
      BY <1>3, <2>2, BeginFacts DEF Debt
    <2>4. faults'.slips >= faults.slips + Debt'
      <3>1. CASE cache[k] = obj[k] /\ UNCHANGED faults
        BY <1>s, <2>3, <3>1
      <3>2. CASE Fault("stale")
        BY <1>s, <2>3, <3>2, FaultStep DEF Slips
      <3>. QED BY <1>3, <3>1, <3>2, BeginFacts
    <2>. QED BY <1>s, <1>d, <2>1, <2>2, <2>4, NothingLeaks
  \* The steps by which no snapshot comes into being and no name is lost.
  <1>4. ASSUME UNCHANGED obj, \A j \in Ids : Exists(j)' => Exists(j),
               \/ UNCHANGED pass
               \/ /\ pass'.image = pass.image /\ pass'.base = pass.base
                  /\ pass.step \in Calls /\ pass'.step # "idle"
        PROVE  Accounted'
    <2>1. Debt' = Debt
      BY <1>4 DEF Debt, Calls
    <2>2. \A j \in Ids : /\ Referenced(j)' <=> Referenced(j)
                         /\ InHand(j) => InHand(j)'
      BY <1>4 DEF Referenced, InHand, Calls
    <2>3. Leaked' \subseteq Leaked
      BY <1>4, <2>2 DEF Leaked
    <2>. QED BY <1>s, <1>d, <2>1, <2>3, NothingLeaks
  <1>5. ASSUME NEW i \in Ids, SnapshotComplete(i) \/ SnapshotFail(i) \/ Vanish(i)
        PROVE  Accounted'
    <2>1. UNCHANGED <<obj, pass>> /\ \A j \in Ids : Exists(j)' => Exists(j)
      BY <1>5, CloudFacts DEF Exists
    <2>. QED BY <1>4, <2>1
  <1>6. CASE resolveImageURL \/ SnapshotGet \/ SnapshotDelete
    <2>1. /\ UNCHANGED obj /\ pass'.image = pass.image /\ pass'.base = pass.base
          /\ pass.step \in Calls /\ pass'.step # "idle"
      BY <1>6, CallFacts
    <2>2. \A j \in Ids : Exists(j)' => Exists(j)
      <3>1. CASE UNCHANGED snapshot
        BY <3>1 DEF Exists
      <3>2. CASE SnapshotDelete
        BY <3>1, <3>2, DeleteFacts DEF Exists, Kept, TypeOK, Snapshots
      <3>. QED BY <1>6, <3>1, <3>2 DEF resolveImageURL, SnapshotGet
    <2>. QED BY <1>4, <2>1, <2>2
  <1>7. CASE Crash
    <2>1. Leaked' \subseteq Leaked \cup {pass.view.snapshotID}
      BY <1>7 DEF Crash, Leaked, Referenced, Exists, InHand
    <2>2. faults'.slips = faults.slips + 1
      BY <1>7, FaultStep DEF Crash, Slips
    <2>3. Debt' = 0
      BY <1>7, IdleType DEF Crash, Debt
    <2>. QED BY <1>s, <1>d, <2>1, <2>2, <2>3, OneLeaks
  <1>8. CASE UNCHANGED vars
    BY <1>4, <1>8 DEF vars, Exists
  <1>. QED BY <1>1, <1>2, <1>3, <1>5, <1>6, <1>7, <1>8, CreateAccounted,
              PatchSpecAccounted, PatchStatusAccounted DEF Next, Works

\* LeakInv holds from the start, and every step keeps it.
THEOREM LeakInvariance == Spec => []LeakInv
  <1>1. Init => LeakInv
    <2>. SUFFICES ASSUME Init PROVE LeakInv
      OBVIOUS
    <2>1. Protected
      BY ConstantsAssumption DEF Init, Protected, Fresh
    <2>2. pass.step = "idle"
      BY IdleType DEF Init
    <2>3. Leaked = {}
      BY DEF Init, Leaked, Exists, Kept
    <2>4. Accounted
      BY <2>2, <2>3, FS_EmptySet DEF Init, Accounted, Debt
    <2>. QED BY <2>1, <2>4, InitInv DEF LeakInv
  <1>2. LeakInv /\ [Next]_vars => LeakInv'
    <2>. SUFFICES ASSUME LeakInv, [Next]_vars PROVE LeakInv'
      OBVIOUS
    <2>1. SafetyInv'
      BY StepType, OrderedStep, GuardedStep, NamedStep, DispatchedStep, FinishedStep,
         SettledStep DEF LeakInv, SafetyInv
    <2>. QED BY <2>1, ProtectedStep, AccountedStep DEF LeakInv
  <1>. QED BY <1>1, <1>2, PTL DEF Spec

\* Every snapshot that exists, and is billed, without an object to name it is paid
\* for by a slip of its own: a patch that was dropped, a stale read, a crash or
\* a lost answer.  Whatever Vultr answers, nothing else loses track of one.
THEOREM LeakBoundHolds == Spec => []LeakBound
  <1>1. LeakInv => LeakBound
    <2>. SUFFICES ASSUME LeakInv PROVE LeakBound
      OBVIOUS
    <2>1. Cardinality(Leaked) \in Nat /\ Debt \in Nat /\ faults.slips \in Nat
      BY FS_CardinalityType, ConstantsAssumption
      DEF LeakInv, Accounted, SafetyInv, TypeOK, Debt
    <2>. QED BY <2>1 DEF LeakInv, Accounted, LeakBound
  <1>. QED BY <1>1, LeakInvariance, PTL


-----------------------------------------------------------------------------
(***************************************************************************)
(* Without slips.                                                          *)
(***************************************************************************)

\* A snapshot that exists is named by the object of its image, or the pass that
\* has just imported it still holds its ID; either way the image is there.
LEMMA ExistsNamed ==
    ASSUME LeakInv, faults.slips = 0, NEW i \in Ids, Exists(i)
    PROVE  LET k == snapshot[i].image IN
           /\ k \in Images /\ obj[k].phase # "gone"
           /\ \/ obj[k].snapshotID = i
              \/ InHand(i) /\ pass.image = k /\ obj[k].snapshotID = None
  <1>. DEFINE k == snapshot[i].image
  <1>. USE DEF LeakInv, SafetyInv
  <1>1. Leaked = {} /\ Debt = 0
    <2>1. Cardinality(Leaked) \in Nat /\ Debt \in Nat /\ IsFiniteSet(Leaked)
      BY FS_CardinalityType DEF Accounted, Debt
    <2>2. Cardinality(Leaked) = 0 /\ Debt = 0
      BY <2>1 DEF Accounted
    <2>. QED BY <2>1, <2>2, FS_EmptySet
  <1>2. Referenced(i) \/ InHand(i)
    BY <1>1 DEF Leaked
  <1>3. CASE Referenced(i)
    <2>1. PICK n \in Images : obj[n].phase # "gone" /\ obj[n].snapshotID = i
      BY <1>3 DEF Referenced
    <2>2. n = k
      BY <2>1 DEF Named, Coherent
    <2>. QED BY <2>1, <2>2
  <1>4. CASE InHand(i)
    <2>1. /\ pass.step \in Patches /\ pass.step # "idle" /\ pass.image \in Images
          /\ pass.view.snapshotID = i /\ pass.base.snapshotID # i
      BY <1>4 DEF InHand, TypeOK, Patches
    <2>2. pass.image = k
      BY <2>1 DEF Named, Coherent
    <2>3. /\ pass.base.phase = "live" /\ pass.base.finalizer
          /\ pass.base.snapshotStatus = "none"
      BY <2>1, ConstantsAssumption DEF Settled, Progress
    <2>4. pass.base.snapshotID = None
      BY <2>1, <2>3 DEF Named, Coherent
    <2>5. obj[k].phase # "gone"
      BY <2>1, <2>2, <2>3 DEF Guarded, HoldsFinalizer
    <2>6. obj[k].snapshotID = None
      BY <1>1, <2>1, <2>2, <2>4, <2>5 DEF Debt
    <2>. QED BY <1>4, <2>1, <2>2, <2>5, <2>6
  <1>. QED BY <1>2, <1>3, <1>4

\* Until the first slip no image is imported twice at a time, though Vultr's
\* Create is not idempotent and every pass works on a copy.
THEOREM OneSnapshotPerImage ==
    Spec => [](faults.slips = 0 =>
                  \A i, j \in Ids :
                     Exists(i) /\ Exists(j) /\ snapshot[i].image = snapshot[j].image
                        => i = j)
  <1>1. LeakInv => (faults.slips = 0 =>
                      \A i, j \in Ids :
                         Exists(i) /\ Exists(j) /\ snapshot[i].image = snapshot[j].image
                            => i = j)
    BY ExistsNamed, ConstantsAssumption DEF InHand
  <1>. QED BY <1>1, LeakInvariance, PTL

\* Until the first slip the finalizer does what api/v1beta1/krumkakeimage_types.go:9
\* says of it: an image that is gone has left no snapshot behind.
THEOREM FinalizerCleansUpUntilSlip ==
    Spec => [](faults.slips = 0 =>
                  \A k \in Images : \A i \in Ids :
                     obj[k].phase = "gone" /\ snapshot[i].image = k => ~Exists(i))
  <1>1. LeakInv => (faults.slips = 0 =>
                      \A k \in Images : \A i \in Ids :
                         obj[k].phase = "gone" /\ snapshot[i].image = k => ~Exists(i))
    BY ExistsNamed
  <1>. QED BY <1>1, LeakInvariance, PTL
================================================================================
