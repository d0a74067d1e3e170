--------------------------- MODULE ProvisioningProofs ---------------------------
(***************************************************************************)
(* Theorems about Provisioning, for every set of machines and of images,   *)
(* whatever their versions and the names the machines are made with, and   *)
(* for every number of faults.                                             *)
(***************************************************************************)
EXTENDS ProvisioningInv, FiniteSetTheorems, TLAPS

-----------------------------------------------------------------------------
(***************************************************************************)
(* What a step does, action by action.                                     *)
(***************************************************************************)

\* A fault keeps the counters within the bound; only a stale pass counts as one.
LEMMA FaultStep ==
    ASSUME TypeOK, faults.stale <= faults.all, NEW kind, Fault(kind)
    PROVE  /\ faults' \in [all : 0..MaxFaults, stale : 0..MaxFaults, dropped : BOOLEAN]
           /\ faults'.stale <= faults'.all
           /\ faults'.stale = faults.stale + IF kind = "stale" THEN 1 ELSE 0
  BY ConstantsAssumption DEF TypeOK, Fault

\* The worker between two passes.
LEMMA IdleFacts ==
    /\ Idle.machine = None /\ Idle.base = None /\ Idle.image = None
    /\ Idle.source = None /\ Idle.again = FALSE
    /\ Idle \in [machine : Machines \cup {None}, base : Images \cup {None},
                 image : Images \cup {None}, source : Images \cup {None},
                 again : BOOLEAN]
  BY DEF Idle

\* A pass takes the image its copy of the machine names, if it names one.
LEMMA SelectFacts ==
    ASSUME TypeOK, NEW m \in Machines, SelectImage(m)
    PROVE  /\ UNCHANGED <<machine, image, mcache, icache, iqueue>>
           /\ mqueue' \subseteq Machines /\ pass = Idle
           /\ pass' \in [machine : Machines \cup {None}, base : Images \cup {None},
                         image : Images \cup {None}, source : Images \cup {None},
                         again : BOOLEAN]
           /\ pass'.machine = m /\ pass'.base = mcache[m].imageName
           /\ pass'.image \in Images /\ pass'.source \in {None, pass'.image}
           /\ pass'.base # None => pass'.image = pass'.base
           /\ \/ mcache[m] = machine[m] /\ UNCHANGED faults
              \/ Fault("stale")
  <1>1. /\ UNCHANGED <<machine, image, mcache, icache, iqueue>>
        /\ mqueue' \subseteq Machines /\ pass = Idle
        /\ \/ mcache[m] = machine[m] /\ UNCHANGED faults
           \/ Fault("stale")
    BY DEF SelectImage, Picks, TypeOK
  <1>2. PICK k \in Candidates(m) :
           pass' = [machine |-> m, base |-> mcache[m].imageName, image |-> k,
                    source |-> IF icache[k].status = "complete" THEN k ELSE None,
                    again |-> FALSE]
    BY DEF SelectImage
  <1>3. mcache[m].imageName \in Images \cup {None}
    BY DEF TypeOK, Specs
  <1>4. k \in Images /\ (mcache[m].imageName # None => k = mcache[m].imageName)
    BY <1>2, <1>3 DEF Candidates
  <1>. QED BY <1>1, <1>2, <1>3, <1>4

\* The deferred patch exchanges a name only for the image of its pass.
LEMMA PatchFacts ==
    ASSUME TypeOK, Forgets, Patch
    PROVE  /\ UNCHANGED <<image, mcache, icache, iqueue>>
           /\ mqueue' \subseteq Machines
           /\ Active /\ pass.machine \in Machines /\ pass' = Idle
           /\ machine' \in [Machines -> Specs]
           /\ \A n \in Machines : n # pass.machine => machine'[n] = machine[n]
           /\ \/ UNCHANGED machine /\ Fault("patch")
              \/ /\ UNCHANGED faults
                 /\ machine'[pass.machine].imageName =
                       IF pass.image # pass.base
                         THEN pass.image ELSE machine[pass.machine].imageName
                 /\ machine'[pass.machine].source =
                       IF pass.source # None
                         THEN pass.source ELSE machine[pass.machine].source
  <1>. DEFINE p == pass.machine
              name == IF pass.image # pass.base THEN pass.image ELSE machine[p].imageName
              source == IF pass.source # None THEN pass.source ELSE machine[p].source
              new == [imageName |-> name, source |-> source]
  <1>1. Active /\ p \in Machines
    BY DEF Patch, Forgets, Active, TypeOK
  <1>2. /\ UNCHANGED <<image, mcache, icache, iqueue>>
        /\ mqueue' \subseteq Machines /\ pass' = Idle
    BY <1>1 DEF Patch, TypeOK
  <1>3. machine \in [Machines -> Specs] /\ new \in Specs
    BY <1>1 DEF TypeOK, Specs
  <1>4. \/ machine' = [machine EXCEPT ![p] = new] /\ UNCHANGED faults
        \/ Fault("patch") /\ UNCHANGED machine
    BY <1>1 DEF Patch, Pins
  <1>5. new.imageName = name /\ new.source = source
    OBVIOUS
  <1>. HIDE DEF new
  <1>. QED BY <1>1, <1>2, <1>3, <1>4, <1>5

\* What the users, Vultr and the wake-ups leave alone.
LEMMA QuietFacts ==
    ASSUME TypeOK,
           \/ \E k \in Images : \/ Apply(k) \/ Relabel(k) \/ Remove(k)
                                \/ SyncImage(k) \/ ImageReconcile(k)
           \/ Resync
    PROVE  /\ UNCHANGED <<machine, mcache, pass>>
           /\ mqueue' \subseteq Machines /\ iqueue' \subseteq Images
           /\ image' \in [Images -> Pictures] /\ icache' \in [Images -> Pictures]
           /\ UNCHANGED faults \/ Fault("relabel") \/ Fault("remove") \/ Fault("fail")
           /\ \A n \in Images :
                 image'[n].status # "none" => image[n].status # "none" \/ NamedBySome(n)
  <1>0. /\ image \in [Images -> Pictures] /\ icache \in [Images -> Pictures]
        /\ mqueue \subseteq Machines /\ iqueue \subseteq Images
    BY DEF TypeOK
  <1>. DEFINE Grows ==
         /\ image' \in [Images -> Pictures]
         /\ \A n \in Images :
               image'[n].status # "none" => image[n].status # "none" \/ NamedBySome(n)
  \* One image at most is touched.
  <1>s. ASSUME NEW k \in Images, NEW new \in Pictures, image' = [image EXCEPT ![k] = new],
               new.status # "none" => image[k].status # "none" \/ NamedBySome(k)
        PROVE  Grows
    BY <1>0, <1>s
  <1>u. UNCHANGED image => Grows
    BY <1>0
  <1>. HIDE DEF Grows
  <1>1. ASSUME NEW k \in Images, Apply(k)
        PROVE  /\ UNCHANGED <<machine, mcache, icache, mqueue, iqueue, pass, faults>>
               /\ Grows
    <2>1. PICK b \in BOOLEAN :
             image' = [image EXCEPT ![k] =
                         [NoPicture EXCEPT !.present = TRUE, !.matching = b]]
      BY <1>1 DEF Apply
    <2>. DEFINE new == [NoPicture EXCEPT !.present = TRUE, !.matching = b]
    <2>2. new \in Pictures /\ new.status = "none"
      BY DEF NoPicture, Pictures
    <2>. HIDE DEF new
    <2>3. image' = [image EXCEPT ![k] = new]
      BY <2>1 DEF new
    <2>. QED BY <1>s, <1>1, <2>2, <2>3 DEF Apply
  <1>2. ASSUME NEW k \in Images, Relabel(k)
        PROVE  /\ UNCHANGED <<machine, mcache, icache, mqueue, iqueue, pass>>
               /\ Grows /\ Fault("relabel")
    <2>. DEFINE new == [image[k] EXCEPT !.matching = ~@]
    <2>1. new \in Pictures /\ new.status = image[k].status
      BY <1>0 DEF Pictures
    <2>2. image' = [image EXCEPT ![k] = new]
      BY <1>2 DEF Relabel
    <2>. HIDE DEF new
    <2>. QED BY <1>s, <1>2, <2>1, <2>2 DEF Relabel
  <1>3. ASSUME NEW k \in Images, Remove(k)
        PROVE  /\ UNCHANGED <<machine, mcache, icache, mqueue, iqueue, pass>>
               /\ Grows /\ Fault("remove")
    <2>1. NoPicture \in Pictures /\ NoPicture.status = "none"
      BY DEF NoPicture, Pictures
    <2>. QED BY <1>s, <1>3, <2>1 DEF Remove
  <1>4. ASSUME NEW k \in Images, SyncImage(k)
        PROVE  /\ UNCHANGED <<machine, image, mcache, pass, faults>>
               /\ mqueue' \subseteq Machines /\ iqueue' \subseteq Images
               /\ icache' \in [Images -> Pictures]
    BY <1>0, <1>4 DEF SyncImage, ImageEvent, KrumkakeImageToKrumkakeMachines
  <1>5. ASSUME NEW k \in Images, ImageReconcile(k)
        PROVE  /\ UNCHANGED <<machine, mcache, icache, mqueue, pass>>
               /\ iqueue' \subseteq Images /\ Grows
               /\ UNCHANGED faults \/ Fault("fail")
    <2>1. /\ UNCHANGED <<machine, mcache, icache, mqueue, pass>>
          /\ iqueue' \subseteq Images
          /\ UNCHANGED faults \/ Fault("fail")
      BY <1>0, <1>5 DEF ImageReconcile
    <2>2. ASSUME NEW status \in {"pending", "complete", "error"}, Sets(k, status),
                 image[k].status # "none" \/ NamedBySome(k)
          PROVE  Grows
      <3>. DEFINE new == [image[k] EXCEPT !.status = status]
      <3>1. new \in Pictures
        BY <1>0 DEF Pictures
      <3>2. image' = [image EXCEPT ![k] = new]
        BY <2>2 DEF Sets
      <3>. HIDE DEF new
      <3>. QED BY <1>s, <2>2, <3>1, <3>2
    <2>3. \/ UNCHANGED image
          \/ /\ image[k].status # "none" \/ NamedBySome(k)
             /\ \E status \in {"pending", "complete", "error"} : Sets(k, status)
      BY <1>5 DEF ImageReconcile
    <2>. QED BY <1>u, <2>1, <2>2, <2>3
  <1>6. ASSUME Resync
        PROVE  /\ UNCHANGED <<machine, image, mcache, icache, pass, faults>>
               /\ mqueue' \subseteq Machines /\ iqueue' \subseteq Images
    <2>1. ASSUME NEW m \in Machines, ResyncMachine(m)
          PROVE  /\ UNCHANGED <<machine, image, mcache, icache, pass, faults>>
                 /\ mqueue' \subseteq Machines /\ iqueue' \subseteq Images
      <3>1. mcache[m].imageName \in Images \cup {None}
        BY DEF TypeOK, Specs
      <3>. QED BY <1>0, <2>1, <3>1 DEF ResyncMachine, MachineEvent,
                                       KrumkakeMachineToKrumkakeImages
    <2>2. ASSUME NEW k \in Images, ResyncImage(k)
          PROVE  /\ UNCHANGED <<machine, image, mcache, icache, pass, faults>>
                 /\ mqueue' \subseteq Machines /\ iqueue' \subseteq Images
      BY <1>0, <2>2 DEF ResyncImage, ImageEvent, KrumkakeImageToKrumkakeMachines
    <2>. QED BY <1>6, <2>1, <2>2 DEF Resync
  <1>7. UNCHANGED <<machine, mcache, pass>>
    BY <1>1, <1>2, <1>3, <1>4, <1>5, <1>6
  <1>8. /\ mqueue' \subseteq Machines /\ iqueue' \subseteq Images
        /\ icache' \in [Images -> Pictures]
    BY <1>0, <1>1, <1>2, <1>3, <1>4, <1>5, <1>6
  <1>9. UNCHANGED faults \/ Fault("relabel") \/ Fault("remove") \/ Fault("fail")
    BY <1>1, <1>2, <1>3, <1>4, <1>5, <1>6
  <1>10. Grows
    BY <1>u, <1>1, <1>2, <1>3, <1>4, <1>5, <1>6
  <1>. QED BY <1>7, <1>8, <1>9, <1>10 DEF Grows


\* The steps about one machine that leave everything else alone.
LEMMA MachineFacts ==
    ASSUME TypeOK, NEW m \in Machines, SyncMachine(m) \/ HasInstance(m)
    PROVE  /\ UNCHANGED <<machine, image, icache, pass>>
           /\ mqueue' \subseteq Machines /\ iqueue' \subseteq Images
           /\ mcache' \in [Machines -> Specs]
           /\ UNCHANGED faults \/ Fault("stale")
           /\ \A n \in Machines : mcache'[n] \in {mcache[n], machine[n]}
  <1>1. machine[m] \in Specs /\ machine[m].imageName \in Images \cup {None}
    BY DEF TypeOK, Specs
  <1>. QED BY <1>1 DEF SyncMachine, HasInstance, Picks, TypeOK,
                       MachineEvent, KrumkakeMachineToKrumkakeImages

\* A failed call leaves the pass without an instance.
LEMMA FailFacts ==
    ASSUME TypeOK, Forgets, CreateFails
    PROVE  /\ UNCHANGED <<machine, image, mcache, icache, mqueue, iqueue>>
           /\ Fault("api") /\ Active
           /\ pass' \in [machine : Machines \cup {None}, base : Images \cup {None},
                         image : Images \cup {None}, source : Images \cup {None},
                         again : BOOLEAN]
           /\ pass'.machine = pass.machine /\ pass'.base = pass.base
           /\ pass'.image = pass.image /\ pass'.source = None
  <1>1. Active
    BY IdleFacts DEF CreateFails, Forgets
  <1>. QED BY <1>1 DEF CreateFails, TypeOK

\* A restart begins anew from what is stored.
LEMMA CrashFacts ==
    ASSUME TypeOK, Crash
    PROVE  /\ UNCHANGED <<machine, image>> /\ Fault("crash") /\ pass' = Idle
           /\ mcache' = machine /\ icache' = image
           /\ mqueue' = Machines /\ iqueue' \subseteq Images
  BY DEF Crash

-----------------------------------------------------------------------------
(***************************************************************************)
(* Types, and the names that are kept.                                     *)
(***************************************************************************)

\* No instance before the first name, and nothing remembered.
LEMMA InitBase == Init => BaseInv
  <1>. SUFFICES ASSUME Init PROVE BaseInv
    OBVIOUS
  <1>1. /\ machine \in [Machines -> Specs] /\ mcache = machine
        /\ \A m \in Machines : machine[m].source = None
    BY ConstantsAssumption DEF Init, Specs
  <1>2. image \in [Images -> Pictures] /\ icache = image
    BY DEF Init, NoPicture, Pictures
  <1>3. pass = Idle /\ ~Active
    BY IdleFacts DEF Init, Active
  <1>4. /\ faults \in [all : 0..MaxFaults, stale : 0..MaxFaults, dropped : BOOLEAN]
        /\ Counted
    BY ConstantsAssumption DEF Init, Counted
  <1>5. TypeOK
    BY <1>1, <1>2, <1>3, <1>4, IdleFacts DEF Init, TypeOK, Active
  <1>. QED BY <1>1, <1>3, <1>4, <1>5 DEF BaseInv, Forgets, Kept

\* The count of stale passes grows by at most one, and only with a pass.
LEMMA FaultsStep ==
    ASSUME BaseInv, [Next]_vars
    PROVE  /\ faults' \in [all : 0..MaxFaults, stale : 0..MaxFaults, dropped : BOOLEAN]
           /\ Counted' /\ faults.stale \in Nat /\ faults'.stale \in Nat
           /\ faults'.stale >= faults.stale
  <1>. USE DEF BaseInv
  <1>1. UNCHANGED faults \/ \E kind : Fault(kind)
    <2>1. ASSUME NEW m \in Machines, SyncMachine(m) \/ HasInstance(m) \/ SelectImage(m)
          PROVE  UNCHANGED faults \/ Fault("stale")
      BY <2>1, MachineFacts, SelectFacts
    <2>2. CreateFails \/ Patch \/ Crash => UNCHANGED faults \/ \E kind : Fault(kind)
      BY DEF CreateFails, Patch, Crash
    <2>3. UNCHANGED vars => UNCHANGED faults
      BY DEF vars
    <2>. QED BY <2>1, <2>2, <2>3, QuietFacts DEF Next
  <1>2. faults.stale \in Nat
    BY ConstantsAssumption DEF TypeOK
  <1>3. CASE UNCHANGED faults
    BY <1>2, <1>3 DEF TypeOK, Counted
  <1>4. ASSUME NEW kind, Fault(kind)
        PROVE  /\ faults' \in [all : 0..MaxFaults, stale : 0..MaxFaults, dropped : BOOLEAN]
               /\ Counted' /\ faults'.stale \in Nat /\ faults'.stale >= faults.stale
    BY <1>2, <1>4, FaultStep, ConstantsAssumption DEF Counted
  <1>. QED BY <1>1, <1>2, <1>3, <1>4

\* Every step keeps the types and the names.
LEMMA BaseStep ==
    ASSUME BaseInv, [Next]_vars
    PROVE  BaseInv'
  <1>. USE DEF BaseInv
  <1>f. /\ faults' \in [all : 0..MaxFaults, stale : 0..MaxFaults, dropped : BOOLEAN]
        /\ Counted'
    BY FaultsStep
  <1>t. /\ machine \in [Machines -> Specs] /\ mcache \in [Machines -> Specs]
        /\ \A m \in Machines : machine[m].source # None => machine[m].imageName # None
        /\ image \in [Images -> Pictures] /\ icache \in [Images -> Pictures]
        /\ mqueue \subseteq Machines /\ iqueue \subseteq Images
        /\ Active => pass.machine \in Machines
    BY DEF TypeOK, Active
  <1>1. CASE \/ \E k \in Images : \/ Apply(k) \/ Relabel(k) \/ Remove(k)
                                  \/ SyncImage(k) \/ ImageReconcile(k)
             \/ Resync
    BY <1>f, <1>1, QuietFacts DEF TypeOK, Forgets, Kept, Active
  <1>2. ASSUME NEW m \in Machines, SyncMachine(m) \/ HasInstance(m) PROVE BaseInv'
    BY <1>f, <1>2, MachineFacts DEF TypeOK, Forgets, Kept, Active
  <1>3. ASSUME NEW m \in Machines, SelectImage(m) PROVE BaseInv'
    <2>1. Active' /\ pass'.machine \in Machines
      BY <1>3, SelectFacts, ConstantsAssumption DEF Active
    <2>2. TypeOK'
      BY <1>f, <1>3, SelectFacts DEF TypeOK
    <2>3. Kept' /\ Forgets'
      BY <1>3, <2>1, SelectFacts DEF Kept, Forgets
    <2>. QED BY <1>f, <2>2, <2>3
  <1>4. CASE CreateFails
    BY <1>f, <1>4, FailFacts DEF TypeOK, Forgets, Kept, Active
  <1>5. CASE Patch
    <2>1. ~Active' /\ pass' = Idle
      BY <1>5, PatchFacts, IdleFacts DEF Active
    <2>2. /\ machine' \in [Machines -> Specs] /\ Active
          /\ pass.machine \in Machines /\ pass.image \in Images
          /\ pass.source \in {None, pass.image}
      BY <1>5, PatchFacts DEF TypeOK, Active
    \* A machine that had a name has one, and so has one with an instance.
    <2>3. ASSUME NEW n \in Machines
          PROVE  /\ machine[n].imageName # None => machine'[n].imageName # None
                 /\ machine'[n].source # None => machine'[n].imageName # None
      <3>1. CASE machine'[n] = machine[n]
        BY <1>t, <3>1
      <3>2. CASE /\ n = pass.machine
                 /\ machine'[n].imageName =
                       IF pass.image # pass.base
                         THEN pass.image ELSE machine[n].imageName
                 /\ machine'[n].source =
                       IF pass.source # None
                         THEN pass.source ELSE machine[n].source
        BY <1>t, <2>2, <3>2, ConstantsAssumption DEF Kept
      <3>. QED BY <1>5, <3>1, <3>2, PatchFacts
    <2>4. TypeOK'
      BY <1>t, <1>f, <1>5, <2>1, <2>2, <2>3, PatchFacts, IdleFacts DEF TypeOK
    <2>5. Kept' /\ Forgets'
      BY <1>5, <2>1, <2>3, PatchFacts DEF Kept, Forgets
    <2>. QED BY <1>f, <2>4, <2>5
  <1>6. CASE Crash
    <2>1. ~Active' /\ pass' = Idle
      BY <1>6, CrashFacts, IdleFacts DEF Active
    <2>. QED BY <1>t, <1>f, <1>6, <2>1, CrashFacts, IdleFacts
             DEF TypeOK, Forgets, Kept, Active
  <1>7. CASE UNCHANGED vars
    BY <1>7 DEF vars, TypeOK, Counted, Forgets, Kept, Active
  <1>. QED BY <1>1, <1>2, <1>3, <1>4, <1>5, <1>6, <1>7 DEF Next

\* A name that was pinned is never taken back, whatever copies the passes go by.
THEOREM BaseInvariance == Spec => []BaseInv
  BY InitBase, BaseStep, PTL DEF Spec

\* A machine with an instance has a name for its image.
THEOREM TypeCorrect == Spec => []TypeOK
  <1>1. BaseInv => TypeOK
    BY DEF BaseInv
  <1>. QED BY <1>1, BaseInvariance, PTL


-----------------------------------------------------------------------------
(***************************************************************************)
(* The image that is pinned is the one that is used.                       *)
(***************************************************************************)

\* As long as no pass was stale, the pass under way began with the name that the
\* machine still has.
LEMMA CurrentStep ==
    ASSUME BaseInv, Current, [Next]_vars
    PROVE  Current'
  <1>. USE DEF BaseInv
  <1>0. faults.stale \in Nat /\ faults'.stale \in Nat /\ faults'.stale >= faults.stale
    BY FaultsStep
  <1>s. ASSUME UNCHANGED machine, pass'.machine = pass.machine, pass'.base = pass.base
        PROVE  Current'
    BY <1>0, <1>s DEF Current, Active
  <1>1. CASE \/ \E k \in Images : \/ Apply(k) \/ Relabel(k) \/ Remove(k)
                                  \/ SyncImage(k) \/ ImageReconcile(k)
             \/ Resync
    BY <1>s, <1>1, QuietFacts
  <1>2. ASSUME NEW m \in Machines, SyncMachine(m) \/ HasInstance(m) PROVE Current'
    BY <1>s, <1>2, MachineFacts
  <1>3. ASSUME NEW m \in Machines, SelectImage(m) PROVE Current'
    <2>1. CASE mcache[m] = machine[m]
      BY <1>3, <2>1, SelectFacts DEF Current
    <2>2. CASE Fault("stale")
      <3>1. faults'.stale # 0
        BY <1>0, <2>2, FaultStep DEF Counted
      <3>. QED BY <3>1 DEF Current
    <2>. QED BY <1>3, <2>1, <2>2, SelectFacts
  <1>4. CASE CreateFails
    BY <1>s, <1>4, FailFacts
  <1>5. CASE Patch \/ Crash
    BY <1>5, PatchFacts, CrashFacts, IdleFacts DEF Current, Active
  <1>6. CASE UNCHANGED vars
    BY <1>s, <1>6 DEF vars
  <1>. QED BY <1>1, <1>2, <1>3, <1>4, <1>5, <1>6 DEF Next

\* The patch that writes an instance down writes its image's name next to it.
LEMMA UsedStep ==
    ASSUME BaseInv, Current, PinnedIsUsed, [Next]_vars
    PROVE  PinnedIsUsed'
  <1>. USE DEF BaseInv
  <1>0. faults.stale \in Nat /\ faults'.stale \in Nat /\ faults'.stale >= faults.stale
    BY FaultsStep
  <1>s. UNCHANGED machine => PinnedIsUsed'
    BY <1>0 DEF PinnedIsUsed
  <1>1. CASE \/ \E k \in Images : \/ Apply(k) \/ Relabel(k) \/ Remove(k)
                                  \/ SyncImage(k) \/ ImageReconcile(k)
             \/ Resync
    BY <1>s, <1>1, QuietFacts
  <1>2. ASSUME NEW m \in Machines, SyncMachine(m) \/ HasInstance(m) \/ SelectImage(m)
        PROVE  PinnedIsUsed'
    BY <1>s, <1>2, MachineFacts, SelectFacts
  <1>3. CASE CreateFails \/ Crash
    BY <1>s, <1>3, FailFacts, CrashFacts
  <1>4. ASSUME Patch, faults'.stale = 0, NEW n \in Machines
        PROVE  machine'[n].source \in {None, machine'[n].imageName}
    <2>1. machine[n].source \in {None, machine[n].imageName}
      BY <1>0, <1>4 DEF PinnedIsUsed
    <2>2. CASE machine'[n] = machine[n]
      BY <2>1, <2>2
    <2>3. CASE /\ n = pass.machine
               /\ machine'[n].imageName =
                     IF pass.image # pass.base
                       THEN pass.image ELSE machine[n].imageName
               /\ machine'[n].source =
                     IF pass.source # None
                       THEN pass.source ELSE machine[n].source
      <3>1. /\ Active /\ pass.source \in {None, pass.image}
            /\ pass.base = machine[n].imageName
        BY <1>0, <1>4, <2>3, PatchFacts DEF TypeOK, Current, Active
      \* A name is written only over none, and then there is no instance yet.
      <3>2. CASE pass.image # pass.base
        <4>1. machine[n].imageName = None
          BY <3>1, <3>2 DEF Kept
        <4>2. machine[n].source = None
          BY <4>1 DEF TypeOK
        <4>. QED BY <2>3, <3>1, <3>2, <4>2
      <3>3. CASE pass.image = pass.base
        BY <2>1, <2>3, <3>1, <3>3
      <3>. QED BY <3>2, <3>3
    <2>. QED BY <1>4, <2>2, <2>3, PatchFacts
  <1>5. CASE Patch
    BY <1>0, <1>4, <1>5 DEF PinnedIsUsed
  <1>6. CASE UNCHANGED vars
    BY <1>s, <1>6 DEF vars
  <1>. QED BY <1>1, <1>2, <1>3, <1>5, <1>6 DEF Next

\* PinInv holds from the start, and every step keeps it.
THEOREM PinInvariance == Spec => []PinInv
  <1>1. Init => PinInv
    <2>. SUFFICES ASSUME Init PROVE PinInv
      OBVIOUS
    <2>1. Current /\ PinnedIsUsed
      BY IdleFacts DEF Init, Current, Active, PinnedIsUsed
    <2>. QED BY <2>1, InitBase DEF PinInv
  <1>2. PinInv /\ [Next]_vars => PinInv'
    BY BaseStep, CurrentStep, UsedStep DEF PinInv
  <1>. QED BY <1>1, <1>2, PTL DEF Spec

\* Though the selector may choose anew in every pass, an instance is made from the
\* image its machine names, unless a pass went by an outdated copy.
THEOREM PinnedIsUsedHolds == Spec => []PinnedIsUsed
  <1>1. PinInv => PinnedIsUsed
    BY DEF PinInv
  <1>. QED BY <1>1, PinInvariance, PTL

-----------------------------------------------------------------------------
(***************************************************************************)
(* The account of imports that serve nobody.                               *)
(***************************************************************************)

\* The account stays balanced when no image is orphaned and the debt grows no
\* faster than the stale passes.
LEMMA NoneOrphaned ==
    ASSUME BaseInv, [Next]_vars, Accounted,
           Orphans' \subseteq Orphans,
           Debt' + faults.stale <= Debt + faults'.stale
    PROVE  Accounted'
  <1>1. IsFiniteSet(Orphans') /\ Cardinality(Orphans') <= Cardinality(Orphans)
    BY FS_Subset DEF Accounted
  <1>2. Cardinality(Orphans) \in Nat /\ Cardinality(Orphans') \in Nat
    BY <1>1, FS_CardinalityType DEF Accounted
  <1>3. faults.stale \in Nat /\ faults'.stale \in Nat /\ Debt \in Nat /\ Debt' \in Nat
    BY FaultsStep DEF Debt
  <1>. QED BY <1>1, <1>2, <1>3 DEF Accounted

\* One image may be orphaned for the debt of one.
LEMMA OneOrphaned ==
    ASSUME BaseInv, [Next]_vars, Accounted, NEW x,
           Orphans' \subseteq Orphans \cup {x},
           Debt' + 1 + faults.stale <= Debt + faults'.stale
    PROVE  Accounted'
  <1>. DEFINE S == Orphans
  <1>1. IsFiniteSet(S) /\ Cardinality(S) \in Nat
    BY FS_CardinalityType DEF Accounted
  <1>2. IsFiniteSet(S \cup {x}) /\ Cardinality(S \cup {x}) <= Cardinality(S) + 1
    <2>. HIDE DEF S
    <2>1. /\ IsFiniteSet(S \cup {x})
          /\ Cardinality(S \cup {x}) \in {Cardinality(S), Cardinality(S) + 1}
      BY <1>1, FS_AddElement
    <2>. QED BY <1>1, <2>1
  <1>3. IsFiniteSet(Orphans') /\ Cardinality(Orphans') <= Cardinality(S \cup {x})
    BY <1>2, FS_Subset
  <1>4. Cardinality(S \cup {x}) \in Nat /\ Cardinality(Orphans') \in Nat
    BY <1>2, <1>3, FS_CardinalityType
  <1>5. faults.stale \in Nat /\ faults'.stale \in Nat /\ Debt \in Nat /\ Debt' \in Nat
    BY FaultsStep DEF Debt
  <1>. QED BY <1>1, <1>2, <1>3, <1>4, <1>5 DEF Accounted

\* The orphans and the debt together never grow by more than the stale passes do.
LEMMA AccountedStep ==
    ASSUME BaseInv, Accounted, [Next]_vars
    PROVE  Accounted'
  <1>. USE DEF BaseInv
  <1>0. /\ faults.stale \in Nat /\ faults'.stale \in Nat
        /\ faults'.stale >= faults.stale
        /\ Debt \in Nat /\ Debt' \in Nat
    BY FaultsStep DEF Debt
  \* While the names stay, an import begins only for a name in the cache.
  <1>s. ASSUME UNCHANGED machine,
               \A m \in Machines : mcache'[m] \in {mcache[m], machine[m]},
               \A k \in Images :
                  image'[k].status # "none" => image[k].status # "none" \/ NamedBySome(k)
        PROVE  Orphans' \subseteq Orphans
    BY <1>s DEF Orphans, NamedNow, NamedBySome
  <1>1. CASE \/ \E k \in Images : \/ Apply(k) \/ Relabel(k) \/ Remove(k)
                                  \/ SyncImage(k) \/ ImageReconcile(k)
             \/ Resync
    <2>1. Orphans' \subseteq Orphans
      BY <1>s, <1>1, QuietFacts
    <2>2. Debt' = Debt
      BY <1>1, QuietFacts DEF Debt, Active
    <2>. QED BY <1>0, <2>1, <2>2, NoneOrphaned
  <1>2. ASSUME NEW m \in Machines, SyncMachine(m) \/ HasInstance(m)
        PROVE  Accounted'
    <2>1. Orphans' \subseteq Orphans
      BY <1>s, <1>2, MachineFacts
    <2>2. Debt' = Debt
      BY <1>2, MachineFacts DEF Debt, Active
    <2>. QED BY <1>0, <2>1, <2>2, NoneOrphaned
  <1>3. ASSUME NEW m \in Machines, SelectImage(m) PROVE Accounted'
    <2>1. Orphans' \subseteq Orphans
      BY <1>s, <1>3, SelectFacts
    <2>2. Debt = 0
      BY <1>3, SelectFacts, IdleFacts DEF Debt, Active
    <2>3. Debt' \in {0, 1} /\ (Debt' = 1 => mcache[m] # machine[m])
      BY <1>3, SelectFacts DEF Debt
    <2>4. Fault("stale") => faults'.stale = faults.stale + 1
      BY FaultStep DEF Counted
    <2>5. faults'.stale >= faults.stale + Debt'
      BY <1>0, <1>3, <2>3, <2>4, SelectFacts
    <2>. QED BY <1>0, <2>1, <2>2, <2>5, NoneOrphaned
  <1>4. CASE CreateFails
    <2>1. Orphans' \subseteq Orphans
      BY <1>s, <1>4, FailFacts
    <2>2. Debt' = Debt
      BY <1>4, FailFacts DEF Debt, Active
    <2>. QED BY <1>0, <2>1, <2>2, NoneOrphaned
  <1>5. CASE Patch
    <2>. DEFINE old == machine[pass.machine].imageName
    <2>1. /\ UNCHANGED <<image, mcache>> /\ Active /\ pass.machine \in Machines
          /\ \A n \in Machines : n # pass.machine => machine'[n] = machine[n]
      BY <1>5, PatchFacts
    <2>2. Debt' = 0
      BY <1>5, PatchFacts, IdleFacts DEF Debt, Active
    \* Only what the machine names by now can be orphaned.
    <2>3. Orphans' \subseteq Orphans \cup {old}
      BY <2>1 DEF Orphans, NamedNow, NamedBySome
    <2>4. CASE old = pass.base
      <3>1. old = None \/ machine'[pass.machine].imageName = old
        BY <1>5, <2>1, <2>4, PatchFacts DEF Kept
      <3>2. Orphans' \subseteq Orphans
        BY <2>1, <2>3, <3>1, ConstantsAssumption DEF Orphans, NamedNow
      <3>. QED BY <1>0, <2>2, <3>2, NoneOrphaned
    <2>5. CASE old # pass.base
      <3>1. Debt = 1
        BY <2>1, <2>5 DEF Debt
      <3>. QED BY <1>0, <2>2, <2>3, <3>1, OneOrphaned
    <2>. QED BY <2>4, <2>5
  <1>6. CASE Crash
    <2>1. Orphans' \subseteq Orphans
      BY <1>s, <1>6, CrashFacts
    <2>2. Debt' = 0
      BY <1>6, CrashFacts, IdleFacts DEF Debt, Active
    <2>. QED BY <1>0, <2>1, <2>2, NoneOrphaned
  <1>7. CASE UNCHANGED vars
    <2>1. Orphans' = Orphans /\ Debt' = Debt
      BY <1>7 DEF vars, Orphans, NamedNow, NamedBySome, Debt, Active
    <2>. QED BY <1>0, <2>1, NoneOrphaned
  <1>. QED BY <1>1, <1>2, <1>3, <1>4, <1>5, <1>6, <1>7 DEF Next

\* OrphanInv holds from the start, and every step keeps it.
THEOREM OrphanInvariance == Spec => []OrphanInv
  <1>1. Init => OrphanInv
    <2>. SUFFICES ASSUME Init PROVE OrphanInv
      OBVIOUS
    <2>1. Orphans = {}
      <3>1. /\ \A k \in Images : image[k].status = "none"
            /\ mcache = machine
        BY DEF Init, NoPicture
      <3>. QED BY <3>1 DEF Orphans, NamedNow, NamedBySome
    <2>2. Accounted
      BY <2>1, FS_EmptySet, IdleFacts DEF Init, Accounted, Debt, Active
    <2>. QED BY <2>2, InitBase DEF OrphanInv
  <1>2. OrphanInv /\ [Next]_vars => OrphanInv'
    BY BaseStep, AccountedStep DEF OrphanInv
  <1>. QED BY <1>1, <1>2, PTL DEF Spec

\* An image is imported for a machine that names it from then on: a selector that
\* matches several does not import them in turn, and each stale pass leaves at
\* most one import that serves nobody, however many machines share the images.
THEOREM ImportBoundHolds == Spec => []ImportBound
  <1>1. OrphanInv => ImportBound
    <2>. SUFFICES ASSUME OrphanInv PROVE ImportBound
      OBVIOUS
    <2>. DEFINE Unserved == {k \in Images : /\ image[k].status # "none"
                                            /\ \A m \in Machines :
                                                  machine[m].imageName # k}
    <2>1. IsFiniteSet(Orphans) /\ Cardinality(Orphans) + Debt <= faults.stale
      BY DEF OrphanInv, Accounted
    <2>2. Unserved \subseteq Orphans
      BY DEF Orphans, NamedNow
    <2>3. IsFiniteSet(Unserved) /\ Cardinality(Unserved) <= Cardinality(Orphans)
      BY <2>1, <2>2, FS_Subset
    <2>4. /\ Cardinality(Orphans) \in Nat /\ Cardinality(Unserved) \in Nat
          /\ Debt \in Nat /\ faults.stale \in Nat
      BY <2>1, <2>3, FS_CardinalityType, ConstantsAssumption
      DEF Debt, OrphanInv, BaseInv, TypeOK
    <2>5. Cardinality(Unserved) <= faults.stale
      BY <2>1, <2>3, <2>4
    <2>. QED BY <2>5 DEF ImportBound
  <1>. QED BY <1>1, OrphanInvariance, PTL
================================================================================
