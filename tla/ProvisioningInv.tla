---------------------------- MODULE ProvisioningInv ----------------------------
(***************************************************************************)
(* The inductive invariants of Provisioning: what relates the names that   *)
(* the machines have pinned, the copies of them that the two controllers   *)
(* go by, and the images that have been imported.                          *)
(***************************************************************************)
EXTENDS Provisioning

Active == pass.machine # None

\* Between two passes the worker remembers nothing.
Forgets == ~Active => pass = Idle

\* A name that was pinned once is never taken back, only exchanged: a copy that
\* has one proves that the machine has one.  A pass that began with a name
\* takes the image of that name.
Kept ==
    /\ \A m \in Machines : mcache[m].imageName # None => machine[m].imageName # None
    /\ Active /\ pass.base # None => /\ pass.image = pass.base
                                     /\ machine[pass.machine].imageName # None

\* Stale passes are among the faults counted.
Counted == faults.stale <= faults.all

BaseInv == TypeOK /\ Counted /\ Forgets /\ Kept

\* As long as no pass was stale, the pass under way began with the name that the
\* machine still has.
Current == faults.stale = 0 /\ Active => pass.base = machine[pass.machine].imageName

PinInv == BaseInv /\ Current /\ PinnedIsUsed

-----------------------------------------------------------------------------
NamedNow(k) == \E m \in Machines : machine[m].imageName = k

\* The images that are imported, or that the cache still lets be imported, though
\* no machine names them.
Orphans == {k \in Images : /\ image[k].status # "none" \/ NamedBySome(k)
                           /\ ~NamedNow(k)}

\* A pass that began with an outdated name may still exchange the name the
\* machine has by now; the stale read that made it so is paid already.
Debt == IF Active /\ machine[pass.machine].imageName # pass.base THEN 1 ELSE 0

Accounted == IsFiniteSet(Orphans) /\ Cardinality(Orphans) + Debt <= faults.stale

OrphanInv == BaseInv /\ Accounted
================================================================================
