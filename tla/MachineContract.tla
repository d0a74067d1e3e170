---------------------------- MODULE MachineContract ----------------------------
(***************************************************************************)
(* What the KrumkakeMachine controller promises about cloud resources      *)
(* until its own bookkeeping is disturbed: a machine has at most one       *)
(* running instance, nobody but an outsider takes it away before the       *)
(* machine's deletion is requested, and the machine leaves only after its  *)
(* instance.  From the first disturbance on it promises nothing.           *)
(***************************************************************************)
EXTENDS Naturals

CONSTANTS Machines, Ids

VARIABLES
    phase,      \* phase[m]: "live", "deleting" or "gone"
    running,    \* running[m]: the IDs of the instances that run for m
    mishaps,    \* how often something outside the controller went wrong
    disturbed   \* whether something inside did

vars == <<phase, running, mishaps, disturbed>>

Init ==
    /\ phase = [m \in Machines |-> "live"]
    /\ running = [m \in Machines |-> {}]
    /\ mishaps = 0
    /\ disturbed = FALSE

\* Deletion of a machine that was never taken in hand is immediate.
Request(m) ==
    /\ phase[m] = "live"
    /\ \/ phase' = [phase EXCEPT ![m] = "deleting"]
       \/ running[m] = {} /\ phase' = [phase EXCEPT ![m] = "gone"]
    /\ UNCHANGED <<running, mishaps>>

\* An instance may still arrive for a machine whose deletion was requested
\* while the call was under way, never for one that has left.
Acquire(m, i) ==
    /\ phase[m] # "gone"
    /\ running[m] = {}
    /\ \A n \in Machines : i \notin running[n]
    /\ running' = [running EXCEPT ![m] = {i}]
    /\ UNCHANGED <<phase, mishaps>>

Release(m) ==
    /\ phase[m] = "deleting"
    /\ running' = [running EXCEPT ![m] = {}]
    /\ UNCHANGED <<phase, mishaps>>

Leave(m) ==
    /\ phase[m] = "deleting"
    /\ running[m] = {}
    /\ phase' = [phase EXCEPT ![m] = "gone"]
    /\ UNCHANGED <<running, mishaps>>

\* A refused call changes nothing; an outsider may destroy an instance.
Mishap ==
    /\ mishaps' = mishaps + 1
    /\ \/ UNCHANGED running
       \/ \E m \in Machines : running' = [running EXCEPT ![m] = {}]
    /\ UNCHANGED phase

Keeps == \/ \E m \in Machines : \/ Request(m) \/ Release(m) \/ Leave(m)
                                \/ \E i \in Ids : Acquire(m, i)
         \/ Mishap

Next == disturbed' \/ (~disturbed' /\ Keeps)

Spec == Init /\ [][Next]_vars
================================================================================
