----------------------- MODULE CertificateApprovalProofs -----------------------
(***************************************************************************)
(* Theorems about CertificateApproval, for every Node, every set of        *)
(* requests and of faults.                                                 *)
(***************************************************************************)
EXTENDS CertificateApproval, FiniteSetTheorems, WellFoundedInduction, TLAPS

-----------------------------------------------------------------------------
(***************************************************************************)
(* The order of the list.                                                  *)
(***************************************************************************)

\* A set of requests has a first one: of the intervals 0..n that end in it, one
\* contains no other.
LEMMA LeastElement ==
    ASSUME NEW T, T \subseteq Nat, T # {}
    PROVE  \E m \in T : \A n \in T : m <= n
  <1>. DEFINE Ends == {0..n : n \in T}
  <1>1. Ends \subseteq FiniteSubsetsOf(Nat) /\ Ends # {}
    <2>1. ASSUME NEW n \in T PROVE 0..n \in FiniteSubsetsOf(Nat)
      <3>1. 0 \in Int /\ n \in Int /\ 0..n \in SUBSET Nat
        BY <2>1
      <3>2. IsFiniteSet(0..n)
        BY <3>1, FS_Interval
      <3>. QED BY <3>1, <3>2 DEF FiniteSubsetsOf
    <2>. QED BY <2>1
  <1>2. PICK E \in Ends : \A F \in Ends : <<F, E>> \notin StrictSubsetOrdering(Nat)
    <2>1. IsWellFoundedOn(StrictSubsetOrdering(Nat), FiniteSubsetsOf(Nat))
      BY FS_StrictSubsetOrderingWellFounded
    <2>. HIDE DEF Ends
    <2>. QED BY <1>1, <2>1, WFMin
  <1>3. PICK m \in T : E = 0..m
    OBVIOUS
  <1>4. ASSUME NEW n \in T, n < m PROVE FALSE
    <2>1. n \in Nat /\ m \in Nat
      OBVIOUS
    <2>2. 0..n \subseteq 0..m /\ m \in 0..m /\ m \notin 0..n
      BY <1>4, <2>1
    <2>3. 0..n # 0..m
      BY <2>2
    <2>4. 0..n \in SUBSET Nat /\ 0..m \in SUBSET Nat
      BY <2>1
    <2>5. <<0..n, 0..m>> \in StrictSubsetOrdering(Nat)
      BY <2>2, <2>3, <2>4 DEF StrictSubsetOrdering
    <2>. QED BY <1>2, <1>3, <2>5
  <1>. QED
    <2>1. ASSUME NEW n \in T PROVE m <= n
      <3>1. n \in Nat /\ m \in Nat /\ ~(n < m)
        BY <1>4
      <3>. QED BY <3>1
    <2>. QED BY <2>1

\* The request that is approved next is one of those left to approve.
LEMMA Next1InTodo ==
    ASSUME pass.todo \subseteq Csrs, pass.todo # {}
    PROVE  Next1 \in pass.todo
  <1>1. pass.todo \subseteq Nat
    BY ConstantsAssumption
  <1>2. \E m \in pass.todo : \A n \in pass.todo : m <= n
    BY <1>1, LeastElement
  <1>. QED BY <1>2 DEF Next1

-----------------------------------------------------------------------------
(***************************************************************************)
(* Types.                                                                  *)
(***************************************************************************)

\* Races are among the faults counted.
Counts == faults.races <= faults.all

\* A fault keeps the counters within the bound; only a race counts as one.
LEMMA FaultType ==
    ASSUME TypeOK, Counts, NEW kind, Fault(kind)
    PROVE  /\ faults' \in [all : 0..MaxFaults, races : 0..MaxFaults]
           /\ Counts'
           /\ faults'.races >= faults.races
           /\ kind = "race" => faults'.races > 0
  BY ConstantsAssumption DEF TypeOK, Counts, Fault

\* What is kept of a request carries its state, unless there is none.
LEMMA SigningRecord ==
    ASSUME NEW s \in Signing, s # None
    PROVE  s \in [state : States, request : Requests]
  BY DEF Signing

\* A request whose state changes stays a request.
LEMMA MovesType ==
    ASSUME TypeOK, NEW c, NEW state \in States, c \in Csrs => csr[c] # None
    PROVE  [csr EXCEPT ![c].state = state] \in [Csrs -> Signing]
  <1>1. CASE c \in Csrs
    <2>1. csr[c] \in [state : States, request : Requests]
      BY <1>1, SigningRecord DEF TypeOK
    <2>2. [csr[c] EXCEPT !.state = state] \in Signing
      BY <2>1 DEF Signing
    <2>. QED BY <1>1, <2>2 DEF TypeOK
  <1>2. CASE c \notin Csrs
    BY <1>2 DEF TypeOK
  <1>. QED BY <1>1, <1>2

\* The worker between two passes is well typed.
LEMMA IdleType ==
    /\ Idle \in [active : BOOLEAN, list : [Csrs -> Signing],
                 todo : SUBSET Csrs, failed : BOOLEAN]
    /\ Idle.todo = {}
  BY DEF Idle, Signing

\* The initial states are well typed.
LEMMA InitType == Init => TypeOK /\ Counts
  <1>. SUFFICES ASSUME Init PROVE TypeOK /\ Counts
    OBVIOUS
  <1>1. csr \in [Csrs -> Signing]
    BY DEF Init, Signing
  <1>2. /\ gen \in 1..MaxGen /\ Counts
        /\ faults \in [all : 0..MaxFaults, races : 0..MaxFaults]
    BY ConstantsAssumption DEF Init, Counts
  <1>. QED BY <1>1, <1>2, IdleType DEF Init, TypeOK

\* Every step, stuttering included, keeps the types.
LEMMA StepType ==
    ASSUME TypeOK, Counts, [Next]_vars
    PROVE  TypeOK' /\ Counts'
  <1>1. ASSUME NEW c \in Csrs, NEW r \in Requests, Submit(c, r)
        PROVE  TypeOK' /\ Counts'
    <2>1. [state |-> "pending", request |-> r] \in Signing
      BY DEF Signing, States
    <2>2. csr' \in [Csrs -> Signing]
      BY <1>1, <2>1 DEF Submit, TypeOK
    <2>. QED BY <1>1, <2>2 DEF Submit, TypeOK, Counts
  <1>2. ASSUME NEW c \in Csrs, NEW s \in {"denied", "expired"}, Closes(c, s)
        PROVE  TypeOK' /\ Counts'
    <2>1. csr' \in [Csrs -> Signing]
      BY <1>2, MovesType DEF Closes, States
    <2>. QED BY <1>2, <2>1 DEF Closes, TypeOK, Counts
  <1>3. CASE Replace
    <2>1. gen' \in 1..MaxGen
      BY <1>3, ConstantsAssumption DEF Replace, TypeOK
    <2>. QED BY <1>3, <2>1, FaultType DEF Replace, TypeOK, Counts
  <1>4. CASE Wake
    BY <1>4 DEF Wake, TypeOK, Counts
  <1>5. CASE List
    <2>1. UNCHANGED faults \/ Fault("api")
      BY <1>5 DEF List
    <2>2. /\ pass' \in [active : BOOLEAN, list : [Csrs -> Signing],
                         todo : SUBSET Csrs, failed : BOOLEAN]
          /\ \A c \in pass'.todo : pass'.list[c].state \in {"pending", "denied"}
      <3>1. CASE pass' = [active |-> TRUE, list |-> csr, failed |-> FALSE,
                          todo |-> {c \in Csrs : Approvable(csr[c])}]
        <4>1. \A c \in Csrs : Approvable(csr[c]) => csr[c].state \in {"pending", "denied"}
          BY DEF Approvable, Open
        <4>. QED BY <3>1, <4>1 DEF TypeOK
      <3>2. CASE pass' = [Idle EXCEPT !.active = TRUE, !.failed = TRUE]
        BY <3>2, IdleType
      <3>. QED BY <1>5, <3>1, <3>2 DEF List
    <2>3. /\ faults' \in [all : 0..MaxFaults, races : 0..MaxFaults]
          /\ Counts'
      BY <2>1, FaultType DEF TypeOK, Counts
    <2>. QED BY <1>5, <2>2, <2>3 DEF List, TypeOK
  <1>6. CASE UpdateApproval
    <2>1. Next1 \in pass.todo /\ Next1 \in Csrs
      BY <1>6, Next1InTodo DEF UpdateApproval, TypeOK
    <2>2. csr' \in [Csrs -> Signing]
      <3>1. CASE /\ csr[Next1].state = "pending"
                 /\ csr' = [csr EXCEPT ![Next1].state = "approved"]
        <4>1. csr[Next1] # None
          BY <3>1 DEF None
        <4>2. "approved" \in States
          BY DEF States
        <4>. QED BY <3>1, <4>1, <4>2, MovesType
      <3>2. CASE UNCHANGED csr
        BY <3>2 DEF TypeOK
      <3>. QED BY <1>6, <3>1, <3>2 DEF UpdateApproval
    <2>3. /\ pass' \in [active : BOOLEAN, list : [Csrs -> Signing],
                         todo : SUBSET Csrs, failed : BOOLEAN]
          /\ pass'.todo \subseteq pass.todo /\ pass'.list = pass.list
      <3>1. \/ pass' = pass
            \/ pass' = [pass EXCEPT !.todo = pass.todo \ {Next1}]
            \/ pass' = [pass EXCEPT !.todo = {}, !.failed = TRUE]
        BY <1>6 DEF UpdateApproval, Fails
      <3>2. pass \in [active : BOOLEAN, list : [Csrs -> Signing],
                     todo : SUBSET Csrs, failed : BOOLEAN]
        BY DEF TypeOK
      <3>3. CASE pass' = pass
        BY <3>2, <3>3
      <3>4. CASE pass' = [pass EXCEPT !.todo = pass.todo \ {Next1}]
        BY <3>2, <3>4
      <3>5. CASE pass' = [pass EXCEPT !.todo = {}, !.failed = TRUE]
        BY <3>2, <3>5
      <3>. QED BY <3>1, <3>3, <3>4, <3>5
    <2>4. UNCHANGED faults \/ \E kind : Fault(kind)
      BY <1>6 DEF UpdateApproval
    <2>5. /\ faults' \in [all : 0..MaxFaults, races : 0..MaxFaults]
          /\ Counts'
      BY <2>4, FaultType DEF TypeOK, Counts
    <2>6. \A c \in pass'.todo : pass'.list[c].state \in {"pending", "denied"}
      BY <2>3 DEF TypeOK
    <2>7. UNCHANGED <<gen, queued, prepared>>
      BY <1>6 DEF UpdateApproval
    <2>. QED BY <2>2, <2>3, <2>5, <2>6, <2>7 DEF TypeOK
  <1>7. CASE Finish
    BY <1>7, IdleType DEF Finish, TypeOK, Counts
  <1>8. CASE UNCHANGED vars
    BY <1>8 DEF vars, TypeOK, Counts
  <1>. QED BY <1>1, <1>2, <1>3, <1>4, <1>5, <1>6, <1>7, <1>8 DEF Next

\* What the passes keep of a request is what the API server can hold, whatever
\* is submitted, denied or replaced meanwhile, and only what can still be
\* approved is left to approve.
THEOREM TypeCorrect == Spec => []TypeOK
  <1>1. Init => TypeOK /\ Counts
    BY InitType
  <1>2. TypeOK /\ Counts /\ [Next]_vars => (TypeOK /\ Counts)'
    BY StepType
  <1>. QED BY <1>1, <1>2, PTL DEF Spec

-----------------------------------------------------------------------------
(***************************************************************************)
(* What is approved.                                                       *)
(***************************************************************************)

\* All that a pass has left to approve was judged by the addresses the Node
\* still has, unless they changed under a pass.
Judged ==
    \A c \in pass.todo : /\ pass.active
                         /\ Approvable(pass.list[c]) \/ faults.races > 0

Inv == TypeOK /\ Counts /\ Judged

\* The tests of a request leave nothing but the Node in it.
LEMMA ApprovableProves ==
    ASSUME NEW s \in Signing, Approvable(s)
    PROVE  Proves(s.request, gen)
  <1>. DEFINE r == s.request
  <1>1. /\ r.readable
        /\ r.username = Username /\ r.commonName = Username
        /\ r.organizations = {"system:nodes"}
    BY DEF Approvable, WellFormed, Organizations
  <1>2. r.usages \cap {"client auth"} = {}
    BY DEF Approvable, WellFormed, Usages
  <1>3. r.names \cup r.ips \cup r.others \in (SUBSET ({Name} \cup IPs[gen])) \ {{}}
    BY DEF Approvable, WellFormed, Within
  <1>. QED BY <1>1, <1>2, <1>3 DEF Proves

\* Nothing is left to approve before the first pass.
LEMMA InitJudged == Init => Judged
  BY IdleType DEF Init, Judged

\* Every step keeps to the judgement: nothing is added to what is left but by
\* List, the list does not change, and the addresses change under a pass only
\* in a race.
LEMMA StepJudged ==
    ASSUME Inv, [Next]_vars
    PROVE  Judged'
  <1>1. CASE UNCHANGED <<gen, pass>> /\ UNCHANGED faults
    BY <1>1 DEF Inv, Judged, Approvable
  <1>2. CASE Replace
    <2>1. CASE pass.active
      BY <1>2, <2>1, FaultType DEF Replace, Inv, Judged
    <2>2. CASE ~pass.active
      BY <1>2, <2>2 DEF Replace, Inv, Judged
    <2>. QED BY <2>1, <2>2
  <1>3. CASE List
    <2>1. CASE pass' = [active |-> TRUE, list |-> csr, failed |-> FALSE,
                        todo |-> {c \in Csrs : Approvable(csr[c])}]
      <3>1. \A c \in pass'.todo : Approvable(pass'.list[c]) /\ pass'.active
        BY <2>1
      <3>. QED BY <1>3, <3>1 DEF List, Judged, Approvable
    <2>2. CASE pass' = [Idle EXCEPT !.active = TRUE, !.failed = TRUE]
      BY <2>2, IdleType DEF Judged
    <2>. QED BY <1>3, <2>1, <2>2 DEF List
  <1>4. CASE UpdateApproval
    <2>1. /\ pass'.todo \subseteq pass.todo /\ pass'.list = pass.list
          /\ pass'.active = pass.active
      BY <1>4 DEF UpdateApproval, Fails, Inv, TypeOK
    <2>2. UNCHANGED faults \/ \E kind : Fault(kind)
      BY <1>4 DEF UpdateApproval
    <2>3. faults.races > 0 => faults'.races > 0
      BY <2>2, FaultType DEF Inv, TypeOK
    <2>. QED BY <1>4, <2>1, <2>3 DEF UpdateApproval, Inv, Judged, Approvable
  <1>5. CASE Finish
    BY <1>5, IdleType DEF Finish, Judged
  <1>. QED
    BY <1>1, <1>2, <1>3, <1>4, <1>5 DEF Next, vars, Submit, Closes, Wake

\* Whatever a step approves was judged by the pass that approves it.
LEMMA StepApproves ==
    ASSUME Inv, [Next]_vars, NEW c \in Csrs,
           csr[c] # None, csr[c].state = "pending", csr'[c].state = "approved"
    PROVE  Proves(csr[c].request, gen) \/ faults.races > 0
  <1>1. CASE UpdateApproval
    <2>1. /\ csr[Next1] = pass.list[Next1]
          /\ csr' = [csr EXCEPT ![Next1].state = "approved"]
      BY <1>1 DEF UpdateApproval
    <2>2. c = Next1
      BY <2>1 DEF Inv, TypeOK
    <2>3. c \in pass.todo
      BY <1>1, <2>2, Next1InTodo DEF UpdateApproval, Inv, TypeOK
    <2>4. Approvable(csr[c]) \/ faults.races > 0
      BY <2>1, <2>2, <2>3 DEF Inv, Judged
    <2>. QED BY <2>4, ApprovableProves DEF Inv, TypeOK
  <1>2. ASSUME NEW d \in Csrs, NEW s \in {"denied", "expired"}, Closes(d, s)
        PROVE  FALSE
    <2>1. csr[d] \in [state : States, request : Requests]
      BY <1>2, SigningRecord DEF Closes, Inv, TypeOK
    <2>2. csr' = [csr EXCEPT ![d].state = s]
      BY <1>2 DEF Closes
    <2>. QED BY <2>1, <2>2 DEF Inv, TypeOK
  <1>3. ASSUME NEW d \in Csrs, NEW r \in Requests, Submit(d, r)
        PROVE  FALSE
    BY <1>3 DEF Submit, Inv, TypeOK
  <1>4. CASE UNCHANGED csr
    BY <1>4
  <1>. QED
    BY <1>1, <1>2, <1>3, <1>4 DEF Next, vars, Replace, Wake, List, Finish

\* No certificate is approved that speaks for anything but the Node, by the
\* addresses it has at that moment, unless they changed under a pass.
THEOREM ApprovesOwnHolds == Spec => ApprovesOwn
  <1>. DEFINE Approves ==
         \A c \in Csrs :
            csr[c] # None /\ csr[c].state = "pending" /\ csr'[c].state = "approved"
                => Proves(csr[c].request, gen) \/ faults.races > 0
  <1>1. Init => Inv
    BY InitType, InitJudged DEF Inv
  <1>2. Inv /\ [Next]_vars => Inv'
    BY StepType, StepJudged DEF Inv
  <1>3. Inv /\ [Next]_vars => [Approves]_vars
    BY StepApproves
  <1>. QED BY <1>1, <1>2, <1>3, PTL DEF Spec, ApprovesOwn
================================================================================
