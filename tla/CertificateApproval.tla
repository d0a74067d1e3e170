--------------------------- MODULE CertificateApproval ---------------------------
(***************************************************************************)
(* reconcileCertificateSigningRequest: a pass lists the requests for       *)
(* kubelet serving certificates and approves, one after the other, those   *)
(* of its own Node that name nothing but the Node.  The first approval     *)
(* that fails ends the loop and, later, the pass.                          *)
(***************************************************************************)
EXTENDS Naturals, Sequences, FiniteSets

CONSTANTS
    Csrs,         \* the requests' names, in the order they are listed
    Name,         \* the Node's name
    Requests,     \* what may be requested
    MaxGen,       \* bound: how many instances the machine has, one after another
    IPs,          \* IPs[g]: the addresses of the g-th instance
    FaultKinds,   \* the faults that may occur
    MaxFaults     \* bound: how many faults occur in one behaviour

AllFaults == {"race", "api", "lost"}

\* readable: a PEM block with a certificate request; others: its e-mail
\* addresses and URIs.
ASSUME ConstantsAssumption ==
    /\ Csrs \subseteq Nat /\ IsFiniteSet(Csrs)
    /\ MaxGen \in Nat \ {0}
    /\ \A r \in Requests :
          DOMAIN r = {"username", "commonName", "organizations", "usages",
                      "readable", "names", "ips", "others"}
    /\ FaultKinds \subseteq AllFaults
    /\ MaxFaults \in Nat

VARIABLES
    gen,        \* the machine's instance, and with it the Node's addresses
    csr,        \* csr[c]: the request and its state
    queued,     \* whether the machine is in the work queue
    pass,       \* the pass over the machine
    prepared,   \* whether a pass went on to the pod CIDRs
    faults      \* how many faults have occurred, and how many were races

vars == <<gen, csr, queued, pass, prepared, faults>>

-----------------------------------------------------------------------------
None == [state |-> "none"]
States == {"pending", "approved", "denied", "expired"}
Signing == {None} \cup [state : States, request : Requests]

Idle == [active |-> FALSE, list |-> [c \in Csrs |-> None], todo |-> {}, failed |-> FALSE]

TypeOK ==
    /\ gen \in 1..MaxGen
    /\ csr \in [Csrs -> Signing]
    /\ queued \in BOOLEAN /\ prepared \in BOOLEAN
    /\ pass \in [active : BOOLEAN, list : [Csrs -> Signing],
                 todo : SUBSET Csrs, failed : BOOLEAN]
    /\ \A c \in pass.todo : pass.list[c].state \in {"pending", "denied"}
    /\ faults \in [all : 0..MaxFaults, races : 0..MaxFaults]

Fault(kind) ==
    /\ kind \in FaultKinds
    /\ faults.all < MaxFaults
    /\ faults' = [all   |-> faults.all + 1,
                  races |-> faults.races + IF kind = "race" THEN 1 ELSE 0]

Init ==
    /\ gen = 1
    /\ csr = [c \in Csrs |-> None]
    /\ queued = TRUE
    /\ pass = Idle
    /\ prepared = FALSE
    /\ faults = [all |-> 0, races |-> 0]

-----------------------------------------------------------------------------
(***************************************************************************)
(* The kubelet, the administrator and the workload cluster.                *)
(***************************************************************************)

Submit(c, r) ==
    /\ csr[c] = None
    /\ csr' = [csr EXCEPT ![c] = [state |-> "pending", request |-> r]]
    /\ UNCHANGED <<gen, queued, pass, prepared, faults>>

\* A request is denied, or it expires; its name is not used again.
Closes(c, state) ==
    /\ csr[c] # None
    /\ state = "denied" => csr[c].state = "pending"
    /\ csr[c].state # "expired"
    /\ csr' = [csr EXCEPT ![c].state = state]
    /\ UNCHANGED <<gen, queued, pass, prepared, faults>>

\* The instance is replaced; the Node gets the addresses of the new one.
Replace ==
    /\ gen < MaxGen
    /\ gen' = gen + 1
    /\ IF pass.active THEN Fault("race") ELSE UNCHANGED faults
    /\ UNCHANGED <<csr, queued, pass, prepared>>

\* The next periodic resync, or an event of the machine.
Wake ==
    /\ ~queued
    /\ queued' = TRUE
    /\ UNCHANGED <<gen, csr, pass, prepared, faults>>

-----------------------------------------------------------------------------
(***************************************************************************)
(* The pass.                                                               *)
(***************************************************************************)

Username == "system:node:" \o Name
Organizations == {"system:nodes"}
Usages == {"digital signature", "key encipherment", "server auth"}

\* The names and addresses a request may ask for are the Node's.
WithinSwapped(r, ips) == {Name} \subseteq r.names /\ ips \subseteq r.ips
WithinAnyName(r, ips) == r.ips \subseteq ips
Within(r, ips) == r.names \subseteq {Name} /\ r.ips \subseteq ips

\* What the request says of itself.
WellFormed(r) ==
    /\ r.usages \subseteq Usages
    /\ r.readable
    /\ r.organizations = Organizations
    /\ r.commonName = r.username
    /\ r.others = {}
    /\ r.names \cup r.ips # {}

\* Requests that are approved already are passed over, denied ones are not.
OpenAll(s) == s # None
Open(s) == s # None /\ s.state \in {"pending", "denied"}

Approvable(s) == /\ Open(s)
                 /\ s.request.username = Username
                 /\ WellFormed(s.request)
                 /\ Within(s.request, IPs[gen])

\* All is judged by the list and by the Node's addresses as of this pass.
List ==
    /\ ~pass.active /\ queued
    /\ queued' = FALSE
    /\ \/ /\ pass' = [active |-> TRUE, list |-> csr, failed |-> FALSE,
                      todo |-> {c \in Csrs : Approvable(csr[c])}]
          /\ UNCHANGED faults
       \/ Fault("api") /\ pass' = [Idle EXCEPT !.active = TRUE, !.failed = TRUE]
    /\ UNCHANGED <<gen, csr, prepared>>

Next1 == CHOOSE c \in pass.todo : \A d \in pass.todo : c <= d

Fails == pass' = [pass EXCEPT !.todo = {}, !.failed = TRUE]

\* UpdateApproval carries the resourceVersion of the list; the API server does
\* not approve what was denied.
UpdateApproval ==
    /\ pass.active /\ pass.todo # {}
    /\ LET c == Next1 IN
       \/ /\ csr[c] = pass.list[c] /\ csr[c].state = "pending"
          /\ csr' = [csr EXCEPT ![c].state = "approved"]
          /\ \/ pass' = [pass EXCEPT !.todo = @ \ {c}] /\ UNCHANGED faults
             \/ Fault("lost") /\ Fails
       \/ /\ csr[c] # pass.list[c] \/ csr[c].state # "pending"
          /\ Fails /\ UNCHANGED <<csr, faults>>
       \/ Fault("api") /\ Fails /\ UNCHANGED csr
    /\ UNCHANGED <<gen, queued, prepared>>

\* An error is retried; only a pass without one goes on to the pod CIDRs.
RetriesNot == FALSE
Retries == TRUE

Finish ==
    /\ pass.active /\ pass.todo = {}
    /\ prepared' = (prepared \/ ~pass.failed)
    /\ queued' = (queued \/ (pass.failed /\ Retries))
    /\ pass' = Idle
    /\ UNCHANGED <<gen, csr, faults>>

Next == \/ \E c \in Csrs : \/ \E r \in Requests : Submit(c, r)
                           \/ \E s \in {"denied", "expired"} : Closes(c, s)
        \/ Replace \/ Wake
        \/ List \/ UpdateApproval \/ Finish

Spec == Init /\ [][Next]_vars

\* The worker begins and finishes its passes; only the retry of errors is sure
\* to bring another one.
FairSpec == Spec /\ WF_vars(List) /\ WF_vars(UpdateApproval \/ Finish)

-----------------------------------------------------------------------------
(***************************************************************************)
(* Properties.                                                             *)
(***************************************************************************)

\* A certificate that speaks for the Node and for nothing else.
Proves(r, g) ==
    /\ r.readable
    /\ r.username = Username /\ r.commonName = Username
    /\ r.organizations = {"system:nodes"}
    /\ r.usages \cap {"client auth"} = {}
    /\ r.names \cup r.ips \cup r.others \in (SUBSET ({Name} \cup IPs[g])) \ {{}}

\* What the controller approves speaks for the Node alone, by the addresses the
\* Node has at that moment, unless they changed under the pass that judged it.
ApprovesOwn ==
    [][\A c \in Csrs :
          csr[c] # None /\ csr[c].state = "pending" /\ csr'[c].state = "approved"
              => Proves(csr[c].request, gen) \/ faults.races > 0]_vars

Asks(c, state) ==
    csr[c] # None /\ csr[c].state = state /\ Proves(csr[c].request, gen)
Blocking == \E c \in Csrs : Asks(c, "denied")

\* A request for the Node does not stay pending, however late it comes, as long
\* as passes keep coming and unless a denied request is there, whose approval is
\* tried and refused each time before it is the next one's turn.
RequestsAnswered ==
    []<>queued => \A c \in Csrs : []<>~(Asks(c, "pending") /\ ~Blocking)

\* Approvals that fail do not keep the Node from its pod CIDRs, unless such a
\* denied request stays: retries see to it.
PodCIDRsReached == <>[](~Blocking) => <>prepared
================================================================================
