---------------------------- MODULE WorkloadNodeInv ----------------------------
(***************************************************************************)
(* The inductive invariant of WorkloadNode: how far a pass's copies of the *)
(* Node, the addresses it means to give it and the Calico objects may be   *)
(* from what is there by now.                                              *)
(***************************************************************************)
EXTENDS WorkloadNode

\* The steps at which a pass has read the Node, and those past its addresses.
HasRead == pass.step \notin {"idle", "get"}
PastStatus == pass.step \in {"taints", "ipPool", "felix", "blocks", "cidrs"}

\* Races are among the faults counted.
Counts == faults.races <= faults.all

\* A Node that is there has a uid of its own; the ones the pass keeps were there,
\* and are not newer than the latest.
Born ==
    /\ node.present => node.uid > 0
    /\ HasRead => /\ pass.mine.present /\ pass.mine.uid > 0
                  /\ pass.mine.uid <= node.uid

\* Until its first patch a pass has no resourceVersion, and only a race may have
\* changed the Node it read; after it, the answer is the Node as it is, or the
\* version is outdated.
Versions ==
    /\ pass.step = "status" => pass.version = "none"
    /\ HasRead /\ pass.version = "none" =>
          pass.mine = pass.seen /\ (node = pass.seen \/ faults.races > 0)
    /\ pass.version = "held" => HasRead /\ node = pass.mine
    /\ ~HasRead => pass.version = "none"

\* The addresses a pass means to give the Node are those of the instance, the
\* host name among them, ...
Desires ==
    pass.step # "idle" =>
        /\ Host \in pass.desired
        /\ \A a \in pass.desired \ {Host} : a[2] = instance.gen \/ faults.races > 0

\* ... and once it has given them to the Node, the Node has them in its copy,
\* which still has the taints it read.
Given ==
    /\ PastStatus => pass.mine.addresses = pass.desired \/ faults.races > 0
    /\ pass.step = "taints" => pass.mine.taints = pass.seen.taints \/ faults.races > 0

Initialized == UntaintedHasAddresses

\* What is to become a pod CIDR, or already is one, was confirmed.
Claimed == {b \in Blocks : blocks[b] \in {"confirmed", "leaving", "released"}}
Confirmed == pass.wanted \subseteq Claimed /\ node.cidrs \subseteq Claimed

\* A Calico object belongs to a Node that registered, and is not made from an
\* older instance than that.
Derived ==
    /\ node.gen <= instance.gen
    /\ \A k \in Kinds :
          calico[k] # Absent =>
             /\ calico[k].owner \in 1..MaxNodes /\ calico[k].owner <= node.uid
             /\ node.present /\ calico[k].owner = node.uid =>
                   calico[k].gen >= node.gen \/ faults.races > 0

NodeInv == /\ TypeOK /\ Counts /\ Born /\ Versions /\ Desires /\ Given
           /\ Initialized /\ Confirmed /\ Derived
================================================================================
