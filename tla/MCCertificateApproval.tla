-------------------------- MODULE MCCertificateApproval --------------------------
(***************************************************************************)
(* Instances of CertificateApproval for TLC: the requests of the Node's    *)
(* two instances, and near misses, each of them wrong in one respect.      *)
(***************************************************************************)
EXTENDS CertificateApproval

Addresses == [g \in 1..MaxGen |-> {IF g = 1 THEN "ip1" ELSE "ip2"}]

Own == [username |-> Username, commonName |-> Username,
        organizations |-> {"system:nodes"}, usages |-> {"server auth"},
        readable |-> TRUE, names |-> {"node"}, ips |-> {"ip1"}, others |-> {}]

OwnRequests == {Own, [Own EXCEPT !.ips = {"ip2"}], [Own EXCEPT !.ips = {}]}

NearMisses == {[Own EXCEPT !.commonName = "system:node:other"],
               [Own EXCEPT !.usages = {"server auth", "client auth"}],
               [Own EXCEPT !.names = {"node", "other"}],
               [Own EXCEPT !.others = {"mail"}],
               [Own EXCEPT !.organizations = {"system:nodes", "system:masters"}],
               [Own EXCEPT !.readable = FALSE],
               [Own EXCEPT !.names = {}, !.ips = {}],
               [Own EXCEPT !.username = "system:node:other",
                           !.commonName = "system:node:other"]}

AllRequests == OwnRequests \cup NearMisses
================================================================================
