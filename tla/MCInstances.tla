------------------------------ MODULE MCInstances ------------------------------
\* Instances for TLC: l2 takes the node of l1 over, found by its address, with an
\* IPv6 address only in its VPC; l3 is for a node of its own.
EXTENDS Instances, TLC

CONSTANTS l1, l2, l3, n1, n2, ip1, ip2, ip3, v1, v2, s1, s2

Replacement ==
    l1 :> [label |-> n1, node |-> n1, ip |-> ip1, reports |-> {}, vpc |-> v1,
           subnet |-> s1, family |-> "v4"] @@
    l2 :> [label |-> l2, node |-> n1, ip |-> ip2, reports |-> {ip2}, vpc |-> v2,
           subnet |-> s2, family |-> "v6"]
SameLabels ==
    l1 :> Replacement[l1] @@
    l3 :> [label |-> n2, node |-> n2, ip |-> ip3, reports |-> {}, vpc |-> v2,
           subnet |-> s1, family |-> "v4"]

TwoVPCs == <<v1, v2>>
DistinctSubnets == v1 :> {s1} @@ v2 :> {s2}
SharedSubnets == v1 :> {s1} @@ v2 :> {s1}
=============================================================================
