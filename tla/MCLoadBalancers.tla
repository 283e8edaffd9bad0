--------------------------- MODULE MCLoadBalancers ---------------------------
\* LoadBalancers for TLC: the annotations of the runs.
EXTENDS LoadBalancers

Every(S) == [n \in Names |-> S]

\* No reserved addresses.
Unreserved == Every({ann \in Annotations : ~ann.release})

\* Nothing is preserved.
Unpreserved == Every({ann \in Annotations : ~ann.release /\ ~ann.preserve})

\* NodeBalancers of the CCM's making with reserved addresses.
Releasing == Every({[id |-> None, preserve |-> FALSE, release |-> TRUE]})
=============================================================================
