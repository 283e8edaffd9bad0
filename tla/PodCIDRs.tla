------------------------------ MODULE PodCIDRs ------------------------------
(***************************************************************************)
(* What node IPAM promises, without the pool, the queue, the cache or the  *)
(* process behind it: a node without a pod CIDR may be given one that no   *)
(* other node holds and that is not kept back; it keeps that CIDR until    *)
(* the node goes away.                                                     *)
(***************************************************************************)
CONSTANTS Nodes, Assignable, NoCIDR

VARIABLE cidrOf

Init ==
    \A m, n \in Nodes : cidrOf[m] = cidrOf[n] => m = n \/ cidrOf[n] = NoCIDR

Assign(n) ==
    /\ cidrOf[n] = NoCIDR
    /\ \E c \in Assignable :
         /\ \A m \in Nodes : cidrOf[m] # c
         /\ cidrOf' = [cidrOf EXCEPT ![n] = c]

Withdraw(n) ==
    /\ cidrOf[n] # NoCIDR
    /\ cidrOf' = [cidrOf EXCEPT ![n] = NoCIDR]

Next == \E n \in Nodes : Assign(n) \/ Withdraw(n)

Spec == Init /\ [][Next]_cidrOf
=============================================================================
