-------------------------------- MODULE Routes --------------------------------
(***************************************************************************)
(* route_controller.go: the pod CIDRs of nodes as IP ranges of the VPC     *)
(* interfaces of their Linodes.  Kubernetes' route controller compares     *)
(* ListRoutes with the nodes and runs the CreateRoute and DeleteRoute      *)
(* calls it finds necessary concurrently.  These read the route cache and  *)
(* write the whole list of ranges.  There is one VPC, and every node's     *)
(* Linode is in it.                                                        *)
(***************************************************************************)
EXTENDS Integers, FiniteSets

CONSTANTS
    Nodes,
    IPv4, IPv6,   \* pod CIDRs; the cluster CIDR has the IPv4 ones
    Missing,      \* the cache has no entry for an instance
    MaxFailures,  \* bound: calls that fail
    MaxEdits      \* bound: changes of nodes and interfaces

ASSUME CIDRAssumption == IPv4 \cap IPv6 = {}
ASSUME BoundsAssumption == MaxFailures \in Nat /\ MaxEdits \in Nat

VARIABLES
    podCIDRs,    \* of the nodes
    ranges,      \* of the VPC interfaces
    routeCache,  \* the ranges read last
    fresh,       \* the cache's TTL is not over
    ipv6ConfiguredRoutes,
    ops,         \* calls under way, each with what it is about to write
    failures, edits

vars == <<podCIDRs, ranges, routeCache, fresh, ipv6ConfiguredRoutes, ops, failures, edits>>

PodCIDRs == IPv4 \cup IPv6
Routes == Nodes \X PodCIDRs
Op(kind, n, c) == [kind |-> kind, node |-> n, cidr |-> c, pc |-> "read", send |-> {}]

\* What a call writes is a list of ranges, or the slice of IPv6 routes.
TypeOK ==
    /\ podCIDRs \in [Nodes -> SUBSET PodCIDRs]
    /\ ranges \in [Nodes -> SUBSET IPv4]
    /\ \A n \in Nodes : routeCache[n] = Missing \/ routeCache[n] \subseteq IPv4
    /\ fresh \in BOOLEAN
    /\ ipv6ConfiguredRoutes \subseteq Nodes \X IPv6
    /\ \A o \in ops :
         /\ o.kind \in {"create", "delete"} /\ <<o.node, o.cidr>> \in Routes
         /\ o.pc \in {"read", "write"}
         /\ o.send \subseteq IF o.cidr \in IPv6 THEN Nodes \X IPv6 ELSE IPv4
    /\ failures \in 0 .. MaxFailures
    /\ edits \in 0 .. MaxEdits

-----------------------------------------------------------------------------
\* The cache.

\* Mutant of refreshRoutes: ranges are added to the ones in the cache.
refreshRoutesMerges ==
    /\ fresh' = TRUE
    /\ routeCache' = IF fresh THEN routeCache
                     ELSE [n \in Nodes |-> ranges[n] \cup
                             IF routeCache[n] = Missing THEN {} ELSE routeCache[n]]
    /\ UNCHANGED failures

\* When the TTL is over the VPC's ranges are listed.  After an error the cache
\* is empty, and as good as new.
refreshRoutes ==
    /\ fresh' = TRUE
    /\ \/ fresh /\ UNCHANGED <<routeCache, failures>>
       \/ ~fresh /\ routeCache' = ranges /\ UNCHANGED failures
       \/ /\ ~fresh
          /\ failures < MaxFailures
          /\ failures' = failures + 1
          /\ routeCache' = [n \in Nodes |-> Missing]

Expire ==
    /\ fresh
    /\ fresh' = FALSE
    /\ UNCHANGED <<podCIDRs, ranges, routeCache, ipv6ConfiguredRoutes, ops, failures, edits>>

-----------------------------------------------------------------------------
\* The calls.

\* Mutant of ListRoutes: the IPv6 routes are left out.
ListRoutesIPv4(cache) ==
    {r \in Nodes \X IPv4 : cache[r[1]] # Missing /\ r[2] \in cache[r[1]]}

ListRoutes(cache) ==
    {r \in Nodes \X IPv4 : cache[r[1]] # Missing /\ r[2] \in cache[r[1]]}
      \cup ipv6ConfiguredRoutes

\* A round of the route controller begins when all calls of the last returned.
\* It deletes routes inside the cluster CIDR only, which is an IPv4 one.
Reconcile ==
    /\ ops = {}
    /\ refreshRoutes
    /\ LET listed == ListRoutes(routeCache')
           wanted == {r \in Routes : r[2] \in podCIDRs[r[1]]}
       IN  ops' = {Op("create", r[1], r[2]) : r \in wanted \ listed}
                    \cup {Op("delete", r[1], r[2]) : r \in (listed \ wanted) \cap (Nodes \X IPv4)}
    /\ UNCHANGED <<podCIDRs, ranges, ipv6ConfiguredRoutes, edits>>

Return(o) == ops' = ops \ {o}
Send(o, what) == ops' = (ops \ {o}) \cup {[o EXCEPT !.pc = "write", !.send = what]}

\* CreateRoute up to the write.  The slice of IPv6 routes has no lock.
CreateRoute(o) ==
    /\ o.kind = "create" /\ o.pc = "read"
    /\ IF o.cidr \in IPv6
       THEN Send(o, ipv6ConfiguredRoutes) /\ UNCHANGED <<routeCache, fresh, failures>>
       ELSE /\ refreshRoutes
            /\ LET known == routeCache'[o.node] IN
                 IF known = Missing \/ o.cidr \in known THEN Return(o)
                 ELSE Send(o, known \cup {o.cidr})
    /\ UNCHANGED <<podCIDRs, ranges, ipv6ConfiguredRoutes, edits>>

DeleteRoute(o) ==
    /\ o.kind = "delete" /\ o.pc = "read"
    /\ refreshRoutes
    /\ LET known == routeCache'[o.node] IN
         IF known = Missing THEN Return(o) ELSE Send(o, known \ {o.cidr})
    /\ UNCHANGED <<podCIDRs, ranges, ipv6ConfiguredRoutes, edits>>

\* append, of a slice that another call may have replaced meanwhile.
AppendRoute(o) ==
    /\ o.kind = "create" /\ o.pc = "write" /\ o.cidr \in IPv6
    /\ ipv6ConfiguredRoutes' = o.send \cup {<<o.node, o.cidr>>}
    /\ Return(o)
    /\ UNCHANGED <<podCIDRs, ranges, routeCache, fresh, failures, edits>>

\* The API takes a range for one interface only.
Taken(o) == \E n \in Nodes \ {o.node} : o.send \cap ranges[n] # {}

\* handleInterfaces: the ranges of the interface become the ones sent.
handleInterfaces(o) ==
    /\ o.pc = "write"
    /\ o.cidr \in IPv4
    /\ \/ /\ ranges' = IF Taken(o) THEN ranges ELSE [ranges EXCEPT ![o.node] = o.send]
          /\ UNCHANGED failures
       \/ /\ failures < MaxFailures
          /\ failures' = failures + 1
          /\ UNCHANGED ranges
    /\ Return(o)
    /\ UNCHANGED <<podCIDRs, routeCache, fresh, ipv6ConfiguredRoutes, edits>>

-----------------------------------------------------------------------------
\* A node gets or loses a pod CIDR: at most one of each family, and no two
\* nodes the same.
Edit ==
    /\ edits < MaxEdits
    /\ edits' = edits + 1
    /\ \E n \in Nodes :
         \/ \E c \in podCIDRs[n] : podCIDRs' = [podCIDRs EXCEPT ![n] = @ \ {c}]
         \/ \E family \in {IPv4, IPv6} :
              /\ podCIDRs[n] \cap family = {}
              /\ \E c \in family \ UNION {podCIDRs[m] : m \in Nodes} :
                   podCIDRs' = [podCIDRs EXCEPT ![n] = @ \cup {c}]
    /\ UNCHANGED <<ranges, routeCache, fresh, ipv6ConfiguredRoutes, ops, failures>>

Init ==
    /\ podCIDRs = [n \in Nodes |-> {}]
    /\ ranges = [n \in Nodes |-> {}]
    /\ routeCache = [n \in Nodes |-> Missing]
    /\ fresh = FALSE
    /\ ipv6ConfiguredRoutes = {}
    /\ ops = {}
    /\ failures = 0
    /\ edits = 0

Call(o) == CreateRoute(o) \/ DeleteRoute(o) \/ AppendRoute(o) \/ handleInterfaces(o)
SomeCall == \E o \in ops : Call(o)
Next == Expire \/ Reconcile \/ Edit \/ SomeCall
Spec == Init /\ [][Next]_vars

\* Time passes, the route controller's rounds go on, and calls return.
Fairness == WF_vars(Expire) /\ WF_vars(Reconcile) /\ WF_vars(SomeCall)
FairSpec == Spec /\ Fairness

-----------------------------------------------------------------------------
\* Properties.

\* Once nodes no longer change, interfaces get exactly the ranges of the nodes'
\* pod CIDRs, however stale the cache was that calls wrote from.
Converges ==
    <>[](\A n \in Nodes : ranges[n] \cap IPv4 = podCIDRs[n] \cap IPv4)

\* Then no route is created any more, an IPv6 one neither.
CreationsCease == <>[](\A o \in ops : o.kind # "create")
=============================================================================
