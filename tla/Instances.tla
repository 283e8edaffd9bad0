------------------------------ MODULE Instances ------------------------------
(***************************************************************************)
(* services/instances.go and services/vpc.go: the cache of Linodes, the    *)
(* caches of VPC and subnet IDs that select what goes into it, and the two *)
(* calls Kubernetes makes.  The node lifecycle controller asks             *)
(* InstanceExists and deletes the nodes that do not; the cloud node        *)
(* controller gives nodes a provider ID and addresses by InstanceMetadata. *)
(* A provider ID or an address stands for the Linode it belongs to.        *)
(***************************************************************************)
EXTENDS Integers, Sequences, FiniteSets, Functions

CONSTANTS
    Linodes,        \* IDs, not used again after deletion
    About,          \* of each: label, node, ip, reports, vpc, subnet, family
    VPCNames,       \* option vpc-names, a sequence
    SubnetsOf,      \* the labels of the subnets of a VPC
    SubnetOptions,  \* possible values of option subnet-names
    None,
    Failing,        \* API calls that may fail
    QuickBoot,      \* a new Linode's node may meet an older cache
    StaleSubnets,   \* VPCs are replaced although subnet-names is set
    MaxDisruptions  \* bound: calls that fail, restarts, VPCs replaced

Nodes == {About[l].node : l \in Linodes}
VPCs == Range(VPCNames)
Callers == {"lifecycle", "node"}
Families == {"v4", "v6"}

\* A node has the label of its Linode or an address of it, and never the label
\* of a Linode meant for another node.
ASSUME IdentityAssumption ==
    \A l, m \in Linodes :
      /\ About[l].node = About[l].label \/ About[l].ip \in About[l].reports
      /\ About[l].node = About[m].label => About[l].node = About[m].node
      /\ l # m => About[l].ip \notin About[m].reports \cup {About[m].ip}
\* A Linode in one of the VPCs has an address of one family, in a subnet of it.
ASSUME PlacesAssumption ==
    \A l \in Linodes :
      About[l].vpc \in VPCs =>
        About[l].family \in Families /\ About[l].subnet \in SubnetsOf[About[l].vpc]
ASSUME VPCNamesAssumption == VPCNames \in Seq(VPCs)
ASSUME NoneAssumption == None \notin Linodes \cup Callers
ASSUME BoundsAssumption == MaxDisruptions \in Nat

VARIABLES
    running, deleted,  \* Linodes
    generation,        \* of each VPC: replaced ones have new IDs
    subnetNames,       \* the option in force
    node,              \* the Linode a node runs on
    providerID, addresses,
    VpcIDs, SubnetIDs, \* caches, from labels to IDs
    nodeCache,
    refresh,           \* the refresh that holds the lock
    call,              \* of each caller
    disruptions

cloud == <<running, deleted, generation>>
ids == <<VpcIDs, SubnetIDs>>
objects == <<node, providerID, addresses>>
vars == <<cloud, subnetNames, objects, ids, nodeCache, refresh, call, disruptions>>

MaybeLinode == Linodes \cup {None}
Empty == [x \in {} |-> None]
VPCID(v) == <<v, generation[v]>>
SubnetID(id, s) == <<id, s>>

\* The cache holds only Linodes its listing had.
TypeOK ==
    /\ running \subseteq Linodes /\ deleted \subseteq Linodes /\ running \cap deleted = {}
    /\ generation \in [VPCs -> 0 .. MaxDisruptions]
    /\ subnetNames \in SubnetOptions
    /\ {node, providerID, addresses} \subseteq [Nodes -> MaybeLinode]
    /\ DOMAIN VpcIDs \subseteq VPCs /\ \A v \in DOMAIN VpcIDs : VpcIDs[v][1] = v
    /\ DOMAIN SubnetIDs \subseteq subnetNames
    /\ nodeCache.nodes \subseteq nodeCache.asof /\ nodeCache.asof \subseteq Linodes
    /\ refresh.by \in Callers \cup {None}
    /\ refresh.by # None => refresh.left # <<>> /\ call[refresh.by].pc = "refresh"
    /\ \A c \in Callers : call[c].pc \in {"idle", "refresh", "search", "ips"}
    /\ disruptions \in 0 .. MaxDisruptions

-----------------------------------------------------------------------------
\* The Linode API.

\* The Linodes the cluster's nodes are meant to run on.
Selected(l) ==
    /\ l \in running
    /\ VPCNames # <<>> => About[l].vpc \in VPCs
    /\ VPCNames # <<>> /\ subnetNames # {} => About[l].subnet \in subnetNames

\* A VPC is not deleted while a Linode is in it.
ListVPCIPs(v, family, filter) ==
    {l \in running :
       /\ About[l].vpc = v /\ About[l].family = family
       /\ subnetNames # {} => SubnetID(VPCID(v), About[l].subnet) \in filter}

MayFail(what) == what \in Failing /\ disruptions < MaxDisruptions

\* Labels are unique in an account, and host names in a cluster.
CreateLinode(l) ==
    /\ l \notin running \cup deleted
    /\ \A m \in running : About[m].label # About[l].label /\ About[m].node # About[l].node
    /\ running' = running \cup {l}
    /\ UNCHANGED <<deleted, generation, subnetNames, objects, ids, nodeCache,
                   refresh, call, disruptions>>

DeleteLinode(l) ==
    /\ l \in running
    /\ running' = running \ {l}
    /\ deleted' = deleted \cup {l}
    /\ UNCHANGED <<generation, subnetNames, objects, ids, nodeCache, refresh,
                   call, disruptions>>

ReplaceVPC(v) ==
    /\ disruptions < MaxDisruptions
    /\ \A l \in running : About[l].vpc # v
    /\ subnetNames = {} \/ StaleSubnets
    /\ generation' = [generation EXCEPT ![v] = @ + 1]
    /\ disruptions' = disruptions + 1
    /\ UNCHANGED <<running, deleted, subnetNames, objects, ids, nodeCache, refresh, call>>

\* A Linode takes longer to boot than the cache's TTL and than a call lasts.
Booted(l) ==
    /\ nodeCache.fresh => l \in nodeCache.asof
    /\ refresh.by # None => l \in refresh.instances
    /\ \A c \in Callers : call[c].pc = "idle" \/ call[c].node # About[l].node

\* The kubelet registers its node.  It takes a Node object over that is there
\* already; one that belongs to the Linode it replaces is gone by then.
Join(l) ==
    LET n == About[l].node IN
    /\ l \in running
    /\ node[n] # l
    /\ node[n] = None \/ providerID[n] \in {None, l}
    /\ Booted(l) \/ QuickBoot
    /\ node' = [node EXCEPT ![n] = l]
    /\ UNCHANGED <<cloud, subnetNames, providerID, addresses, ids, nodeCache, refresh,
                   call, disruptions>>

-----------------------------------------------------------------------------
\* VPC and subnet IDs.

GetVPCID(v) == IF v \in DOMAIN VpcIDs THEN VpcIDs[v] ELSE VPCID(v)

\* SubnetIDs after the subnets were looked up in the VPC with this ID, with the
\* labels that were found.  A subnet that cannot be listed is skipped.
GetSubnetIDs(v, id, found) ==
    [s \in DOMAIN SubnetIDs \cup found |->
       IF s \in DOMAIN SubnetIDs THEN SubnetIDs[s] ELSE SubnetID(id, s)]

\* The labels ListVPCSubnets has to be asked for, and finds.
Listable(v, id) ==
    IF id = VPCID(v) THEN (subnetNames \ DOMAIN SubnetIDs) \cap SubnetsOf[v] ELSE {}

\* Mutant of handleNotFoundError: the ID of the VPC stays in the cache.
handleNotFoundErrorKeeps(v) == UNCHANGED VpcIDs

handleNotFoundError(v) == VpcIDs' = [w \in DOMAIN VpcIDs \ {v} |-> VpcIDs[w]]

-----------------------------------------------------------------------------
\* refreshInstances, under the lock of the cache.

NoRefresh == [by |-> None, instances |-> {}, left |-> <<>>, vpcNodes |-> {}]
Idle == [pc |-> "idle", node |-> None, providerID |-> None, reports |-> {},
         linode |-> None, second |-> None]
Return(c) == call' = [call EXCEPT ![c] = Idle]

\* Mutant of Listings: IPv6 addresses are not asked for.
ListingsIPv4 == [i \in 1 .. Len(VPCNames) |-> <<VPCNames[i], "v4">>]

\* What is listed for the VPCs, in this order.
Listings ==
    [i \in 1 .. 2 * Len(VPCNames) |->
       <<VPCNames[(i + 1) \div 2], IF i % 2 = 1 THEN "v4" ELSE "v6">>]

\* Mutant of Store: Linodes are only added.
StoreMerges(instances, vpcNodes) ==
    nodeCache' = [nodes |-> nodeCache.nodes
                              \cup {l \in instances : VPCNames = <<>> \/ l \in vpcNodes},
                  fresh |-> TRUE, asof |-> instances]

\* With VPCs, only Linodes that have an address in one.
Store(instances, vpcNodes) ==
    nodeCache' = [nodes |-> {l \in instances : VPCNames = <<>> \/ l \in vpcNodes},
                  fresh |-> TRUE, asof |-> instances]

\* To the next listing, or to the end.
Proceed(c, instances, left, vpcNodes) ==
    IF left = <<>>
    THEN /\ Store(instances, vpcNodes)
         /\ refresh' = NoRefresh
         /\ call' = [call EXCEPT ![c].pc = "search"]
    ELSE /\ refresh' = [by |-> c, instances |-> instances, left |-> left,
                        vpcNodes |-> vpcNodes]
         /\ UNCHANGED <<nodeCache, call>>

\* Mutant of Abandon: a failed refresh counts for the TTL.
AbandonUpdated(c) ==
    /\ nodeCache' = [nodeCache EXCEPT !.fresh = TRUE, !.asof = running]
    /\ refresh' = NoRefresh
    /\ Return(c)

\* An error: the cache stays as it is, and the caller gets the error.
Abandon(c) == refresh' = NoRefresh /\ Return(c) /\ UNCHANGED nodeCache

\* Nothing is done before the TTL is over; else Linodes are listed first.
RefreshInstances(c) ==
    /\ call[c].pc = "refresh"
    /\ refresh.by = None
    /\ \/ /\ nodeCache.fresh
          /\ call' = [call EXCEPT ![c].pc = "search"]
          /\ UNCHANGED <<nodeCache, refresh, disruptions>>
       \/ /\ ~nodeCache.fresh
          /\ Proceed(c, running, Listings, {})
          /\ UNCHANGED disruptions
       \/ /\ ~nodeCache.fresh /\ MayFail("instances")
          /\ disruptions' = disruptions + 1
          /\ Abandon(c)
    /\ UNCHANGED <<cloud, subnetNames, objects, ids>>

\* GetVPCIPAddresses or GetVPCIPv6Addresses of the next VPC.
GetVPCIPAddresses(c) ==
    LET v == Head(refresh.left)[1]
        id == GetVPCID(v)
        found == Listable(v, id)
    IN
    /\ refresh.by = c
    /\ VpcIDs' = [w \in DOMAIN VpcIDs \cup {v} |-> IF w = v THEN id ELSE VpcIDs[w]]
    /\ id = VPCID(v)
    /\ \E missed \in SUBSET found :
         /\ missed # {} => MayFail("subnets")
         /\ disruptions' = disruptions + (IF missed = {} THEN 0 ELSE 1)
         /\ SubnetIDs' = GetSubnetIDs(v, id, found \ missed)
         /\ LET filter == {SubnetIDs'[s] : s \in subnetNames \cap DOMAIN SubnetIDs'} IN
              Proceed(c, refresh.instances, Tail(refresh.left),
                      refresh.vpcNodes \cup ListVPCIPs(v, Head(refresh.left)[2], filter))
    /\ UNCHANGED <<cloud, subnetNames, objects>>

\* The VPC behind the cached ID is gone.
VPCNotFound(c) ==
    LET v == Head(refresh.left)[1] IN
    /\ refresh.by = c
    /\ GetVPCID(v) # VPCID(v)
    /\ handleNotFoundError(v)
    /\ Abandon(c)
    /\ UNCHANGED <<cloud, subnetNames, objects, SubnetIDs, disruptions>>

\* VPCs or their addresses cannot be listed.  In the second case IDs were.
GetVPCIPAddressesFails(c) ==
    LET v == Head(refresh.left)[1]
        id == GetVPCID(v)
    IN
    /\ refresh.by = c
    /\ MayFail("vpc")
    /\ disruptions' = disruptions + 1
    /\ \/ v \notin DOMAIN VpcIDs /\ UNCHANGED ids
       \/ /\ VpcIDs' = [w \in DOMAIN VpcIDs \cup {v} |-> IF w = v THEN id ELSE VpcIDs[w]]
          /\ SubnetIDs' = GetSubnetIDs(v, id, Listable(v, id))
    /\ Abandon(c)
    /\ UNCHANGED <<cloud, subnetNames, objects>>

Expire ==
    /\ nodeCache.fresh
    /\ nodeCache' = [nodeCache EXCEPT !.fresh = FALSE]
    /\ UNCHANGED <<cloud, subnetNames, objects, ids, refresh, call, disruptions>>

-----------------------------------------------------------------------------
\* Lookup, in the cache as it is when it is searched.

linodeByName(n) == {l \in nodeCache.nodes : About[l].label = n}
linodeByIP(reports) == {l \in nodeCache.nodes : About[l].ip \in reports}
linodeByID(id) == nodeCache.nodes \cap {id}

\* The Linodes that may be found; none is InstanceNotFound.
LookupLinode(k) ==
    IF k.providerID # None THEN linodeByID(k.providerID)
    ELSE IF linodeByName(k.node) # {} THEN linodeByName(k.node)
    ELSE linodeByIP(k.reports)

\* A controller begins a call for a node, as it is then.
Begin(c, n) ==
    /\ call[c].pc = "idle"
    /\ node[n] # None
    /\ call' = [call EXCEPT ![c] =
                  [pc |-> "refresh", node |-> n, providerID |-> providerID[n],
                   reports |-> About[node[n]].reports, linode |-> None, second |-> None]]
    /\ UNCHANGED <<cloud, subnetNames, objects, ids, nodeCache, refresh, disruptions>>

\* The lifecycle controller deletes a node that has no instance, by its name.
InstanceExists ==
    LET k == call["lifecycle"] IN
    /\ k.pc = "search"
    /\ IF LookupLinode(k) # {} THEN UNCHANGED objects
       ELSE /\ node' = [node EXCEPT ![k.node] = None]
            /\ providerID' = [providerID EXCEPT ![k.node] = None]
            /\ addresses' = [addresses EXCEPT ![k.node] = None]
    /\ Return("lifecycle")
    /\ UNCHANGED <<cloud, subnetNames, ids, nodeCache, refresh, disruptions>>

\* InstanceMetadata looks the Linode up, and getLinodeAddresses once more, each
\* with a refresh of its own.
LookupForMetadata ==
    LET k == call["node"] IN
    /\ k.pc = "search"
    /\ \/ LookupLinode(k) = {} /\ Return("node")
       \/ \E l \in LookupLinode(k) :
            call' = [call EXCEPT !["node"] =
                       IF k.linode = None THEN [k EXCEPT !.linode = l, !.pc = "refresh"]
                       ELSE [k EXCEPT !.second = l, !.pc = "ips"]]
    /\ UNCHANGED <<cloud, subnetNames, objects, ids, nodeCache, refresh, disruptions>>

\* The provider ID is of the Linode found first, the addresses are the ones the
\* cache has now for the one found last.  The controller only sets a provider
\* ID that is missing.
InstanceMetadata ==
    LET k == call["node"] IN
    /\ k.pc = "ips"
    /\ IF k.second \in nodeCache.nodes /\ node[k.node] # None
       THEN /\ providerID' = [providerID EXCEPT ![k.node] = IF @ = None THEN k.linode ELSE @]
            /\ addresses' = [addresses EXCEPT ![k.node] = k.second]
       ELSE UNCHANGED <<providerID, addresses>>
    /\ Return("node")
    /\ UNCHANGED <<cloud, subnetNames, node, ids, nodeCache, refresh, disruptions>>

\* The process restarts, with empty caches.
Restart ==
    /\ MayFail("process")
    /\ disruptions' = disruptions + 1
    /\ VpcIDs' = Empty /\ SubnetIDs' = Empty
    /\ nodeCache' = [nodes |-> {}, fresh |-> FALSE, asof |-> {}]
    /\ refresh' = NoRefresh
    /\ call' = [c \in Callers |-> Idle]
    /\ UNCHANGED <<cloud, subnetNames, objects>>

-----------------------------------------------------------------------------
Init ==
    /\ running = {} /\ deleted = {}
    /\ generation = [v \in VPCs |-> 0]
    /\ subnetNames \in SubnetOptions
    /\ node = [n \in Nodes |-> None]
    /\ providerID = node /\ addresses = node
    /\ VpcIDs = Empty /\ SubnetIDs = Empty
    /\ nodeCache = [nodes |-> {}, fresh |-> FALSE, asof |-> {}]
    /\ refresh = NoRefresh
    /\ call = [c \in Callers |-> Idle]
    /\ disruptions = 0

Refresh(c) ==
    \/ RefreshInstances(c) \/ GetVPCIPAddresses(c)
    \/ VPCNotFound(c) \/ GetVPCIPAddressesFails(c)
Answer(c) ==
    \/ c = "lifecycle" /\ InstanceExists
    \/ c = "node" /\ (LookupForMetadata \/ InstanceMetadata)
Step(c) == Refresh(c) \/ Answer(c)

Next ==
    \/ \E l \in Linodes : CreateLinode(l) \/ DeleteLinode(l) \/ Join(l)
    \/ \E v \in VPCs : ReplaceVPC(v)
    \/ \E c \in Callers : Step(c) \/ \E n \in Nodes : Begin(c, n)
    \/ Expire \/ Restart
Spec == Init /\ [][Next]_vars

\* Time passes, the lock is given to every goroutine that waits for it, and both
\* controllers come to every node again and again.
Fairness ==
    /\ WF_vars(Expire)
    /\ \A c \in Callers : SF_vars(Step(c)) /\ \A n \in Nodes : SF_vars(Begin(c, n))
FairSpec == Spec /\ Fairness

-----------------------------------------------------------------------------
\* Properties.

\* InstanceExists never has a node deleted whose Linode is running in one of the
\* VPCs and subnets of the options, whatever the caches hold.
OnlyDeadRemoved ==
    [][\A n \in Nodes : node[n] # None /\ node'[n] = None => ~Selected(node[n])]_vars

\* A node gets the provider ID and the addresses of the Linode it runs on, not
\* of a Linode replaced by it, though InstanceMetadata searches the cache twice.
MetadataRight ==
    \A n \in Nodes : node[n] \in running =>
      providerID[n] \in {None, node[n]} /\ addresses[n] \in {None, node[n]}

\* A node of a running Linode gets its provider ID, after failures, restarts and
\* the replacement of its VPC.
Initialized ==
    \A l \in Linodes :
      node[About[l].node] = l /\ Selected(l)
        ~> ~Selected(l) \/ providerID[About[l].node] = l

\* A node whose Linode is deleted goes away, unless another takes its place.
GoneRemoved ==
    \A l \in Linodes :
      node[About[l].node] = l /\ l \in deleted
        ~> \/ node[About[l].node] # l
           \/ \E m \in running : About[m].label = About[l].node
=============================================================================
