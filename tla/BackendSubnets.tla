---------------------------- MODULE BackendSubnets ----------------------------
(***************************************************************************)
(* Which VPC subnet a NodeBalancer is attached to and which one its        *)
(* backends are in: the flags as newCloud leaves them                      *)
(* (ValidateAndSetVPCSubnetFlags of services/vpc.go, cloud.go), the        *)
(* annotations of the service, and the addresses of the nodes              *)
(* (loadbalancers.go).                                                     *)
(*                                                                         *)
(* A subnet is an ID, 0 for none.  A range is an address and the length of *)
(* its prefix, of Width bits.  ids is SubnetIDs, the cache of the process: *)
(* a function from the labels of subnets to IDs.                           *)
(***************************************************************************)
EXTENDS Integers, Sequences, PortConfigs

CONSTANTS
    Directory,  \* the subnets: [vpcID, vpc, id, name]
    Width,      \* bits of an address
    Empty       \* an annotation without a value

\* Linode API: labels and IDs of VPCs and subnets.
Only(S) == IF S = {} THEN Err ELSE CHOOSE x \in S : TRUE
GetVPC(id) == Only({d.vpc : d \in {e \in Directory : e.vpcID = id}})
GetSubnet(vpcID, id) == Only({d.name : d \in {e \in Directory : e.vpcID = vpcID /\ e.id = id}})
ListVPCSubnets(vpc, name) == Only({d.id : d \in {e \in Directory : e.vpc = vpc /\ e.name = name}})

\* A label is looked up once, in whichever VPC it is needed first.  The VPC must
\* exist even if the label is cached.
GetSubnetID(ids, vpc, name) ==
    IF \A d \in Directory : d.vpc # vpc THEN Err
    ELSE IF name \in DOMAIN ids THEN ids[name] ELSE ListVPCSubnets(vpc, name)

With(ids, name, id) == [n \in DOMAIN ids \cup {name} |-> IF n = name THEN id ELSE ids[n]]

\* Mutant of Remember: a later lookup replaces what is cached.
RememberLatest(ids, vpc, name) ==
    LET id == ListVPCSubnets(vpc, name) IN IF id = Err THEN ids ELSE With(ids, name, id)

\* SubnetIDs after that lookup.
Remember(ids, vpc, name) ==
    LET id == GetSubnetID(ids, vpc, name) IN IF id = Err THEN ids ELSE With(ids, name, id)

-----------------------------------------------------------------------------
\* The start.

validateVPCSubnetFlags(f, subnetNames) ==
    /\ f.vpcIDs = <<>> \/ f.vpcNames = <<>>
    /\ f.vpcIDs = <<>> <=> f.subnetIDs = <<>>
    /\ subnetNames = <<>> \/ f.vpcNames # <<>> \/ ~f.routes

Resolved(labels) == \A i \in DOMAIN labels : labels[i] # Err

\* The names of the VPCs and subnets.  Subnet IDs are those of the first VPC, and
\* replace the default subnet name.
ValidateAndSetVPCSubnetFlags(f) ==
    LET given == IF f.subnetIDs # <<>> THEN <<>> ELSE f.subnetNames
        vpcs == [i \in DOMAIN f.vpcIDs |-> GetVPC(f.vpcIDs[i])]
        subnets == IF f.vpcIDs = <<>> THEN <<>>
                   ELSE [i \in DOMAIN f.subnetIDs |-> GetSubnet(Head(f.vpcIDs), f.subnetIDs[i])]
    IN  IF ~validateVPCSubnetFlags(f, given) \/ ~Resolved(vpcs) \/ ~Resolved(subnets) THEN Err
        ELSE [vpcs |-> f.vpcNames \o vpcs, subnets |-> given \o subnets]

\* What the flags' subnet IDs put into SubnetIDs.
resolveSubnetNames(f) ==
    LET S == {d \in Directory : f.vpcIDs # <<>> /\ d.vpcID = Head(f.vpcIDs)
                                /\ \E i \in DOMAIN f.subnetIDs : d.id = f.subnetIDs[i]}
    IN  [n \in {d.name : d \in S} |-> Only({d.id : d \in {e \in S : e.name = n}})]

\* GetNodeBalancerBackendIPv4SubnetID; without a VPC the process panics.
NamedSubnet(f, names) ==
    IF f.name = Unset THEN f.id
    ELSE IF names.vpcs = <<>> THEN Err
    ELSE GetSubnetID(resolveSubnetNames(f), Head(names.vpcs), f.name)

\* The options of the process, and SubnetIDs.
Options(f, names, id) ==
    [vpcs |-> names.vpcs, subnets |-> names.subnets, id |-> id, disabled |-> f.disabled,
     ipv6 |-> f.ipv6, range |-> f.range, hostname |-> f.hostname, ingress6 |-> f.ingress6,
     ids |-> IF f.name = Unset \/ f.disabled THEN resolveSubnetNames(f)
             ELSE Remember(resolveSubnetNames(f), Head(names.vpcs), f.name)]

\* Mutant of newCloud: the subnet stays set although VPC backends are disabled.
newCloudKept(f) ==
    LET names == ValidateAndSetVPCSubnetFlags(f)
        id == IF names = Err THEN Err ELSE NamedSubnet(f, names)
    IN  IF id = Err \/ (f.id # 0 /\ f.name # Unset) THEN Err
        ELSE Options(f, names, id)

\* The options, or an error.
newCloud(f) ==
    LET names == ValidateAndSetVPCSubnetFlags(f)
        id == IF names = Err THEN Err
              ELSE IF f.disabled THEN 0 ELSE NamedSubnet(f, names)
    IN  IF id = Err \/ (f.id # 0 /\ f.name # Unset) THEN Err
        ELSE Options(f, names, id)

-----------------------------------------------------------------------------
\* The choice of the subnet, by the options o and the annotations a.

\* net.ParseCIDR clears the bits after the prefix.
Network(c) == c.address - (c.address % 2 ^ (Width - c.length))
Contains(c, address) == address \in Network(c) .. Network(c) + 2 ^ (Width - c.length) - 1

\* Only the first address of the inner one is looked at.
isCIDRWithinCIDR(outer, inner) == Contains(outer, Network(inner))

\* An empty annotation is no range, an unset one is not looked at.
validateNodeBalancerBackendIPv4Range(o, a) ==
    a.range = Unset \/ o.range = Unset
      \/ (a.range \notin {Bad, Empty} /\ isCIDRWithinCIDR(o.range, a.range))

\* The names of the annotations, else the first ones of the flags.
Names(o, a) == [vpc |-> IF a.vpc = Unset THEN Head(o.vpcs) ELSE a.vpc,
                subnet |-> IF a.subnet = Unset THEN Head(o.subnets) ELSE a.subnet]
ByName(o, a) == a.id = Unset /\ ~(a.vpc = Unset /\ a.subnet = Unset /\ o.id # 0)

\* The ID of the annotation, the names of the annotations, the flag, the names of
\* the flags.
getSubnetIDForSVC(o, a) ==
    IF o.vpcs = <<>> \/ a.id = Bad THEN Err
    ELSE IF ByName(o, a) THEN GetSubnetID(o.ids, Names(o, a).vpc, Names(o, a).subnet)
    ELSE IF a.id # Unset THEN a.id ELSE o.id

resolveIPv6NodeBalancerBackendState(o, a) == IF a.ipv6 = Unset THEN o.ipv6 ELSE a.ipv6 = "true"

Attached(o) == o.vpcs # <<>> /\ ~o.disabled

\* The subnet of the backends.
getBackendSubnetID(o, a) ==
    IF resolveIPv6NodeBalancerBackendState(o, a) THEN 0
    ELSE IF ~validateNodeBalancerBackendIPv4Range(o, a) THEN Err
    ELSE IF Attached(o) THEN getSubnetIDForSVC(o, a) ELSE o.id

\* SubnetIDs once the subnet of the backends is known.
IDsAfter(o, a) ==
    IF resolveIPv6NodeBalancerBackendState(o, a) \/ ~Attached(o) \/ ~ByName(o, a) THEN o.ids
    ELSE Remember(o.ids, Names(o, a).vpc, Names(o, a).subnet)

NoVPC == [subnet |-> 0, range |-> Unset]

\* Mutant of getVPCCreateOptions: names in annotations give way to the flag.
getVPCCreateOptionsFlag(o, a) ==
    LET subnet == getSubnetIDForSVC(o, a) IN
    IF subnet = Err \/ ~validateNodeBalancerBackendIPv4Range(o, a) THEN Err
    ELSE IF a.range \notin {Unset, Empty} THEN [subnet |-> subnet, range |-> a.range]
    ELSE IF o.id # 0 THEN [subnet |-> o.id, range |-> Unset]
    ELSE [subnet |-> subnet, range |-> o.range]

\* The subnet and range of the NodeBalancer.
getVPCCreateOptions(o, a) ==
    LET subnet == getSubnetIDForSVC(o, a) IN
    IF subnet = Err \/ ~validateNodeBalancerBackendIPv4Range(o, a) THEN Err
    ELSE IF a.range \notin {Unset, Empty} THEN [subnet |-> subnet, range |-> a.range]
    ELSE IF a.vpc # Unset \/ a.subnet # Unset THEN [subnet |-> subnet, range |-> Unset]
    ELSE IF o.id # 0 THEN [subnet |-> o.id, range |-> Unset]
    ELSE [subnet |-> subnet, range |-> o.range]

\* The subnet of the frontend; ranges alone are an error.
getFrontendVPCCreateOptions(o, a) ==
    IF a.frontID = Unset /\ a.frontVPC = Unset /\ a.frontSubnet = Unset /\ a.frontRange = Unset
    THEN NoVPC
    ELSE LET subnet == IF a.frontID # Unset THEN a.frontID
                       ELSE IF a.frontVPC # Unset /\ a.frontSubnet # Unset
                       THEN GetSubnetID(o.ids, a.frontVPC, a.frontSubnet) ELSE Err
         IN  IF subnet \in {Err, Bad} \/ a.frontRange = Bad THEN Err
             ELSE [subnet |-> subnet, range |-> a.frontRange]

FrontIDsAfter(o, a) ==
    IF a.frontID = Unset /\ a.frontVPC # Unset /\ a.frontSubnet # Unset
    THEN Remember(o.ids, a.frontVPC, a.frontSubnet) ELSE o.ids

-----------------------------------------------------------------------------
\* The address of a node: private (an annotation), internal (its status) or ipv6 (an
\* annotation).

getNodePrivateIP(node, subnet) ==
    IF subnet = 0 /\ "private" \in node THEN "private"
    ELSE IF "internal" \in node THEN "internal" ELSE Err

getNodeBackendIP(node, subnet, ipv6) ==
    IF ~ipv6 THEN getNodePrivateIP(node, subnet)
    ELSE IF "ipv6" \in node THEN "ipv6" ELSE Err
=============================================================================
