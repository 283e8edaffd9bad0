---------------------- MODULE LoadBalancerRequestsProofs ----------------------
(***************************************************************************)
(* Proofs about what a service asks for and its NodeBalancer gets: for all *)
(* flags, services, edits and directories of VPCs, and any number of edits *)
(* and restarts.                                                           *)
(***************************************************************************)
EXTENDS LoadBalancerRequests, TLAPS

\* Leaves are first-order, but those that cite SMT.
USE Zenon

-----------------------------------------------------------------------------
\* The options and SubnetIDs.

\* The options have their fields, and no subnet where VPC backends are disabled.
IsOptions(o) ==
    o = [vpcs |-> o.vpcs, subnets |-> o.subnets, id |-> o.id, disabled |-> o.disabled,
         ipv6 |-> o.ipv6, range |-> o.range, hostname |-> o.hostname,
         ingress6 |-> o.ingress6, ids |-> o.ids]
Sound(o) == IsOptions(o) /\ (o.disabled => o.id = 0)

\* Nothing cached is lost or replaced.
Grown(ids, old) == DOMAIN old \subseteq DOMAIN ids /\ \A n \in DOMAIN old : ids[n] = old[n]

\* The options p are those of o, with what may be looked up since.
Later(p, o) ==
    /\ p.vpcs = o.vpcs /\ p.subnets = o.subnets /\ p.id = o.id /\ p.disabled = o.disabled
    /\ p.ipv6 = o.ipv6 /\ p.range = o.range
    /\ Grown(p.ids, o.ids)

\* newCloud makes sound options or none.
LEMMA NewCloudSound ==
    ASSUME NEW f, newCloud(f) # Err
    PROVE  Sound(newCloud(f))
<1> DEFINE names == ValidateAndSetVPCSubnetFlags(f)
<1> DEFINE id == IF names = Err THEN Err
                 ELSE IF f.disabled THEN 0 ELSE NamedSubnet(f, names)
<1> DEFINE ids == IF f.name = Unset \/ f.disabled THEN resolveSubnetNames(f)
                  ELSE Remember(resolveSubnetNames(f), Head(names.vpcs), f.name)
<1>1. newCloud(f) = Options(f, names, id) /\ id # Err
  BY DEF newCloud
<1>2. Options(f, names, id) =
        [vpcs |-> names.vpcs, subnets |-> names.subnets, id |-> id, disabled |-> f.disabled,
         ipv6 |-> f.ipv6, range |-> f.range, hostname |-> f.hostname,
         ingress6 |-> f.ingress6, ids |-> ids]
  BY DEF Options
<1>3. f.disabled => id = 0
  BY <1>1
<1> HIDE DEF names, id, ids
<1>4. IsOptions(newCloud(f))
  BY <1>1, <1>2 DEF IsOptions
<1>5. newCloud(f).disabled = f.disabled /\ newCloud(f).id = id
  BY <1>1, <1>2, SMT
<1> QED  BY <1>3, <1>4, <1>5 DEF Sound

\* A lookup changes SubnetIDs alone.
LEMMA WithIDs ==
    ASSUME NEW o, NEW ids, Sound(o), Grown(ids, o.ids)
    PROVE  LET p == [o EXCEPT !.ids = ids]
           IN  Sound(p) /\ Later(p, o) /\ p.ids = ids
<1> DEFINE p == [o EXCEPT !.ids = ids]
<1>1. p = [vpcs |-> o.vpcs, subnets |-> o.subnets, id |-> o.id, disabled |-> o.disabled,
           ipv6 |-> o.ipv6, range |-> o.range, hostname |-> o.hostname,
           ingress6 |-> o.ingress6, ids |-> ids]
  <2> DEFINE v == o.vpcs  s == o.subnets  i == o.id  d == o.disabled  x == o.ipv6
             r == o.range  h == o.hostname  g == o.ingress6  c == o.ids
  <2>1. o = [vpcs |-> v, subnets |-> s, id |-> i, disabled |-> d, ipv6 |-> x, range |-> r,
             hostname |-> h, ingress6 |-> g, ids |-> c]
    BY DEF Sound, IsOptions
  <2> HIDE DEF v, s, i, d, x, r, h, g, c
  <2>2. p = [vpcs |-> v, subnets |-> s, id |-> i, disabled |-> d, ipv6 |-> x, range |-> r,
             hostname |-> h, ingress6 |-> g, ids |-> ids]
    BY <2>1, SMT
  <2> QED  BY <2>2 DEF v, s, i, d, x, r, h, g, c
<1> HIDE DEF p
<1>2. /\ p.vpcs = o.vpcs /\ p.subnets = o.subnets /\ p.id = o.id /\ p.disabled = o.disabled
      /\ p.ipv6 = o.ipv6 /\ p.range = o.range /\ p.hostname = o.hostname
      /\ p.ingress6 = o.ingress6 /\ p.ids = ids
  BY <1>1
<1>3. IsOptions(p)
  BY <1>1, <1>2 DEF IsOptions
<1>4. Sound(p) /\ Later(p, o) /\ p.ids = ids
  BY <1>2, <1>3 DEF Sound, Later
<1> QED  BY <1>4 DEF p

\* A lookup keeps what is cached, and caches what it finds.
LEMMA RememberGrows ==
    ASSUME NEW ids, NEW vpc, NEW name
    PROVE  /\ Grown(Remember(ids, vpc, name), ids)
           /\ GetSubnetID(ids, vpc, name) # Err =>
                /\ name \in DOMAIN Remember(ids, vpc, name)
                /\ GetSubnetID(Remember(ids, vpc, name), vpc, name)
                     = GetSubnetID(ids, vpc, name)
<1> DEFINE id == GetSubnetID(ids, vpc, name)
<1>1. name \in DOMAIN ids /\ id # Err => id = ids[name]
  BY DEF GetSubnetID
<1>2. id # Err => ~(\A d \in Directory : d.vpc # vpc)
  BY DEF GetSubnetID
<1>3. CASE id = Err
  BY <1>3 DEF Remember, Grown
<1>4. CASE id # Err
  <2>1. Remember(ids, vpc, name) = With(ids, name, id)
    BY <1>4 DEF Remember
  <2> HIDE DEF id
  <2>2. /\ DOMAIN With(ids, name, id) = DOMAIN ids \cup {name}
        /\ With(ids, name, id)[name] = id
        /\ \A n \in DOMAIN ids : With(ids, name, id)[n] = IF n = name THEN id ELSE ids[n]
    BY DEF With
  <2>3. Grown(With(ids, name, id), ids)
    BY <1>1, <1>4, <2>2 DEF Grown
  <2>4. GetSubnetID(With(ids, name, id), vpc, name) = id
    BY <1>2, <1>4, <2>2 DEF GetSubnetID
  <2> QED  BY <2>1, <2>2, <2>3, <2>4 DEF id
<1> QED  BY <1>3, <1>4

\* So do those for the backends and the frontend.
LEMMA AfterGrows ==
    ASSUME NEW o, NEW a
    PROVE  Grown(IDsAfter(o, a), o.ids) /\ Grown(FrontIDsAfter(o, a), o.ids)
<1>1. Grown(o.ids, o.ids)
  BY DEF Grown
<1> QED  BY <1>1, RememberGrows DEF IDsAfter, FrontIDsAfter

-----------------------------------------------------------------------------
\* The choice of the subnet.

\* The label that the subnet of the backends is looked up by is cached.
Known(o, a) ==
    ~resolveIPv6NodeBalancerBackendState(o, a) /\ Attached(o) /\ ByName(o, a) =>
      Names(o, a).subnet \in DOMAIN o.ids

\* What is sent about the backends' VPC.
BackVPC(o, a) ==
    IF ~resolveIPv6NodeBalancerBackendState(o, a) /\ Attached(o)
    THEN getVPCCreateOptions(o, a) ELSE NoVPC

\* With the label cached later lookups change neither the subnet of the backends nor
\* that of the NodeBalancer.
LEMMA LaterSame ==
    ASSUME NEW o, NEW p, NEW a, Later(p, o), Known(o, a)
    PROVE  /\ Known(p, a)
           /\ getBackendSubnetID(p, a) = getBackendSubnetID(o, a)
           /\ BackVPC(p, a) = BackVPC(o, a)
<1>1. /\ resolveIPv6NodeBalancerBackendState(p, a) = resolveIPv6NodeBalancerBackendState(o, a)
      /\ Attached(p) = Attached(o)
      /\ ByName(p, a) = ByName(o, a)
      /\ Names(p, a) = Names(o, a)
      /\ validateNodeBalancerBackendIPv4Range(p, a) = validateNodeBalancerBackendIPv4Range(o, a)
  BY DEF Later, resolveIPv6NodeBalancerBackendState, Attached, ByName, Names,
               validateNodeBalancerBackendIPv4Range
<1>2. Known(p, a)
  BY <1>1 DEF Known, Later, Grown
<1>3. CASE resolveIPv6NodeBalancerBackendState(o, a) \/ ~Attached(o)
  BY <1>1, <1>2, <1>3 DEF getBackendSubnetID, BackVPC, Later
<1>4. CASE ~resolveIPv6NodeBalancerBackendState(o, a) /\ Attached(o)
  <2>1. ByName(o, a) => \A vpc : GetSubnetID(p.ids, vpc, Names(o, a).subnet)
                                   = GetSubnetID(o.ids, vpc, Names(o, a).subnet)
    BY <1>4 DEF Known, Later, Grown, GetSubnetID
  <2>2. getSubnetIDForSVC(p, a) = getSubnetIDForSVC(o, a)
    BY <1>1, <2>1 DEF getSubnetIDForSVC, Later
  <2>3. getBackendSubnetID(p, a) = getBackendSubnetID(o, a)
    BY <1>1, <2>2 DEF getBackendSubnetID, Later
  <2>4. getVPCCreateOptions(p, a) = getVPCCreateOptions(o, a)
    BY <1>1, <2>2 DEF getVPCCreateOptions, Later
  <2> QED  BY <1>1, <1>2, <2>3, <2>4 DEF BackVPC
<1> QED  BY <1>3, <1>4

\* Once the subnet of the backends is found its label is cached, and it is found again.
LEMMA FoundKnown ==
    ASSUME NEW o, NEW a, NEW p, Later(p, o), p.ids = IDsAfter(o, a),
           getBackendSubnetID(o, a) # Err
    PROVE  Known(p, a) /\ getBackendSubnetID(p, a) = getBackendSubnetID(o, a)
<1>1. /\ resolveIPv6NodeBalancerBackendState(p, a) = resolveIPv6NodeBalancerBackendState(o, a)
      /\ Attached(p) = Attached(o)
      /\ ByName(p, a) = ByName(o, a)
      /\ Names(p, a) = Names(o, a)
      /\ validateNodeBalancerBackendIPv4Range(p, a) = validateNodeBalancerBackendIPv4Range(o, a)
  BY DEF Later, resolveIPv6NodeBalancerBackendState, Attached, ByName, Names,
               validateNodeBalancerBackendIPv4Range
<1>2. CASE resolveIPv6NodeBalancerBackendState(o, a) \/ ~Attached(o)
  BY <1>1, <1>2 DEF getBackendSubnetID, Known, Later
<1>3. CASE ~resolveIPv6NodeBalancerBackendState(o, a) /\ Attached(o) /\ ~ByName(o, a)
  <2>1. getSubnetIDForSVC(p, a) = getSubnetIDForSVC(o, a)
    BY <1>1, <1>3 DEF getSubnetIDForSVC, Later
  <2> QED  BY <1>1, <1>3, <2>1 DEF getBackendSubnetID, Known, Later
<1>4. CASE ~resolveIPv6NodeBalancerBackendState(o, a) /\ Attached(o) /\ ByName(o, a)
  <2> DEFINE vpc == Names(o, a).vpc  name == Names(o, a).subnet
  <2>1. p.ids = Remember(o.ids, vpc, name)
    BY <1>4 DEF IDsAfter
  <2>2. getSubnetIDForSVC(o, a) # Err
    BY <1>4 DEF getBackendSubnetID
  <2>3. GetSubnetID(o.ids, vpc, name) # Err
    BY <1>4, <2>2 DEF getSubnetIDForSVC
  <2>4. name \in DOMAIN p.ids /\ GetSubnetID(p.ids, vpc, name) = GetSubnetID(o.ids, vpc, name)
    <3> HIDE DEF vpc, name
    <3> QED  BY <2>1, <2>3, RememberGrows, SMT
  <2>5. getSubnetIDForSVC(p, a) = getSubnetIDForSVC(o, a)
    BY <1>1, <2>4 DEF getSubnetIDForSVC, Later
  <2> QED  BY <1>1, <2>4, <2>5 DEF getBackendSubnetID, Known, Later
<1> QED  BY <1>2, <1>3, <1>4

\* Where the subnet of the backends differs from that of the NodeBalancer.
LEMMA WhereDisagree ==
    ASSUME NEW o, NEW a, Sound(o), getBackendSubnetID(o, a) # Err, BackVPC(o, a) # Err
    PROVE  BackVPC(o, a).subnet # getBackendSubnetID(o, a) <=> Disagree(o, a)
<1> DEFINE S == getSubnetIDForSVC(o, a)
<1>1. CASE resolveIPv6NodeBalancerBackendState(o, a)
  BY <1>1 DEF getBackendSubnetID, BackVPC, NoVPC, Disagree
<1>2. CASE ~resolveIPv6NodeBalancerBackendState(o, a) /\ ~Attached(o)
  <2>1. getBackendSubnetID(o, a) = o.id /\ BackVPC(o, a).subnet = 0
    BY <1>2 DEF getBackendSubnetID, BackVPC, NoVPC
  <2>2. o.vpcs # <<>> => o.disabled /\ o.id = 0
    BY <1>2 DEF Attached, Sound
  <2> QED  BY <1>2, <2>1, <2>2 DEF Disagree
<1>3. CASE ~resolveIPv6NodeBalancerBackendState(o, a) /\ Attached(o)
  <2>1. /\ getBackendSubnetID(o, a) = S /\ validateNodeBalancerBackendIPv4Range(o, a)
        /\ S # Err /\ o.vpcs # <<>> /\ BackVPC(o, a) = getVPCCreateOptions(o, a)
    BY <1>3 DEF getBackendSubnetID, Attached, BackVPC
  <2>2. CASE a.range \notin {Unset, Empty} \/ a.vpc # Unset \/ a.subnet # Unset \/ o.id = 0
    <3>1. getVPCCreateOptions(o, a).subnet = S
      BY <2>1, <2>2 DEF getVPCCreateOptions
    <3> QED  BY <1>3, <2>1, <2>2, <3>1 DEF Disagree
  <2>3. CASE a.range \in {Unset, Empty} /\ a.vpc = Unset /\ a.subnet = Unset /\ o.id # 0
    <3>1. getVPCCreateOptions(o, a).subnet = o.id
      BY <2>1, <2>3 DEF getVPCCreateOptions
    <3>2. S = IF a.id # Unset THEN a.id ELSE o.id
      BY <2>1, <2>3 DEF getSubnetIDForSVC, ByName
    <3> QED  BY <1>3, <2>1, <2>3, <3>1, <3>2 DEF Disagree
  <2> QED  BY <2>2, <2>3
<1> QED  BY <1>1, <1>2, <1>3

-----------------------------------------------------------------------------
\* The settings of the port.

\* What the API accepts of a port and its backend.
Accepted(backend) ==
    LET config == backend.config
        c == config.settings
    IN  /\ c.protocol = "tcp" <=> c.stickiness = Unset
        /\ c.protocol = "udp" <=> c.udpCheck # 0
        /\ c.protocol = "udp" => c.proxy = "none" /\ config.passive = "false"
        /\ c.protocol = "https" <=> config.cert # Unset
        /\ c.protocol = "udp" <=> backend.mode = Unset

\* What getPortConfig checks, of its result.
LEMMA PortConfigAccepted ==
    ASSUME NEW port, NEW svc, NEW k8s, getPortConfig(port, svc, k8s) # Err
    PROVE  LET c == getPortConfig(port, svc, k8s)
           IN  /\ c.protocol \in Protocols
               /\ c.protocol = "tcp" <=> c.stickiness = Unset
               /\ c.protocol = "udp" <=> c.udpCheck # 0
               /\ c.protocol = "udp" => c.proxy = "none"
<1> DEFINE protocol == getPortProtocol(port, svc, k8s)
           proxy == getPortProxyProtocol(port, svc)
           algorithm == getPortAlgorithm(port, svc)
           check == getPortUDPCheckPort(port, svc)
           stickiness == getPortStickiness(port, svc, protocol)
           c == [protocol |-> protocol, proxy |-> proxy, algorithm |-> algorithm,
                 tls |-> port["tls"],
                 udpCheck |-> IF protocol = "udp" THEN check ELSE 0,
                 stickiness |-> IF protocol = "tcp" THEN Unset ELSE stickiness]
<1>1. /\ getPortConfig(port, svc, k8s) = c
      /\ protocol \in Protocols
      /\ protocol = "udp" => proxy = "none" /\ check \in 1 .. MaxPort
                              /\ stickiness \in UDPStickiness
      /\ protocol \in {"http", "https"} => stickiness \in HTTPStickiness
  BY DEF getPortConfig
<1> HIDE DEF protocol, proxy, algorithm, check, stickiness
<1>2. /\ c.protocol = protocol /\ c.proxy = proxy
      /\ c.udpCheck = IF protocol = "udp" THEN check ELSE 0
      /\ c.stickiness = IF protocol = "tcp" THEN Unset ELSE stickiness
  OBVIOUS
<1> HIDE DEF c
<1>3. protocol = "tcp" <=> c.stickiness = Unset
  BY <1>1, <1>2, UnsetAssumption DEF Protocols
<1>4. protocol = "udp" <=> c.udpCheck # 0
  <2>1. MaxPort \in Int
    BY SMT DEF MaxPort
  <2> QED  BY <1>1, <1>2, <2>1, SMT
<1> QED  BY <1>1, <1>2, <1>3, <1>4

\* What is sent for a port and its backend, if anything is.
LEMMA BackendAccepted ==
    ASSUME NEW o, NEW s, NEW n, Backend(o, s, n) # Err
    PROVE  /\ Accepted(Backend(o, s, n))
           /\ Backend(o, s, n).subnet = getBackendSubnetID(o, s.subnet)
           /\ getBackendSubnetID(o, s.subnet) # Err
<1> DEFINE ipv6 == resolveIPv6NodeBalancerBackendState(o, s.subnet)
           subnet == getBackendSubnetID(o, s.subnet)
           config == buildNodeBalancerConfig(s.port, s.svc, s.k8s, Secrets)
           address == IF subnet = Err THEN Err ELSE getNodeBackendIP(n, subnet, ipv6)
           b == [config |-> config, subnet |-> subnet, address |-> address,
                 mode |-> IF config.settings.protocol = "udp" THEN Unset ELSE "accept"]
<1>1. Backend(o, s, n) = b /\ config # Err /\ subnet # Err
  BY DEF Backend
<1> DEFINE c == getPortConfig(s.port, s.svc, s.k8s)
           check == getHealthCheckType(s.svc, s.k8s)
           interval == NumberOf(s.svc, "interval", 5)
           passive == IF c # Err /\ c.protocol = "udp" THEN "false"
                      ELSE IF s.svc["passive"] = Unset THEN "true" ELSE s.svc["passive"]
<1>2. /\ c # Err
      /\ c.protocol = "https" => c.tls \in Secrets
      /\ config = [settings |-> c, check |-> check, interval |-> interval, passive |-> passive,
                    cert |-> IF c.protocol = "https" THEN c.tls ELSE Unset]
  BY <1>1 DEF buildNodeBalancerConfig
<1>3. /\ c.protocol \in Protocols
      /\ c.protocol = "tcp" <=> c.stickiness = Unset
      /\ c.protocol = "udp" <=> c.udpCheck # 0
      /\ c.protocol = "udp" => c.proxy = "none"
  BY <1>2, PortConfigAccepted
<1>4. c.protocol = "udp" => passive = "false"
  BY <1>2
<1> HIDE DEF c, check, interval, passive, config, subnet, address
<1>5. /\ config.settings = c /\ config.passive = passive
      /\ config.cert = IF c.protocol = "https" THEN c.tls ELSE Unset
  BY <1>2
<1>6. /\ b.config = config /\ b.subnet = subnet
      /\ b.mode = IF c.protocol = "udp" THEN Unset ELSE "accept"
  BY <1>5
<1> HIDE DEF b
<1>7. c.protocol = "https" <=> config.cert # Unset
  BY <1>2, <1>5, UnsetAssumption
<1>8. c.protocol = "udp" <=> b.mode = Unset
  BY <1>6, UnsetAssumption
<1>9. Accepted(b)
  BY <1>3, <1>4, <1>5, <1>6, <1>7, <1>8 DEF Accepted
<1> QED  BY <1>1, <1>6, <1>9 DEF subnet

\* The throttle is cut down to what the API accepts.
LEMMA ThrottleBounded ==
    ASSUME NEW svc, svc["throttle"] \in {Unset, Bad} \/ svc["throttle"] \in Int
    PROVE  getConnectionThrottle(svc) \in 0 .. 20
BY SMT DEF getConnectionThrottle

\* What the annotation of the port sets, the service's is not asked for.
LEMMA PortFirst ==
    ASSUME NEW port, NEW svc, NEW k8s, NEW key \in PortKeys \ {"tls"}, NEW value,
           port[key] # Unset, DOMAIN svc = SvcKeys
    PROVE  buildNodeBalancerConfig(port, [svc EXCEPT ![key] = value], k8s, Secrets)
             = buildNodeBalancerConfig(port, svc, k8s, Secrets)
<1> DEFINE svc2 == [svc EXCEPT ![key] = value]
<1>1. \A k \in SvcKeys \ {key} : svc2[k] = svc[k]
  OBVIOUS
<1>2. \A k \in SvcKeys \ PortKeys : svc2[k] = svc[k]
  BY <1>1
<1> HIDE DEF svc2
<1>3. \A k \in PortKeys \ {"tls"} : \A default :
        Setting(port, svc2, k, default) = Setting(port, svc, k, default)
  <2> SUFFICES ASSUME NEW k \in PortKeys \ {"tls"}, NEW default
               PROVE  Setting(port, svc2, k, default) = Setting(port, svc, k, default)
    OBVIOUS
  <2>1. CASE k = key
    BY <2>1 DEF Setting
  <2>2. CASE k # key
    <3>1. svc2[k] = svc[k]
      BY <1>1, <2>2 DEF SvcKeys
    <3> QED  BY <3>1 DEF Setting
  <2> QED  BY <2>1, <2>2
<1>4. /\ svc2["oldProxy"] = svc["oldProxy"] /\ svc2["check"] = svc["check"]
      /\ svc2["body"] = svc["body"] /\ svc2["interval"] = svc["interval"]
      /\ svc2["passive"] = svc["passive"]
  BY <1>2 DEF SvcKeys, PortKeys
<1>5. \A default :
        /\ Setting(port, svc2, "protocol", default) = Setting(port, svc, "protocol", default)
        /\ Setting(port, svc2, "proxy", default) = Setting(port, svc, "proxy", default)
        /\ Setting(port, svc2, "algorithm", default) = Setting(port, svc, "algorithm", default)
        /\ Setting(port, svc2, "udpCheck", default) = Setting(port, svc, "udpCheck", default)
        /\ Setting(port, svc2, "stickiness", default) = Setting(port, svc, "stickiness", default)
  BY <1>3 DEF PortKeys
<1>6. /\ getPortProtocol(port, svc2, k8s) = getPortProtocol(port, svc, k8s)
      /\ getPortProxyProtocol(port, svc2) = getPortProxyProtocol(port, svc)
      /\ getPortAlgorithm(port, svc2) = getPortAlgorithm(port, svc)
      /\ getPortUDPCheckPort(port, svc2) = getPortUDPCheckPort(port, svc)
      /\ \A p : getPortStickiness(port, svc2, p) = getPortStickiness(port, svc, p)
  BY <1>4, <1>5 DEF getPortProtocol, getPortProxyProtocol, getPortAlgorithm,
                           getPortUDPCheckPort, getPortStickiness
<1>7. getPortConfig(port, svc2, k8s) = getPortConfig(port, svc, k8s)
  BY <1>6 DEF getPortConfig
<1>8. /\ getHealthCheckType(svc2, k8s) = getHealthCheckType(svc, k8s)
      /\ NumberOf(svc2, "interval", 5) = NumberOf(svc, "interval", 5)
  BY <1>4 DEF getHealthCheckType, NumberOf
<1>9. buildNodeBalancerConfig(port, svc2, k8s, Secrets)
        = buildNodeBalancerConfig(port, svc, k8s, Secrets)
  BY <1>4, <1>7, <1>8 DEF buildNodeBalancerConfig
<1> QED  BY <1>9 DEF svc2

-----------------------------------------------------------------------------
\* The invariant.

\* The service has its annotations, and they can be read.
Typed(s) ==
    /\ DOMAIN s = DOMAIN KeysOf \cup {"k8s"}
    /\ \A part \in DOMAIN KeysOf :
         /\ DOMAIN s[part] = KeysOf[part]
         /\ \A key \in KeysOf[part] : Readable(part, key, s[part][key])

\* A NodeBalancer has its fields.
IsNB(b) ==
    b = [id |-> b.id, backend |-> b.backend, vpcs |-> b.vpcs, throttle |-> b.throttle,
         type |-> b.type, made |-> b.made]

\* It was made with something, and has what the API accepts.
Right(b) ==
    /\ IsNB(b) /\ b.backend # Err
    /\ b.type \in Plans /\ b.throttle \in 0 .. 20
    /\ Accepted(b.backend)

\* What the process made it for is looked up again with the same result.
Placed(o, vpcs, m) ==
    LET a == m.service.subnet
    IN  /\ m.subnet # Err /\ m.subnet = getBackendSubnetID(o, a)
        /\ vpcs.back # Err /\ vpcs.back = BackVPC(o, a)
        /\ Known(o, a)

Invariant ==
    /\ options # Err => Sound(options)
    /\ Typed(service)
    /\ nb # Err => Right(nb)
    /\ nb # Err /\ options # Err => \A m \in nb.made : Placed(options, nb.vpcs, m)

\* An edit changes one annotation to a value that can be read.
LEMMA EditTyped ==
    ASSUME Typed(service), NEW e \in Edits
    PROVE  Typed([service EXCEPT ![e.part][e.key] = e.value])
<1> DEFINE s == [service EXCEPT ![e.part][e.key] = e.value]
<1>1. e.part \in DOMAIN KeysOf /\ e.key \in KeysOf[e.part] /\ Readable(e.part, e.key, e.value)
  BY EditsAssumption
<1>2. e.part \in DOMAIN service /\ DOMAIN s = DOMAIN service
  BY <1>1 DEF Typed
<1>3. \A part \in DOMAIN KeysOf : part # e.part => s[part] = service[part]
  BY DEF Typed
<1>4. s[e.part] = [service[e.part] EXCEPT ![e.key] = e.value]
  BY <1>2
<1>5. DOMAIN s[e.part] = DOMAIN service[e.part]
  BY <1>4
<1>6. \A key \in KeysOf[e.part] : Readable(e.part, key, s[e.part][key])
  <2> SUFFICES ASSUME NEW key \in KeysOf[e.part]
               PROVE  Readable(e.part, key, s[e.part][key])
    OBVIOUS
  <2>1. key \in DOMAIN service[e.part] /\ Readable(e.part, key, service[e.part][key])
    BY <1>1 DEF Typed
  <2>2. s[e.part][key] = IF key = e.key THEN e.value ELSE service[e.part][key]
    BY <1>4, <2>1
  <2> HIDE DEF s
  <2> QED  BY <1>1, <2>1, <2>2
<1> HIDE DEF s
<1>7. Typed(s)
  BY <1>1, <1>2, <1>3, <1>5, <1>6 DEF Typed
<1> QED  BY <1>7 DEF s

\* What is read of the service.
LEMMA TypedParts ==
    ASSUME Typed(service)
    PROVE  /\ DOMAIN service.port = PortKeys /\ DOMAIN service.svc = SvcKeys
           /\ service.svc["throttle"] \in {Unset, Bad} \/ service.svc["throttle"] \in Int
           /\ service.subnet.frontID # 0
<1>1. /\ DOMAIN KeysOf = {"port", "svc", "subnet"} /\ KeysOf["port"] = PortKeys
      /\ KeysOf["svc"] = SvcKeys /\ KeysOf["subnet"] = SubnetKeys
  BY DEF KeysOf
<1>2. "throttle" \in SvcKeys /\ "frontID" \in SubnetKeys
  BY DEF SvcKeys, SubnetKeys
<1>3. /\ DOMAIN service["port"] = PortKeys /\ DOMAIN service["svc"] = SvcKeys
      /\ Readable("svc", "throttle", service["svc"]["throttle"])
      /\ Readable("subnet", "frontID", service["subnet"]["frontID"])
  BY <1>1, <1>2 DEF Typed
<1> QED  BY <1>3 DEF Readable

NBWritten(b, throttle, backend) == [b EXCEPT !.throttle = throttle, !.backend = backend]

\* An update changes the throttle and the backends, and nothing else.
LEMMA NBUpdated ==
    ASSUME NEW b, IsNB(b), NEW throttle, NEW backend
    PROVE  LET c == NBWritten(b, throttle, backend)
           IN  /\ IsNB(c) /\ c.id = b.id /\ c.vpcs = b.vpcs /\ c.type = b.type
               /\ c.made = b.made /\ c.throttle = throttle /\ c.backend = backend
<1> DEFINE i == b.id  k == b.backend  v == b.vpcs  t == b.throttle  y == b.type  m == b.made
<1>1. b = [id |-> i, backend |-> k, vpcs |-> v, throttle |-> t, type |-> y, made |-> m]
  BY DEF IsNB
<1>2. b.id = i /\ b.vpcs = v /\ b.type = y /\ b.made = m
  OBVIOUS
<1> HIDE DEF i, k, v, t, y, m
<1> DEFINE mid == [b EXCEPT !.throttle = throttle]
           c == NBWritten(b, throttle, backend)
<1>3. mid = [id |-> i, backend |-> k, vpcs |-> v, throttle |-> throttle, type |-> y, made |-> m]
  BY <1>1, SMT
<1>4. c = [mid EXCEPT !.backend = backend]
  BY DEF NBWritten
<1> HIDE DEF mid, c
<1>5. c = [id |-> i, backend |-> backend, vpcs |-> v, throttle |-> throttle, type |-> y,
           made |-> m]
  BY <1>3, <1>4
<1>6. /\ IsNB(c) /\ c.id = b.id /\ c.vpcs = b.vpcs /\ c.type = b.type
      /\ c.made = b.made /\ c.throttle = throttle /\ c.backend = backend
  BY <1>2, <1>5 DEF IsNB
<1> QED  BY <1>6 DEF c

\* A new process forgets what the NodeBalancer was made for, and nothing else.
LEMMA NBForgot ==
    ASSUME NEW b, IsNB(b), NEW made, NEW c, c = [b EXCEPT !.made = made]
    PROVE  /\ IsNB(c) /\ c.id = b.id /\ c.vpcs = b.vpcs /\ c.type = b.type
           /\ c.made = made /\ c.throttle = b.throttle /\ c.backend = b.backend
<1> DEFINE i == b.id  k == b.backend  v == b.vpcs  t == b.throttle  y == b.type  m == b.made
<1>1. b = [id |-> i, backend |-> k, vpcs |-> v, throttle |-> t, type |-> y, made |-> m]
  BY DEF IsNB
<1>2. b.id = i /\ b.backend = k /\ b.vpcs = v /\ b.throttle = t /\ b.type = y
  OBVIOUS
<1> HIDE DEF i, k, v, t, y, m
<1>3. c = [id |-> i, backend |-> k, vpcs |-> v, throttle |-> t, type |-> y, made |-> made]
  BY <1>1
<1> QED  BY <1>2, <1>3 DEF IsNB

\* A lookup in between keeps what a NodeBalancer was made for where it is.
LEMMA PlacedLater ==
    ASSUME NEW o, NEW p, NEW vpcs, NEW m, Later(p, o), Placed(o, vpcs, m)
    PROVE  Placed(p, vpcs, m)
<1> DEFINE a == m.service.subnet
<1>1. Known(o, a)
  BY DEF Placed
<1>2. Known(p, a) /\ getBackendSubnetID(p, a) = getBackendSubnetID(o, a)
        /\ BackVPC(p, a) = BackVPC(o, a)
  BY <1>1, LaterSame
<1> QED  BY <1>2 DEF Placed

\* At the start there are the options and the service.
LEMMA InvariantInit ==
    ASSUME Init
    PROVE  Invariant
<1>1. PICK s \in Starts : options = newCloud(s.flags) /\ service = s.service
  BY DEF Init
<1>2. options # Err => Sound(options)
  BY <1>1, NewCloudSound
<1>3. Typed(service)
  BY <1>1, StartsAssumption DEF Typed
<1> QED  BY <1>2, <1>3 DEF Init, Invariant

\* The creation: the label of the backends' subnet is cached before the VPCs are asked for.
LEMMA CreateKeeps ==
    ASSUME Invariant, CreateNodeBalancer
    PROVE  Invariant'
<1> DEFINE a == service.subnet
           backend == Backend(options, service, node)
           o == [options EXCEPT !.ids = IDsAfter(options, a)]
           p == [o EXCEPT !.ids = FrontIDsAfter(o, a)]
           vpcs == VPCs(o, service)
           made == [service |-> service, subnet |-> backend.subnet]
           new == [id |-> IF nb = Err THEN 1 ELSE nb.id + 1, backend |-> backend, vpcs |-> vpcs,
                   throttle |-> getConnectionThrottle(service.svc),
                   type |-> GetLinodeNBType(service.svc), made |-> {made}]
<1>1. /\ options # Err /\ backend # Err /\ vpcs # Err
      /\ nb' = new /\ options' = p /\ service' = service
  BY DEF CreateNodeBalancer
<1>2. Sound(options) /\ Typed(service)
  BY <1>1 DEF Invariant
<1>3. Sound(o) /\ Later(o, options) /\ o.ids = IDsAfter(options, a)
  BY <1>2, AfterGrows, WithIDs
<1>4. Accepted(backend) /\ backend.subnet = getBackendSubnetID(options, a)
        /\ getBackendSubnetID(options, a) # Err
  BY <1>1, BackendAccepted
<1>5. Known(o, a) /\ getBackendSubnetID(o, a) = backend.subnet
  BY <1>3, <1>4, FoundKnown
<1>6. vpcs.back # Err /\ vpcs.back = BackVPC(o, a)
  BY <1>1 DEF VPCs, BackVPC
<1> HIDE DEF o
<1>7. Sound(p) /\ Later(p, o)
  BY <1>3, AfterGrows, WithIDs
<1>8. getConnectionThrottle(service.svc) \in 0 .. 20 /\ GetLinodeNBType(service.svc) \in Plans
  <2>1. getConnectionThrottle(service.svc) \in 0 .. 20
    BY <1>2, TypedParts, ThrottleBounded
  <2>2. GetLinodeNBType(service.svc) \in Plans
    BY DEF GetLinodeNBType, Plans
  <2> QED  BY <2>1, <2>2
<1> HIDE DEF p, vpcs, backend, a
<1>9. made.service = service /\ made.subnet = backend.subnet
  OBVIOUS
<1> HIDE DEF made
<1>10. IsNB(new) /\ new.backend = backend /\ new.vpcs = vpcs /\ new.made = {made}
         /\ new.throttle = getConnectionThrottle(service.svc)
         /\ new.type = GetLinodeNBType(service.svc)
  BY DEF IsNB
<1> HIDE DEF new
<1>11. Right(new)
  BY <1>1, <1>4, <1>8, <1>10 DEF Right
<1>12. Placed(o, vpcs, made)
  <2>1. made.service.subnet = a
    BY <1>9 DEF a
  <2>2. made.subnet # Err /\ made.subnet = getBackendSubnetID(o, a)
    BY <1>4, <1>5, <1>9
  <2> QED  BY <1>5, <1>6, <2>1, <2>2 DEF Placed
<1>13. Placed(p, vpcs, made)
  BY <1>7, <1>12, PlacedLater
<1>14. \A m \in new.made : Placed(p, new.vpcs, m)
  BY <1>10, <1>13
<1>15. (options # Err => Sound(options))'
  BY <1>1, <1>7
<1>16. Typed(service)'
  BY <1>1, <1>2 DEF Typed
<1>17. (nb # Err => Right(nb))'
  BY <1>1, <1>11
<1>18. (nb # Err /\ options # Err => \A m \in nb.made : Placed(options, nb.vpcs, m))'
  BY <1>1, <1>14
<1> QED  BY <1>15, <1>16, <1>17, <1>18 DEF Invariant

\* The update: VPCs, type and what it was made for stay.
LEMMA UpdateKeeps ==
    ASSUME Invariant, UpdateNodeBalancer
    PROVE  Invariant' /\ nb'.id = nb.id
<1> DEFINE a == service.subnet
           backend == Backend(options, service, node)
           kept == IF backend = Err THEN nb.backend ELSE backend
           p == [options EXCEPT !.ids = IDsAfter(options, a)]
           new == [nb EXCEPT !.throttle = getConnectionThrottle(service.svc), !.backend = kept]
<1>1. options # Err /\ nb # Err /\ options' = p /\ service' = service
  BY DEF UpdateNodeBalancer, getNodeBalancerByStatus
<1>2. nb' = new
  BY DEF UpdateNodeBalancer
<1>3. Sound(options) /\ Typed(service) /\ Right(nb)
        /\ \A m \in nb.made : Placed(options, nb.vpcs, m)
  BY <1>1 DEF Invariant
<1>4. Sound(p) /\ Later(p, options)
  BY <1>3, AfterGrows, WithIDs
<1>5. getConnectionThrottle(service.svc) \in 0 .. 20
  BY <1>3, TypedParts, ThrottleBounded
<1>6. kept # Err /\ Accepted(kept)
  BY <1>3, BackendAccepted DEF Right
<1> HIDE DEF p, kept
<1>7. /\ IsNB(new) /\ new.id = nb.id /\ new.vpcs = nb.vpcs /\ new.type = nb.type
      /\ new.made = nb.made /\ new.throttle = getConnectionThrottle(service.svc)
      /\ new.backend = kept
  <2>1. IsNB(nb)
    BY <1>3 DEF Right
  <2> DEFINE throttle == getConnectionThrottle(service.svc)
  <2>2. new = NBWritten(nb, throttle, kept)
    BY DEF NBWritten
  <2> HIDE DEF throttle, new
  <2>3. /\ IsNB(new) /\ new.id = nb.id /\ new.vpcs = nb.vpcs /\ new.type = nb.type
        /\ new.made = nb.made /\ new.throttle = throttle /\ new.backend = kept
    BY <2>1, <2>2, NBUpdated, SMTT(30)
  <2> QED  BY <2>3 DEF throttle
<1> HIDE DEF new
<1>8. Right(new)
  BY <1>3, <1>5, <1>6, <1>7 DEF Right
<1>9. \A m \in new.made : Placed(p, new.vpcs, m)
  BY <1>3, <1>4, <1>7, PlacedLater
<1>10. (options # Err => Sound(options))'
  BY <1>1, <1>4
<1>11. Typed(service)'
  BY <1>1, <1>3 DEF Typed
<1>12. (nb # Err => Right(nb))'
  BY <1>2, <1>8
<1>13. (nb # Err /\ options # Err => \A m \in nb.made : Placed(options, nb.vpcs, m))'
  BY <1>1, <1>2, <1>9
<1> QED  BY <1>2, <1>7, <1>10, <1>11, <1>12, <1>13 DEF Invariant

\* A lookup for anything else replaces nothing that is cached.
LEMMA LookUpKeeps ==
    ASSUME Invariant, LookUpSubnet
    PROVE  Invariant'
<1>1. PICK d \in Directory :
        options' = [options EXCEPT !.ids = Remember(options.ids, d.vpc, d.name)]
  BY DEF LookUpSubnet
<1> DEFINE ids == Remember(options.ids, d.vpc, d.name)
           p == [options EXCEPT !.ids = ids]
<1>2. options # Err /\ options' = p /\ service' = service /\ nb' = nb
  BY <1>1 DEF LookUpSubnet
<1>3. Sound(options)
  BY <1>2 DEF Invariant
<1>4. Grown(ids, options.ids)
  BY RememberGrows
<1> HIDE DEF ids
<1>5. Sound(p) /\ Later(p, options)
  BY <1>3, <1>4, WithIDs
<1> HIDE DEF p
<1>6. nb # Err => \A m \in nb.made : Placed(p, nb.vpcs, m)
  BY <1>2, <1>5, PlacedLater DEF Invariant
<1>7. (options # Err => Sound(options))'
  BY <1>2, <1>5
<1>8. Typed(service)' /\ (nb # Err => Right(nb))'
  BY <1>2 DEF Invariant
<1>9. (nb # Err /\ options # Err => \A m \in nb.made : Placed(options, nb.vpcs, m))'
  BY <1>2, <1>6
<1> QED  BY <1>7, <1>8, <1>9 DEF Invariant

\* An edit leaves the NodeBalancer and the options alone.
LEMMA EditKeeps ==
    ASSUME Invariant, EditService
    PROVE  Invariant'
<1>1. PICK e \in Edits : service' = [service EXCEPT ![e.part][e.key] = e.value]
  BY DEF EditService
<1>2. options' = options /\ nb' = nb
  BY DEF EditService
<1>3. Typed(service')
  BY <1>1, EditTyped DEF Invariant
<1> QED  BY <1>2, <1>3 DEF Invariant

\* A new process has made nothing yet.
LEMMA RestartKeeps ==
    ASSUME Invariant, Restart
    PROVE  Invariant' /\ (nb # Err => nb'.id = nb.id)
<1>1. PICK f \in Flags : options' = newCloud(f)
  BY DEF Restart
<1>2. service' = service /\ nb' = IF nb = Err THEN Err ELSE [nb EXCEPT !.made = {}]
  BY DEF Restart
<1>3. options' # Err => Sound(options')
  BY <1>1, NewCloudSound
<1>4. CASE nb = Err
  BY <1>2, <1>3, <1>4 DEF Invariant
<1>5. CASE nb # Err
  <2>1. nb' = [nb EXCEPT !.made = {}] /\ Right(nb) /\ IsNB(nb)
    BY <1>2, <1>5 DEF Invariant, Right
  <2>2. /\ IsNB(nb') /\ nb'.id = nb.id /\ nb'.vpcs = nb.vpcs /\ nb'.type = nb.type
        /\ nb'.made = {} /\ nb'.throttle = nb.throttle /\ nb'.backend = nb.backend
    BY <2>1, NBForgot, SMT
  <2>3. Right(nb')
    BY <2>1, <2>2 DEF Right
  <2> QED  BY <1>2, <1>3, <2>2, <2>3 DEF Invariant
<1> QED  BY <1>4, <1>5

\* Every step keeps the invariant.
LEMMA InvariantNext ==
    ASSUME Invariant, [Next]_vars
    PROVE  Invariant'
<1>1. CASE UNCHANGED vars
  BY <1>1 DEF Invariant, vars
<1>2. CASE Next
  BY <1>2, CreateKeeps, UpdateKeeps, LookUpKeeps, EditKeeps, RestartKeeps DEF Next
<1> QED  BY <1>1, <1>2

\* The invariant holds throughout: in particular whatever is looked up, the subnet a
\* NodeBalancer was made with is found again.
THEOREM InvariantHolds == Spec => []Invariant
BY InvariantInit, InvariantNext, PTL DEF Spec

-----------------------------------------------------------------------------
\* What follows.

\* Acceptable: a NodeBalancer never has what the API refuses for its protocol or plan.
THEOREM AcceptableHolds == Spec => []Acceptable
<1>1. Invariant => Acceptable
  BY DEF Invariant, Right, Accepted, Acceptable
<1> QED  BY <1>1, InvariantHolds, PTL

\* PortDecides: what the annotation of a port sets, no annotation of the service changes.
THEOREM PortDecidesHolds == Spec => []PortDecides
<1>1. Invariant => PortDecides
  BY TypedParts, PortFirst DEF Invariant, PortDecides
<1> QED  BY <1>1, InvariantHolds, PTL

\* Steady: lookups, in whichever VPC and order, do not move the backends of a service.
THEOREM SteadyHolds == Spec => []Steady
<1>1. Invariant => Steady
  BY DEF Invariant, Placed, Steady
<1> QED  BY <1>1, InvariantHolds, PTL

\* SubnetsAgree: backends and NodeBalancer are in different subnets in exactly two cases.
THEOREM SubnetsAgreeHolds == Spec => []SubnetsAgree
<1>1. Invariant => SubnetsAgree
  <2> SUFFICES ASSUME Invariant, Created
               PROVE  nb.vpcs.back.subnet # nb.backend.subnet
                        <=> Disagree(options, service.subnet)
    BY DEF SubnetsAgree
  <2>1. nb # Err /\ options # Err /\ nb.backend = Backend(options, service, node)
    BY DEF Created, Current
  <2>2. Sound(options) /\ nb.backend # Err
    BY <2>1 DEF Invariant, Right
  <2>3. PICK m \in nb.made : m.service = service
    BY DEF Created
  <2>4. Placed(options, nb.vpcs, m)
    BY <2>1 DEF Invariant
  <2>5. nb.vpcs.back # Err /\ nb.vpcs.back = BackVPC(options, service.subnet)
    BY <2>3, <2>4 DEF Placed
  <2>6. nb.backend.subnet = getBackendSubnetID(options, service.subnet)
          /\ getBackendSubnetID(options, service.subnet) # Err
    <3>1. Backend(options, service, node) # Err
      BY <2>1, <2>2
    <3>2. Backend(options, service, node).subnet = getBackendSubnetID(options, service.subnet)
            /\ getBackendSubnetID(options, service.subnet) # Err
      BY <3>1, BackendAccepted
    <3> QED  BY <2>1, <3>2
  <2> QED  BY <2>2, <2>5, <2>6, WhereDisagree
<1> QED  BY <1>1, InvariantHolds, PTL

\* StaysOut: with VPC backends disabled nothing brings a backend into a VPC.
THEOREM StaysOutHolds == Spec => []StaysOut
<1>1. Invariant => StaysOut
  <2> SUFFICES ASSUME Invariant, Current, options.disabled
               PROVE  nb.backend.subnet = 0 /\ (Created => nb.vpcs.back = NoVPC)
    BY DEF StaysOut
  <2>1. nb # Err /\ options # Err /\ nb.backend = Backend(options, service, node)
    BY DEF Current
  <2>2. options.id = 0 /\ nb.backend # Err
    BY <2>1 DEF Invariant, Right, Sound
  <2>3. ~Attached(options)
    BY DEF Attached
  <2>4. nb.backend.subnet = getBackendSubnetID(options, service.subnet)
          /\ getBackendSubnetID(options, service.subnet) # Err
    <3>1. Backend(options, service, node) # Err
      BY <2>1, <2>2
    <3>2. Backend(options, service, node).subnet = getBackendSubnetID(options, service.subnet)
            /\ getBackendSubnetID(options, service.subnet) # Err
      BY <3>1, BackendAccepted
    <3> QED  BY <2>1, <3>2
  <2>5. getBackendSubnetID(options, service.subnet) = 0
    BY <2>2, <2>3, <2>4 DEF getBackendSubnetID
  <2>6. ASSUME NEW m \in nb.made
        PROVE  nb.vpcs.back = NoVPC
    BY <2>1, <2>3 DEF Invariant, Placed, BackVPC
  <2> QED  BY <2>4, <2>5, <2>6 DEF Created
<1> QED  BY <1>1, InvariantHolds, PTL

\* OneBalancer: a second NodeBalancer is made only for another frontend subnet.
THEOREM OneBalancerHolds == Spec => OneBalancer
<1> DEFINE Wanted == nb # Err /\ nb'.id # nb.id =>
                       service.subnet.frontID \notin {Unset, nb.vpcs.front.subnet}
<1>1. Invariant /\ [Next]_vars => [Wanted]_vars
  <2> SUFFICES ASSUME Invariant, Next, nb # Err, nb'.id # nb.id
               PROVE  service.subnet.frontID \notin {Unset, nb.vpcs.front.subnet}
    OBVIOUS
  <2>1. CreateNodeBalancer
    <3>1. ~UpdateNodeBalancer /\ ~Restart
      BY UpdateKeeps, RestartKeeps
    <3>2. ~LookUpSubnet /\ ~EditService
      BY DEF LookUpSubnet, EditService
    <3> QED  BY <3>1, <3>2 DEF Next
  <2>2. ~getNodeBalancerByStatus(service)
    BY <2>1 DEF CreateNodeBalancer
  <2>3. ~getNodeBalancerByIP(service)
    BY <2>2 DEF getNodeBalancerByStatus
  <2>4. service.subnet.frontID # 0
    BY TypedParts DEF Invariant
  <2> QED  BY <2>3, <2>4 DEF getNodeBalancerByIP
<1> QED  BY <1>1, InvariantHolds, PTL DEF Spec, OneBalancer
=============================================================================
