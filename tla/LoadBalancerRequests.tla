------------------------- MODULE LoadBalancerRequests -------------------------
(***************************************************************************)
(* From flags and annotations to the NodeBalancer of a service: the        *)
(* process starts with some flags, creates the NodeBalancer                *)
(* (buildLoadBalancerRequest, createNodeBalancer) and updates it           *)
(* (updateNodeBalancer) while the service is edited and the process is     *)
(* started again with other flags.                                         *)
(***************************************************************************)
EXTENDS BackendSubnets

CONSTANTS
    Flags,         \* the flags the process is started with again
    Starts,        \* the first flags, the service, and the addresses of the node.  A
                   \* service is the annotation of its port, the annotations for all
                   \* ports, those about subnets and the status, and the protocol of
                   \* the port
    Edits,         \* edits: the part of the service, the annotation, its value
    Secrets,       \* names of TLS secrets
    MaxEdits       \* bound: edits of the service and restarts

VARIABLES
    options,  \* what newCloud made of the flags, and SubnetIDs; Err if it failed
    service,  \* the service
    status,   \* its status: what makes up the ingress points, in order
    node,     \* the node
    nb,       \* the NodeBalancer, Err before there is one
    edits

vars == <<options, service, status, node, nb, edits>>

\* What is set in the annotation of the port, in those for all ports, and in those about
\* subnets and the status.
PortKeys == {"protocol", "proxy", "algorithm", "udpCheck", "stickiness", "tls"}
SvcKeys == (PortKeys \ {"tls"})
             \cup {"oldProxy", "check", "body", "interval", "passive", "throttle", "type"}
SubnetKeys == {"id", "vpc", "subnet", "range", "ipv6",
               "frontID", "frontVPC", "frontSubnet", "frontRange", "hostname", "ingress6"}
KeysOf == [port |-> PortKeys, svc |-> SvcKeys, subnet |-> SubnetKeys]

\* A throttle is read as a number or not at all, and no subnet has the ID 0.
Readable(part, key, value) ==
    /\ part = "svc" /\ key = "throttle" => value \in {Unset, Bad} \/ value \in Int
    /\ part = "subnet" /\ key = "frontID" => value # 0

ASSUME UnsetAssumption ==
    Unset \notin HTTPStickiness \cup UDPStickiness \cup Secrets \cup {"accept"}
ASSUME StartsAssumption ==
    \A s \in Starts :
      /\ DOMAIN s.service = DOMAIN KeysOf \cup {"k8s"}
      /\ \A part \in DOMAIN KeysOf :
           /\ DOMAIN s.service[part] = KeysOf[part]
           /\ \A key \in KeysOf[part] : Readable(part, key, s.service[part][key])
ASSUME EditsAssumption ==
    \A e \in Edits :
      e.part \in DOMAIN KeysOf /\ e.key \in KeysOf[e.part] /\ Readable(e.part, e.key, e.value)

Plans == {"common", "premium", "premium_40gb"}

\* A number that cannot be read counts as none.
getConnectionThrottle(svc) ==
    LET n == svc["throttle"] IN
    IF n \in {Unset, Bad} \/ n < 0 THEN 0 ELSE IF n > 20 THEN 20 ELSE n

GetLinodeNBType(svc) == IF svc["type"] \in Plans THEN svc["type"] ELSE "common"

\* What is sent for the port of the service and its backend.
Backend(o, s, n) ==
    LET ipv6 == resolveIPv6NodeBalancerBackendState(o, s.subnet)
        subnet == getBackendSubnetID(o, s.subnet)
        config == buildNodeBalancerConfig(s.port, s.svc, s.k8s, Secrets)
        address == IF subnet = Err THEN Err ELSE getNodeBackendIP(n, subnet, ipv6)
    IN  IF Err \in {config, address} THEN Err
        ELSE [config |-> config, subnet |-> subnet, address |-> address,
              mode |-> IF config.settings.protocol = "udp" THEN Unset ELSE "accept"]

\* What is sent about VPCs when the NodeBalancer is created.
VPCs(o, s) ==
    LET ipv6 == resolveIPv6NodeBalancerBackendState(o, s.subnet)
        back == IF ~ipv6 /\ Attached(o) THEN getVPCCreateOptions(o, s.subnet) ELSE NoVPC
        front == getFrontendVPCCreateOptions(o, s.subnet)
    IN  IF Err \in {back, front} THEN Err ELSE [back |-> back, front |-> front]

-----------------------------------------------------------------------------
\* How the NodeBalancer is found again.

\* The hostname alone, or the addresses with it.
makeLoadBalancerStatus(o, s) ==
    LET On(key, flag) == IF s.subnet[key] = Unset THEN flag ELSE s.subnet[key] = "true"
    IN  IF On("hostname", o.hostname) THEN <<"hostname">>
        ELSE IF On("ingress6", o.ingress6) THEN <<"ipv4", "ipv6">> ELSE <<"ipv4">>

\* Among the NodeBalancers with the address only one with a frontend in the subnet of
\* the annotation will do.
getNodeBalancerByIP(s) ==
    s.subnet.frontID = Unset
      \/ (nb.vpcs.front.subnet # 0 /\ s.subnet.frontID = nb.vpcs.front.subnet)

\* Mutant of getNodeBalancerByStatus: only addresses are looked at.
getNodeBalancerByStatusIP(s) == nb # Err /\ status # <<"hostname">> /\ getNodeBalancerByIP(s)

\* The first ingress point decides.
getNodeBalancerByStatus(s) ==
    nb # Err /\ (Head(status) = "hostname" \/ getNodeBalancerByIP(s))

-----------------------------------------------------------------------------
\* EnsureLoadBalancer without a NodeBalancer: buildLoadBalancerRequest, when nothing is
\* in the way.
CreateNodeBalancer ==
    LET backend == Backend(options, service, node)
        o == [options EXCEPT !.ids = IDsAfter(options, service.subnet)]
        vpcs == VPCs(o, service)
    IN  /\ options # Err
        /\ ~getNodeBalancerByStatus(service)
        /\ backend # Err
        /\ vpcs # Err
        /\ nb' = [id |-> IF nb = Err THEN 1 ELSE nb.id + 1, backend |-> backend, vpcs |-> vpcs,
                  throttle |-> getConnectionThrottle(service.svc),
                  type |-> GetLinodeNBType(service.svc),
                  made |-> {[service |-> service, subnet |-> backend.subnet]}]
        /\ status' = makeLoadBalancerStatus(options, service)
        /\ options' = [o EXCEPT !.ids = FrontIDsAfter(o, service.subnet)]
        /\ UNCHANGED <<service, node, edits>>

\* EnsureLoadBalancer with one: updateNodeBalancer.  What was sent about VPCs stays, and
\* so does the type; the throttle is written before a setting turns out to be an error.
UpdateNodeBalancer ==
    LET backend == Backend(options, service, node) IN
    /\ options # Err
    /\ getNodeBalancerByStatus(service)
    /\ nb' = [nb EXCEPT !.throttle = getConnectionThrottle(service.svc),
                        !.backend = IF backend = Err THEN @ ELSE backend]
    /\ status' = IF backend = Err THEN status ELSE makeLoadBalancerStatus(options, service)
    /\ options' = [options EXCEPT !.ids = IDsAfter(options, service.subnet)]
    /\ UNCHANGED <<service, node, edits>>

\* The refresh of the instance cache, or another service, needs a subnet.
LookUpSubnet ==
    /\ options # Err
    /\ options.vpcs # <<>>
    /\ \E d \in Directory : options' = [options EXCEPT !.ids = Remember(@, d.vpc, d.name)]
    /\ UNCHANGED <<service, status, node, nb, edits>>

Edit == edits < MaxEdits /\ edits' = edits + 1

\* One annotation is set, changed or removed.
EditService ==
    /\ Edit
    /\ \E e \in Edits : service' = [service EXCEPT ![e.part][e.key] = e.value]
    /\ service' # service
    /\ UNCHANGED <<options, status, node, nb>>

\* A new process does not know what the NodeBalancer was made for.
Restart ==
    /\ Edit
    /\ \E f \in Flags : options' = newCloud(f)
    /\ nb' = IF nb = Err THEN Err ELSE [nb EXCEPT !.made = {}]
    /\ UNCHANGED <<service, status, node>>

Init ==
    /\ \E s \in Starts : options = newCloud(s.flags) /\ service = s.service /\ node = s.node
    /\ status = <<>>
    /\ nb = Err
    /\ edits = 0

Next == CreateNodeBalancer \/ UpdateNodeBalancer \/ LookUpSubnet \/ EditService \/ Restart

Spec == Init /\ [][Next]_vars

-----------------------------------------------------------------------------
\* Properties.

\* There is a NodeBalancer, and what it has is what the service and the flags ask for.
Current == nb # Err /\ options # Err /\ nb.backend = Backend(options, service, node)
Created == Current /\ \E m \in nb.made : m.service = service

\* A NodeBalancer never has what the API refuses for its protocol or its plan,
\* whichever annotations set it and whichever were edited since.
Acceptable ==
    nb # Err =>
      LET config == nb.backend.config
          c == config.settings
      IN  /\ nb.type \in Plans /\ nb.throttle \in 0 .. 20
          /\ c.protocol = "tcp" <=> c.stickiness = Unset
          /\ c.protocol = "udp" <=> c.udpCheck # 0
          /\ c.protocol = "udp" => c.proxy = "none" /\ config.passive = "false"
          /\ c.protocol = "https" <=> config.cert # Unset
          /\ c.protocol = "udp" <=> nb.backend.mode = Unset

\* The annotation of the port alone decides on what it sets: whatever the service's
\* annotation says, the port gets the same configuration.
PortDecides ==
    \A key \in DOMAIN service.port \ {"tls"} : service.port[key] # Unset =>
      \A value \in {Unset, Bad} :
        buildNodeBalancerConfig(service.port, [service.svc EXCEPT ![key] = value],
                                service.k8s, Secrets)
          = buildNodeBalancerConfig(service.port, service.svc, service.k8s, Secrets)

\* The backends are in the subnet that the NodeBalancer was attached to, but for two
\* cases: an ID in the annotations differs from the flag's, with nothing else set, or
\* the flag's ID is used without a VPC.
Disagree(o, a) ==
    /\ ~resolveIPv6NodeBalancerBackendState(o, a)
    /\ o.id # 0
    /\ \/ o.vpcs = <<>>
       \/ /\ a.id \notin {Unset, o.id}
          /\ a.vpc = Unset /\ a.subnet = Unset /\ a.range \in {Unset, Empty}
SubnetsAgree ==
    Created => (nb.vpcs.back.subnet # nb.backend.subnet <=> Disagree(options, service.subnet))

\* Once VPC backends are disabled nothing in a service, and no other flag, brings a
\* backend or a new NodeBalancer into a VPC.
StaysOut ==
    Current /\ options.disabled =>
      nb.backend.subnet = 0 /\ (Created => nb.vpcs.back = NoVPC)

\* As long as the process runs, the backends of a service go into the subnet they were
\* put in when its NodeBalancer was made, whatever else is looked up in which VPC: until
\* the service is edited, and again when it is edited back.
Steady ==
    nb # Err /\ options # Err =>
      \A m \in nb.made : m.service = service =>
        getBackendSubnetID(options, service.subnet) = m.subnet

\* A service gets a second NodeBalancer, and the first one is left behind, only if its
\* annotation names a frontend subnet that the first one is not in.
OneBalancer ==
    [][nb # Err /\ nb'.id # nb.id =>
         service.subnet.frontID \notin {Unset, nb.vpcs.front.subnet}]_vars
=============================================================================
