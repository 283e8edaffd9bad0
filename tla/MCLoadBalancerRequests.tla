------------------------ MODULE MCLoadBalancerRequests ------------------------
(***************************************************************************)
(* LoadBalancerRequests for TLC.  Services differ from one without         *)
(* annotations in the settings of the port, for one set of flags, or in    *)
(* what they say about subnets and the status, for all of them.            *)
(***************************************************************************)
EXTENDS LoadBalancerRequests

\* Two VPCs; the subnet names occur in both.
MCDirectory ==
    {[vpcID |-> 10, vpc |-> "a", id |-> 1, name |-> "default"],
     [vpcID |-> 10, vpc |-> "a", id |-> 2, name |-> "y"],
     [vpcID |-> 20, vpc |-> "b", id |-> 3, name |-> "default"]}

Range(address, length) == [address |-> address, length |-> length]

\* No flags; VPC names; VPC IDs; and the flags about NodeBalancers.
NoFlags == [vpcIDs |-> <<>>, vpcNames |-> <<>>, subnetIDs |-> <<>>,
            subnetNames |-> <<"default">>, routes |-> FALSE, id |-> 0, name |-> Unset,
            disabled |-> FALSE, ipv6 |-> FALSE, range |-> Unset,
            hostname |-> FALSE, ingress6 |-> FALSE]
InVPC == [NoFlags EXCEPT !.vpcNames = <<"a">>]
MCFlags ==
    {NoFlags, [NoFlags EXCEPT !.routes = TRUE], [NoFlags EXCEPT !.id = 2],
     [NoFlags EXCEPT !.vpcIDs = <<10, 20>>, !.subnetIDs = <<2>>],
     [NoFlags EXCEPT !.vpcIDs = <<10>>, !.subnetIDs = <<3>>],
     [NoFlags EXCEPT !.vpcIDs = <<10>>],
     InVPC, [InVPC EXCEPT !.routes = TRUE, !.vpcNames = <<"b", "a">>],
     [InVPC EXCEPT !.id = 2], [InVPC EXCEPT !.name = "y"], [InVPC EXCEPT !.name = "z"],
     [InVPC EXCEPT !.id = 2, !.name = "y"],
     [InVPC EXCEPT !.id = 2, !.disabled = TRUE], [InVPC EXCEPT !.name = "y", !.disabled = TRUE],
     [InVPC EXCEPT !.range = Range(8, 2)], [InVPC EXCEPT !.id = 2, !.range = Range(8, 2)],
     [InVPC EXCEPT !.ipv6 = TRUE],
     [NoFlags EXCEPT !.hostname = TRUE], [NoFlags EXCEPT !.ingress6 = TRUE]}

\* Those the process is started with again.
MCNewFlags ==
    {[NoFlags EXCEPT !.hostname = TRUE], [InVPC EXCEPT !.vpcNames = <<"b", "a">>],
     [InVPC EXCEPT !.id = 2], [InVPC EXCEPT !.id = 2, !.disabled = TRUE]}

Blank(keys) == [k \in keys |-> Unset]
Plain == [port |-> Blank(PortKeys), svc |-> Blank(SvcKeys), subnet |-> Blank(SubnetKeys),
          k8s |-> "tcp"]

\* Values of the settings of a port.
Values(key) ==
    CASE key \in {"proxy", "oldProxy"} -> {"v1", "none", Bad}
      [] key = "algorithm" -> {"source", "ring_hash"}
      [] key = "udpCheck" -> {0, 1, 65535, 65536, Bad}
      [] key = "stickiness" -> {"table", "session", "none"}
      [] key = "tls" -> {"secret", "gone"}
      [] key = "check" -> {"http", "http_body", Bad}
      [] key = "body" -> {"regex"}
      [] key = "interval" -> {7, Bad}
      [] key = "passive" -> {"false", Bad}
      [] key = "throttle" -> {-1, 5, 21, Bad}
      [] key = "type" -> {"premium", Bad}
      [] OTHER -> {}
Settings == UNION {{[part |-> "port", key |-> k, value |-> v] : v \in Values(k)} : k \in PortKeys}
            \cup UNION {{[part |-> "svc", key |-> k, value |-> v] : v \in Values(k)} : k \in SvcKeys}

\* The protocol in the port's annotation, in the service's, and of the port itself.
ProtocolSettings ==
    {Unset, "udp", "https"} \X {Unset, "udp", "http", Bad} \X {"tcp"}
      \cup {Unset, "https"} \X {Unset, "http"} \X {"udp"}

\* Any protocol, and up to two other settings.
PortServices ==
    {[Plain EXCEPT !.port["protocol"] = p[1], !.svc["protocol"] = p[2], !.k8s = p[3],
                   ![x.part][x.key] = x.value, ![y.part][y.key] = y.value] :
       p \in ProtocolSettings, x \in Settings, y \in Settings}

\* Any annotations about the backends' subnet.
SubnetServices ==
    {[Plain EXCEPT !.subnet["id"] = i, !.subnet["vpc"] = v, !.subnet["subnet"] = s,
                   !.subnet["range"] = c, !.subnet["ipv6"] = x] :
       i \in {Unset, Bad, 1, 3}, v \in {Unset, "b"}, s \in {Unset, "y", "default"},
       c \in {Unset, Empty, Range(9, 3), Range(8, 1), Range(12, 2)},
       x \in {Unset, "true", "false"}}

\* Any annotations about the frontend and the status.
FrontServices ==
    {[Plain EXCEPT !.subnet["frontID"] = i, !.subnet["frontVPC"] = v, !.subnet["frontSubnet"] = s,
                   !.subnet["frontRange"] = c, !.subnet["hostname"] = h, !.subnet["ingress6"] = x] :
       i \in {Unset, Bad, 1}, v \in {Unset, "b"}, s \in {Unset, "default"}, c \in {Unset, Bad},
       h \in {Unset, "true", "false"}, x \in {Unset, "true"}}

MCEdits ==
    {[part |-> "subnet", key |-> "ipv6", value |-> "true"],
     [part |-> "subnet", key |-> "id", value |-> Unset],
     [part |-> "subnet", key |-> "frontID", value |-> 1],
     [part |-> "subnet", key |-> "frontID", value |-> 3],
     [part |-> "subnet", key |-> "frontID", value |-> Unset],
     [part |-> "subnet", key |-> "hostname", value |-> "true"],
     [part |-> "svc", key |-> "protocol", value |-> "udp"]}

Everything == {"internal", "private", "ipv6"}

\* The flags do not matter for the settings of ports, nor the node for the frontend; a
\* node lacks addresses under the flags that tell them apart.
MCStarts ==
    [flags : MCFlags, service : SubnetServices, node : {Everything}]
      \cup [flags : {NoFlags, InVPC, [InVPC EXCEPT !.id = 2], [InVPC EXCEPT !.ipv6 = TRUE]},
            service : SubnetServices, node : {{"internal"}, {"private"}}]
      \cup [flags : MCFlags, service : FrontServices, node : {Everything}]
      \cup [flags : {NoFlags}, service : PortServices, node : {Everything}]
=============================================================================
