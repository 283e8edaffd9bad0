------------------------ MODULE MCNodeBalancerConfigs ------------------------
\* NodeBalancerConfigs for TLC: the ports of the runs.
EXTENDS NodeBalancerConfigs

Port(p, t) == [port |-> p, protocol |-> t]

\* One and two ports, one of them with either protocol.
DistinctPorts ==
    {<<Port(80, "tcp")>>, <<Port(80, "tcp"), Port(443, "tcp")>>,
     <<Port(443, "tcp"), Port(53, "udp")>>, <<Port(53, "tcp")>>}

\* A port number with both protocols, as for DNS.
BothProtocols == {<<Port(53, "tcp"), Port(53, "udp")>>}
=============================================================================
