----------------------------- MODULE PortConfigs -----------------------------
(***************************************************************************)
(* How the settings of a port of a NodeBalancer follow from the            *)
(* annotations of the service: getPortConfig, getHealthCheckType and       *)
(* buildNodeBalancerConfig of loadbalancers.go and the helpers of          *)
(* loadbalancers_helpers.go.                                               *)
(*                                                                         *)
(* port holds the fields of the annotation for one port, svc the           *)
(* annotations for all ports of the service; Unset is a field or an        *)
(* annotation that is not there, Bad a value that nothing accepts.         *)
(***************************************************************************)
EXTENDS Integers

CONSTANTS Unset, Bad, Err

Protocols == {"tcp", "udp", "http", "https"}
ProxyProtocols == {"none", "v1", "v2"}
TCPAlgorithms == {"roundrobin", "leastconn", "source"}
UDPAlgorithms == {"roundrobin", "leastconn", "ring_hash"}
HTTPStickiness == {"none", "http_cookie", "table"}
UDPStickiness == {"none", "session", "source_ip"}
MaxPort == 2 ^ 16 - 1
Checks == {"none", "http", "http_body", "connection"}

\* Mutant of Setting: the service's annotation comes first.
SettingServiceFirst(port, svc, key, default) ==
    IF svc[key] # Unset THEN svc[key] ELSE IF port[key] # Unset THEN port[key] ELSE default

\* A field of the port's annotation, else the service's annotation, else a default.
Setting(port, svc, key, default) ==
    IF port[key] # Unset THEN port[key] ELSE IF svc[key] # Unset THEN svc[key] ELSE default

getPortProtocol(port, svc, k8s) == Setting(port, svc, "protocol", k8s)

\* The deprecated annotation counts where the present one is missing.
getPortProxyProtocol(port, svc) ==
    Setting(port, svc, "proxy", IF svc["oldProxy"] # Unset THEN svc["oldProxy"] ELSE "none")

getPortAlgorithm(port, svc) == Setting(port, svc, "algorithm", "roundrobin")
getPortUDPCheckPort(port, svc) == Setting(port, svc, "udpCheck", 80)

getPortStickiness(port, svc, protocol) ==
    Setting(port, svc, "stickiness", IF protocol = "udp" THEN "session" ELSE "table")

\* Mutant of getPortConfig: the stickiness of TCP is not cleared.
getPortConfigSticky(port, svc, k8s) ==
    LET protocol == getPortProtocol(port, svc, k8s)
        stickiness == getPortStickiness(port, svc, protocol)
    IN  IF protocol \notin Protocols THEN Err
        ELSE [protocol |-> protocol, proxy |-> getPortProxyProtocol(port, svc),
              algorithm |-> getPortAlgorithm(port, svc), tls |-> port["tls"],
              udpCheck |-> 0, stickiness |-> stickiness]

\* Every setting is checked against the protocol; what the protocol does not have is
\* left out.
getPortConfig(port, svc, k8s) ==
    LET protocol == getPortProtocol(port, svc, k8s)
        proxy == getPortProxyProtocol(port, svc)
        algorithm == getPortAlgorithm(port, svc)
        check == getPortUDPCheckPort(port, svc)
        stickiness == getPortStickiness(port, svc, protocol)
        accepted ==
            /\ protocol \in Protocols
            /\ proxy \in ProxyProtocols
            /\ algorithm \in IF protocol = "udp" THEN UDPAlgorithms ELSE TCPAlgorithms
            /\ protocol = "udp" => /\ proxy = "none"
                                   /\ port["tls"] = Unset
                                   /\ check # Bad /\ check \in 1 .. MaxPort
                                   /\ stickiness \in UDPStickiness
            /\ protocol \in {"http", "https"} => stickiness \in HTTPStickiness
    IN  IF ~accepted THEN Err
        ELSE [protocol |-> protocol, proxy |-> proxy, algorithm |-> algorithm,
              tls |-> port["tls"],
              udpCheck |-> IF protocol = "udp" THEN check ELSE 0,
              stickiness |-> IF protocol = "tcp" THEN Unset ELSE stickiness]

\* The protocol is the one of Kubernetes, not the one of the annotations.
getHealthCheckType(svc, k8s) ==
    IF svc["check"] # Unset THEN svc["check"] ELSE IF k8s = "udp" THEN "none" ELSE "connection"

\* The number of an annotation: interval, timeout or attempts.
NumberOf(svc, key, default) == IF svc[key] = Unset THEN default ELSE svc[key]

\* secrets are the TLS secrets that there are.
buildNodeBalancerConfig(port, svc, k8s, secrets) ==
    LET config == getPortConfig(port, svc, k8s)
        check == getHealthCheckType(svc, k8s)
        interval == NumberOf(svc, "interval", 5)
        passive == IF config # Err /\ config.protocol = "udp" THEN "false"
                   ELSE IF svc["passive"] = Unset THEN "true" ELSE svc["passive"]
        accepted ==
            /\ config # Err
            /\ check \in Checks
            /\ check = "http_body" => svc["body"] # Unset
            /\ interval # Bad
            /\ passive # Bad
            /\ config.protocol = "https" => config.tls \in secrets
    IN  IF ~accepted THEN Err
        ELSE [settings |-> config, check |-> check, interval |-> interval, passive |-> passive,
              cert |-> IF config.protocol = "https" THEN config.tls ELSE Unset]
=============================================================================
