--------------------------- MODULE MCFirewallRules ---------------------------
\* FirewallRules for TLC.
EXTENDS FirewallRules, TLC

NoneTakenOver == {}

\* A user's firewall with one rule for each port.
RulePerPort ==
    {[policy |-> "DROP",
      inbound |-> <<Rule("ACCEPT", <<x>>, Nil, {p}), Rule("ACCEPT", <<y>>, Nil, {q})>>] :
        x, y \in IPv4s, p, q \in Ports}

AddressSymmetry == Permutations(IPv4s) \cup Permutations(IPv6s) \cup Permutations(Ports)
=============================================================================
