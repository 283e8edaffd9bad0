---------------------------- MODULE FirewallRules ----------------------------
(***************************************************************************)
(* The rules of the Cloud Firewall of a Service with a firewall-acl        *)
(* annotation (services/firewalls.go): how CreateFirewallOptsForSvc makes  *)
(* rules of an ACL, and how ruleChanged decides whether the rules of the   *)
(* attached firewall have to be replaced.  A Service's ports and a rule's  *)
(* port string are the set of ports they mean.  The names are not those of *)
(* Firewalls, so that one module of proofs can extend both.                *)
(***************************************************************************)
EXTENDS Integers, Sequences, FiniteSets, Functions

CONSTANTS
    IPv4s, IPv6s, Ports,
    Nil,                  \* an absent list of addresses
    MaxIPsPerFirewall,    \* maxIPsPerFirewall: addresses per rule
    MaxRulesPerFirewall,  \* maxRulesPerFirewall
    MaxLen,               \* bound: the length of a list in an ACL
    Repeats,              \* a list may name an address twice
    TakenOver             \* rules of the user's firewalls that are taken over

Lists(S) == {l \in UNION {[1 .. n -> S] : n \in 0 .. MaxLen} : Repeats \/ IsInjective(l)}
Addresses == [v4 : Lists(IPv4s) \cup {Nil}, v6 : Lists(IPv6s) \cup {Nil}]

ASSUME ConstantsAssumption ==
    /\ MaxIPsPerFirewall \in Nat \ {0} /\ MaxRulesPerFirewall \in Nat /\ MaxLen \in Nat
    /\ Repeats \in BOOLEAN
    /\ Nil \notin Seq(IPv4s) \cup Seq(IPv6s)

\* The annotation: an allowList, a denyList, both of them or neither.
ACLConfigs == [kind : {"allow", "deny", "both", "neither"}, ips : Addresses]

VARIABLES
    acl, ports,   \* the Service
    ruleset,      \* the firewall: inbound policy and inbound rules
    outcome       \* of the last reconciliation; "stale" after an edit

rulesVars == <<acl, ports, ruleset, outcome>>

Listed(list) == IF list = Nil THEN <<>> ELSE list
Listing(ips) == Len(Listed(ips.v4)) + Len(Listed(ips.v6))

-----------------------------------------------------------------------------
\* Making rules.

\* Mutant of chunkIPs: the last chunk takes what is left and one more.
chunkIPsLong(ips) ==
    LET M == MaxIPsPerFirewall
        n == IF Len(ips) <= M THEN 1 ELSE (Len(ips) - 1) \div M
    IN  [i \in 1 .. n |->
           SubSeq(ips, (i - 1) * M + 1, IF i < n THEN i * M ELSE Len(ips))]

chunkIPs(ips) ==
    LET M == MaxIPsPerFirewall
        n == IF Len(ips) <= M THEN 1 ELSE (Len(ips) + M - 1) \div M
    IN  [i \in 1 .. n |->
           SubSeq(ips, (i - 1) * M + 1, IF i < n THEN i * M ELSE Len(ips))]

Rule(action, v4, v6, ps) == [action |-> action, v4 |-> v4, v6 |-> v6, ports |-> ps]

\* The inbound rules; with more addresses than one rule takes, the families
\* are split into rules of their own.
processACL(action, ips, ps) ==
    IF Listing(ips) > MaxIPsPerFirewall
    THEN LET c4 == chunkIPs(Listed(ips.v4))
             c6 == chunkIPs(Listed(ips.v6))
         IN  [i \in DOMAIN c4 |-> Rule(action, c4[i], Nil, ps)]
               \o [i \in DOMAIN c6 |-> Rule(action, Nil, c6[i], ps)]
    ELSE <<Rule(action, ips.v4, ips.v6, ps)>>

Policy(kind) == IF kind = "deny" THEN "ACCEPT" ELSE "DROP"
Action(kind) == IF kind = "deny" THEN "DROP" ELSE "ACCEPT"

\* CreateFirewallOptsForSvc: the rules, or no rules when it returns an error.
CreateFirewallOptsForSvc(a, ps) ==
    LET inbound == processACL(Action(a.kind), a.ips, ps) IN
      IF a.kind \notin {"allow", "deny"} \/ Len(inbound) > MaxRulesPerFirewall THEN {}
      ELSE {[policy |-> Policy(a.kind), inbound |-> inbound]}

-----------------------------------------------------------------------------
\* Comparing rules.

\* Where the rules list addresses of a family: a rule, and a place in its list.
Places(inbound, family) ==
    UNION {{i} \X DOMAIN Listed(inbound[i][family]) : i \in DOMAIN inbound}

\* Mutant of RuleIPs: only the first rule's addresses.
RuleIPsFirst(inbound, family) ==
    [p \in {q \in Places(inbound, family) : q[1] = 1} |-> inbound[p[1]][family][p[2]]]

\* The addresses that ipsChanged appends to one list, found by their place in the
\* rules: only how many there are, and which, is compared.
RuleIPs(inbound, family) ==
    [p \in Places(inbound, family) |-> inbound[p[1]][family][p[2]]]

\* Mutant of ListChanged: only an address that is new is a change.
ListChangedNewOnly(list, current) ==
    list # Nil /\ ~(Range(list) \subseteq Range(current))

\* One address family in ipsChanged.
ListChanged(list, current) ==
    \/ list = Nil /\ DOMAIN current # {}
    \/ list # Nil /\ \/ Len(list) # Cardinality(DOMAIN current)
                     \/ ~(Range(list) \subseteq Range(current))

ipsChanged(ips, inbound) ==
    \E family \in {"v4", "v6"} : ListChanged(ips[family], RuleIPs(inbound, family))

\* Only the first rule's ports are looked at.
isPortsChanged(inbound, ps) ==
    inbound = <<>> \/ inbound[1].ports # ps

\* An annotation with neither list has no addresses to compare.
ruleChanged(old, a, ps) ==
    \/ a.kind \in {"allow", "both"} /\ old.policy # "DROP"
    \/ a.kind \in {"deny", "both"} /\ old.policy # "ACCEPT"
    \/ /\ a.kind # "neither"
       /\ a.ips.v4 # Nil \/ a.ips.v6 # Nil
       /\ old.inbound = <<>>
    \/ a.kind # "neither" /\ ipsChanged(a.ips, old.inbound)
    \/ isPortsChanged(old.inbound, ps)

-----------------------------------------------------------------------------
\* The first reconciliation creates the firewall or meets a user's.
RulesInit ==
    /\ acl \in ACLConfigs
    /\ ports \in (SUBSET Ports) \ {{}}
    /\ IF TakenOver = {}
       THEN ruleset \in CreateFirewallOptsForSvc(acl, ports) /\ outcome = "ok"
       ELSE ruleset \in TakenOver /\ outcome = "stale"

\* The user changes the Service.
EditService ==
    /\ outcome # "stale"
    /\ acl' \in ACLConfigs
    /\ ports' \in (SUBSET Ports) \ {{}}
    /\ outcome' = "stale"
    /\ UNCHANGED ruleset

\* updateNodeBalancerFirewallWithACL of a balancer that has one firewall.
UpdateWithACL ==
    LET new == CreateFirewallOptsForSvc(acl, ports) IN
    /\ outcome = "stale"
    /\ IF ~ruleChanged(ruleset, acl, ports)
       THEN outcome' = "ok" /\ UNCHANGED ruleset
       ELSE IF new = {} THEN outcome' = "error" /\ UNCHANGED ruleset
       ELSE outcome' = "ok" /\ ruleset' \in new
    /\ UNCHANGED <<acl, ports>>

RulesNext == EditService \/ UpdateWithACL
RulesSpec == RulesInit /\ [][RulesNext]_rulesVars

-----------------------------------------------------------------------------
\* Properties.

\* What the rules mean: who is accepted, or who is dropped, on which ports.
Means(fw, a, ps) ==
    /\ fw.policy = Policy(a.kind)
    /\ \A i \in DOMAIN fw.inbound :
         fw.inbound[i].action = Action(a.kind) /\ fw.inbound[i].ports = ps
    /\ \A family \in {"v4", "v6"} :
         Range(RuleIPs(fw.inbound, family)) = Range(Listed(a.ips[family]))

\* "Rules are updated when the annotation changes": a reconciliation that
\* succeeds leaves rules that mean what the Service's ACL and ports say.
RulesFollowACL ==
    outcome = "ok" /\ acl.kind \in {"allow", "deny"} => Means(ruleset, acl, ports)

\* The limits of the API.
Fits(fw) ==
    /\ Len(fw.inbound) <= MaxRulesPerFirewall
    /\ \A i \in DOMAIN fw.inbound : Listing(fw.inbound[i]) <= MaxIPsPerFirewall

\* No firewall is given more rules, or more addresses in a rule, than the API
\* takes.
WithinLimits == Fits(ruleset)

\* After a successful reconciliation the next one, of the same Service, has
\* nothing to change.
Stable == outcome = "ok" => ~ruleChanged(ruleset, acl, ports)
=============================================================================
