------------------------------ MODULE Firewalls ------------------------------
(***************************************************************************)
(* How the Cloud Firewalls of NodeBalancers follow the firewall-id and     *)
(* firewall-acl annotations: services/firewalls.go, and the parts of       *)
(* loadbalancers.go that create and delete a NodeBalancer with it.  There  *)
(* is one Service per NodeBalancer.  Every call of the Linode API is a     *)
(* step; a call may fail, and then the service controller starts again     *)
(* from the Service as it is then.  A rule set is the ACL it was made of   *)
(* (FirewallRules has the rules).                                          *)
(***************************************************************************)
EXTENDS Integers, FiniteSets

CONSTANTS
    Balancers,      \* NodeBalancers, and the Services they are for
    Other,          \* a device the CCM knows nothing of, say a Linode
    UserFirewalls,  \* firewalls made by the user
    OwnFirewalls,   \* bound: firewalls the CCM may have at a time
    ACLs,           \* contents of the firewall-acl annotation
    None,
    Wants,          \* the annotations a Service may have
    Workers,        \* Services handled at a time
    FailingCalls,   \* calls of the Linode API that may fail
    MaxFailures,    \* bound: how often calls fail
    MaxEdits        \* bound: how often a user edits or deletes a Service

Firewalls == UserFirewalls \cup OwnFirewalls
Annotations == [id : UserFirewalls \cup {None}, acl : ACLs \cup {None}]

Calls == {"list", "create", "attach", "detach", "devices", "delete", "rules",
          "balancer", "cleanup", "count", "remove", "release"}

ASSUME NoneAssumption == None \notin Firewalls \cup ACLs
ASSUME OtherAssumption == Other \notin Balancers
ASSUME DisjointAssumption == UserFirewalls \cap OwnFirewalls = {}
ASSUME WantsAssumption == Wants \subseteq Annotations
ASSUME CallsAssumption == FailingCalls \subseteq Calls
ASSUME BoundsAssumption == Workers \in Nat /\ MaxFailures \in Nat /\ MaxEdits \in Nat
ASSUME FiniteAssumption == IsFiniteSet(Balancers) /\ IsFiniteSet(Firewalls)

VARIABLES
    want,       \* the annotations of the Services
    phase,      \* new, live (the balancer exists), leaving (deleted), gone
    firewalls,  \* the firewalls that exist
    devices,    \* which firewall is attached to which device
    rules,      \* the ACL a firewall's rules were made of
    task,       \* the handler at work on each Service
    settled,    \* Services whose last handler ended well and that did not change since
    failures, edits

linode == <<phase, firewalls, devices, rules>>
vars == <<want, phase, firewalls, devices, rules, task, settled, failures, edits>>

Job(pc, w, old, new) == [pc |-> pc, want |-> w, old |-> old, new |-> new]
Idle == Job("idle", [id |-> None, acl |-> None], None, None)

TypeOK ==
    /\ want \in [Balancers -> Wants]
    /\ phase \in [Balancers -> {"new", "live", "leaving", "gone"}]
    /\ firewalls \subseteq Firewalls
    /\ devices \subseteq firewalls \X (Balancers \cup {Other})
    /\ rules \in [Firewalls -> ACLs \cup {None}]
    /\ task \in [Balancers -> [pc : Calls \cup {"idle"}, want : Annotations,
                               old : Firewalls \cup {None},
                               new : Firewalls \cup {None}]]
    /\ settled \subseteq Balancers
    /\ failures \in 0 .. MaxFailures
    /\ edits \in 0 .. MaxEdits

Attached(b) == {f \in firewalls : <<f, b>> \in devices}
DevicesOf(f) == {d \in Balancers \cup {Other} : <<f, d>> \in devices}

-----------------------------------------------------------------------------
\* The handlers' control.

At(b, call) == task[b].pc = call
Goto(b, call, old, new) ==
    task' = [task EXCEPT ![b] = Job(call, task[b].want, old, new)] /\ UNCHANGED settled
Continue(b, call) == Goto(b, call, task[b].old, task[b].new)
Return(b, ok) ==
    /\ task' = [task EXCEPT ![b] = Idle]
    /\ settled' = IF ok /\ task[b].want = want[b] THEN settled \cup {b} ELSE settled \ {b}

\* Mutant of Replace: the old firewall is detached first.
ReplaceDetachFirst(b, old, new) ==
    Goto(b, IF old # None THEN "detach" ELSE "attach", old, new)

\* Attach the firewall new and, if there is one, detach the firewall old.
Replace(b, old, new) == Goto(b, IF new = None THEN "detach" ELSE "attach", old, new)

\* A handler starts.  EnsureLoadBalancer of a Service without a NodeBalancer
\* goes to createNodeBalancer, with one to UpdateNodeBalancerFirewall;
\* EnsureLoadBalancerDeleted looks only for the ACL annotation.
FirstCall(b) ==
    IF phase[b] = "live" THEN "list"
    ELSE IF phase[b] = "new"
    THEN IF want[b].id = None /\ want[b].acl # None THEN "create" ELSE "balancer"
    ELSE IF want[b].acl # None THEN "cleanup" ELSE "release"

Begin(b) ==
    /\ At(b, "idle")
    /\ phase[b] # "gone"
    /\ Cardinality({x \in Balancers : task[x].pc # "idle"}) < Workers
    /\ task' = [task EXCEPT ![b] = Job(FirstCall(b), want[b], None,
                                       IF phase[b] = "new" THEN want[b].id ELSE None)]
    /\ UNCHANGED <<want, linode, settled, failures, edits>>

-----------------------------------------------------------------------------
\* UpdateNodeBalancerFirewall.

\* Mutant of ListFirewalls: an unknown number of firewalls is not an error.
ListFirewallsAnyNumber(b) ==
    /\ At(b, "list")
    /\ LET w == task[b].want
           A == Attached(b)
           f == IF A = {} THEN None ELSE CHOOSE x \in A : TRUE
       IN  IF w.id # None
           THEN IF A # {} THEN Return(b, TRUE) ELSE Replace(b, f, w.id)
           ELSE IF w.acl # None
           THEN IF A = {} THEN Continue(b, "create")
                ELSE IF rules[f] = w.acl THEN Return(b, TRUE) ELSE Goto(b, "rules", f, None)
           ELSE IF A = {} THEN Return(b, TRUE) ELSE Replace(b, f, None)
    /\ UNCHANGED <<want, linode, failures, edits>>

\* ListNodeBalancerFirewalls, and what each of the three cases does with it.
ListFirewalls(b) ==
    /\ At(b, "list")
    /\ LET w == task[b].want
           A == Attached(b)
           f == IF A = {} THEN None ELSE CHOOSE x \in A : TRUE
       IN  IF Cardinality(A) > 1 THEN Return(b, FALSE)
           ELSE IF w.id # None
           THEN IF f = w.id THEN Return(b, TRUE) ELSE Replace(b, f, w.id)
           ELSE IF w.acl # None
           THEN IF A = {} THEN Continue(b, "create")
                ELSE IF rules[f] = w.acl THEN Return(b, TRUE) ELSE Goto(b, "rules", f, None)
           ELSE IF A = {} THEN Return(b, TRUE) ELSE Replace(b, f, None)
    /\ UNCHANGED <<want, linode, failures, edits>>

\* CreateFirewall, for a balancer that exists or for one about to be created.
CreateFirewall(b) ==
    /\ At(b, "create")
    /\ \E f \in OwnFirewalls \ firewalls :
         /\ \A x \in Balancers : f \notin {task[x].old, task[x].new}
         /\ firewalls' = firewalls \cup {f}
         /\ rules' = [rules EXCEPT ![f] = task[b].want.acl]
         /\ Goto(b, IF phase[b] = "new" THEN "balancer" ELSE "attach", None, f)
    /\ UNCHANGED <<want, phase, devices, failures, edits>>

\* CreateFirewallDevice.
AttachFirewall(b) ==
    /\ At(b, "attach")
    /\ IF task[b].new \in firewalls
       THEN /\ devices' = devices \cup {<<task[b].new, b>>}
            /\ IF task[b].old = None THEN Return(b, TRUE) ELSE Continue(b, "detach")
       ELSE Return(b, FALSE) /\ UNCHANGED devices
    /\ UNCHANGED <<want, phase, firewalls, rules, failures, edits>>

\* getNodeBalancerDeviceID and DeleteFirewallDevice.  Without the device, the
\* change to another firewall is an error and the removal goes on.
DetachFirewall(b) ==
    /\ At(b, "detach")
    /\ devices' = devices \ {<<task[b].old, b>>}
    /\ IF task[b].new = None
       THEN IF task[b].old \in firewalls THEN Continue(b, "devices") ELSE Return(b, FALSE)
       ELSE Return(b, <<task[b].old, b>> \in devices)
    /\ UNCHANGED <<want, phase, firewalls, rules, failures, edits>>

\* The removal lists what is still attached to the firewall.
ListDevices(b) ==
    /\ At(b, "devices")
    /\ IF DevicesOf(task[b].old) = {} THEN Continue(b, "delete") ELSE Return(b, TRUE)
    /\ UNCHANGED <<want, linode, failures, edits>>

DeleteEmptyFirewall(b) ==
    /\ At(b, "delete")
    /\ firewalls' = firewalls \ {task[b].old}
    /\ devices' = {d \in devices : d[1] # task[b].old}
    /\ Return(b, task[b].old \in firewalls)
    /\ UNCHANGED <<want, phase, rules, failures, edits>>

UpdateRules(b) ==
    /\ At(b, "rules")
    /\ rules' = IF task[b].old \in firewalls
                THEN [rules EXCEPT ![task[b].old] = task[b].want.acl] ELSE rules
    /\ Return(b, task[b].old \in firewalls)
    /\ UNCHANGED <<want, phase, firewalls, devices, failures, edits>>

-----------------------------------------------------------------------------
\* createNodeBalancer and EnsureLoadBalancerDeleted.

\* CreateNodeBalancer, with the ID of the firewall it is to have.
CreateBalancer(b) ==
    /\ At(b, "balancer")
    /\ IF task[b].new \in firewalls \cup {None}
       THEN /\ phase' = [phase EXCEPT ![b] = "live"]
            /\ devices' = devices \cup ({<<task[b].new, b>>} \ {<<None, b>>})
            /\ Return(b, TRUE)
       ELSE Return(b, FALSE) /\ UNCHANGED <<phase, devices>>
    /\ UNCHANGED <<want, firewalls, rules, failures, edits>>

\* DeleteNodeBalancerFirewall of a Service with an ACL.
CleanupFirewall(b) ==
    /\ At(b, "cleanup")
    /\ LET A == Attached(b) IN
         IF A = {} THEN Continue(b, "release")
         ELSE IF Cardinality(A) > 1 THEN Return(b, FALSE)
         ELSE Goto(b, "count", CHOOSE f \in A : TRUE, None)
    /\ UNCHANGED <<want, linode, failures, edits>>

\* Mutant of CountDevices: the firewall is deleted whatever is attached to it.
CountDevicesNever(b) ==
    /\ At(b, "count")
    /\ Continue(b, "remove")
    /\ UNCHANGED <<want, linode, failures, edits>>

\* DeleteFirewall: with a second device the firewall stays.
CountDevices(b) ==
    /\ At(b, "count")
    /\ IF task[b].old \notin firewalls THEN Return(b, FALSE)
       ELSE Continue(b, IF Cardinality(DevicesOf(task[b].old)) > 1
                        THEN "release" ELSE "remove")
    /\ UNCHANGED <<want, linode, failures, edits>>

RemoveFirewall(b) ==
    /\ At(b, "remove")
    /\ firewalls' = firewalls \ {task[b].old}
    /\ devices' = {d \in devices : d[1] # task[b].old}
    /\ IF task[b].old \in firewalls THEN Continue(b, "release") ELSE Return(b, FALSE)
    /\ UNCHANGED <<want, phase, rules, failures, edits>>

\* DeleteNodeBalancer takes its devices along.
DeleteBalancer(b) ==
    /\ At(b, "release")
    /\ phase' = [phase EXCEPT ![b] = "gone"]
    /\ devices' = {d \in devices : d[2] # b}
    /\ Return(b, TRUE)
    /\ UNCHANGED <<want, firewalls, rules, failures, edits>>

-----------------------------------------------------------------------------
\* A call fails without effect, or the process restarts before it.
CallFails(b) ==
    /\ task[b].pc \in FailingCalls
    /\ failures < MaxFailures
    /\ failures' = failures + 1
    /\ Return(b, FALSE)
    /\ UNCHANGED <<want, linode, edits>>

\* The user edits the annotations, or deletes the Service.
Edit(b) ==
    /\ edits < MaxEdits
    /\ edits' = edits + 1
    /\ phase[b] \in {"new", "live"}
    /\ \/ /\ \E w \in Wants \ {want[b]} : want' = [want EXCEPT ![b] = w]
          /\ UNCHANGED phase
       \/ /\ phase[b] = "live"
          /\ At(b, "idle")
          /\ phase' = [phase EXCEPT ![b] = "leaving"]
          /\ UNCHANGED want
    /\ settled' = settled \ {b}
    /\ UNCHANGED <<firewalls, devices, rules, task, failures>>

Init ==
    /\ want \in [Balancers -> Wants]
    /\ phase = [b \in Balancers |-> "new"]
    /\ firewalls = UserFirewalls
    /\ devices \in SUBSET (UserFirewalls \X {Other})
    /\ rules = [f \in Firewalls |-> None]
    /\ task = [b \in Balancers |-> Idle]
    /\ settled = {}
    /\ failures = 0
    /\ edits = 0

Handle(b) ==
    \/ Begin(b)
    \/ ListFirewalls(b) \/ CreateFirewall(b) \/ AttachFirewall(b)
    \/ DetachFirewall(b) \/ ListDevices(b) \/ DeleteEmptyFirewall(b)
    \/ UpdateRules(b)
    \/ CreateBalancer(b) \/ CleanupFirewall(b) \/ CountDevices(b)
    \/ RemoveFirewall(b) \/ DeleteBalancer(b)

Next == \E b \in Balancers : Handle(b) \/ CallFails(b) \/ Edit(b)

Spec == Init /\ [][Next]_vars

\* The service controller retries a Service until its handler succeeds, and
\* takes the Services in turn.
Fairness == \A b \in Balancers : SF_vars(Handle(b))
FairSpec == Spec /\ Fairness

-----------------------------------------------------------------------------
\* Properties.

\* What the annotations of b ask for, in the order UpdateNodeBalancerFirewall
\* documents: the firewall with the ID; else one firewall with the rules of
\* the ACL; else none.  (A user's firewall with two Services that took it over
\* has the rules of the last one.)
Enforced(b) ==
    LET w == want[b] IN
    IF w.id # None THEN Attached(b) = {w.id}
    ELSE IF w.acl # None
    THEN \E f \in Firewalls : Attached(b) = {f} /\ (f \in OwnFirewalls => rules[f] = w.acl)
    ELSE Attached(b) = {}

\* When a handler has returned without error and the Service is still what
\* it read, the firewalls of a balancer are the ones the annotations ask for,
\* whatever failed before.
SettledIsEnforced ==
    \A b \in settled : phase[b] = "live" => Enforced(b)

\* A firewall the CCM deletes has nothing attached to it but the balancer whose
\* handler deletes it, and that one's Service does not name it by its ID.
OnlyLoneDeleted ==
    [][\A f \in firewalls \ firewalls' :
         \E b \in Balancers :
           task[b].old = f /\ DevicesOf(f) \subseteq {b} /\ task[b].want.id # f]_vars

\* A balancer with a firewall gets without one only by a handler of a Service
\* with neither annotation or a deleted one: never during a change of
\* firewalls, and never by the handler of another Service.
NeverExposed ==
    [][\A b \in Balancers :
         Attached(b) # {} /\ Attached(b)' = {} =>
           \/ phase[b] = "leaving"
           \/ task[b].pc = "detach" /\ task[b].want.id = None /\ task[b].want.acl = None]_vars

\* Once edits and failures cease, every balancer gets the firewall its
\* annotations ask for (if that exists), and a deleted Service's goes away.
Converges ==
    \A b \in Balancers :
      <>[](CASE phase[b] = "leaving" -> FALSE
             [] phase[b] = "gone" -> TRUE
             [] OTHER -> Enforced(b) \/ want[b].id \notin firewalls \cup {None})
=============================================================================
