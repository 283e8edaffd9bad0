-------------------------- MODULE FirewallsProofs ---------------------------
(***************************************************************************)
(* What holds of Firewalls for any number of Services and firewalls, any   *)
(* edits and any failing calls, handled one Service at a time: the         *)
(* inductive invariant, what the proofs about the actions have in common,  *)
(* the calls of UpdateNodeBalancerFirewall, the other actions, and the     *)
(* theorems. Then what holds of FirewallRules: how chunkIPs cuts a list,   *)
(* what CreateFirewallOptsForSvc makes, what ruleChanged finds, and the    *)
(* theorems.                                                               *)
(***************************************************************************)
EXTENDS Firewalls, FirewallRules, FiniteSetTheorems, TLAPS

\* Leaves are first-order, but those that cite SMT.
USE Zenon

\* The default of the service controller.
OneWorker == Workers = 1

\* No Service has both annotations.
NeverBoth == \A w \in Wants : w.id = None \/ w.acl = None

-----------------------------------------------------------------------------
\* The inductive invariant.

\* One handler at a time.
Alone == \A b, c \in Balancers : task[b].pc # "idle" /\ task[c].pc # "idle" => b = c

Updating == {"list", "attach", "detach", "devices", "delete", "rules"}
Deleting == {"cleanup", "count", "remove", "release"}
InPhaseAt(b, pc) ==
    /\ pc \in Updating => phase[b] = "live"
    /\ pc \in Deleting => phase[b] = "leaving"
    /\ pc = "create" => phase[b] \in {"new", "live"}
    /\ pc = "balancer" => phase[b] = "new"
    /\ phase[b] = "new" => Attached(b) = {}
InPhase(b) == InPhaseAt(b, task[b].pc)

\* The firewall the handler of b is to attach is the one the annotations ask for; one
\* the CCM made has the rules of the ACL and no device.
Asked(w, f) ==
    IF w.id # None THEN f = w.id
    ELSE IF w.acl # None THEN f \in OwnFirewalls /\ rules[f] = w.acl /\ DevicesOf(f) = {}
    ELSE f = None
Nothing(w) == w.id = None /\ w.acl = None
OnlyACL(w) == w.id = None /\ w.acl # None

\* What the handler of b knows at each call about the firewalls of the balancer.
KnowsAt(b, pc, w, old, new) ==
    /\ pc = "create" => Attached(b) = {} /\ OnlyACL(w)
    /\ pc = "balancer" => Asked(w, new)
    /\ pc = "attach" => /\ new # None /\ new # old
                        /\ Asked(w, new)
                        /\ old # None => new = w.id
                        /\ Attached(b) = {old} \ {None}
    /\ pc = "detach" => /\ old # None /\ new # old
                        /\ IF new = None THEN Nothing(w) ELSE new = w.id
                        /\ Attached(b) = {old, new} \ {None}
    /\ pc \in {"devices", "delete"} => Nothing(w) /\ Attached(b) = {}
    /\ pc = "delete" => DevicesOf(old) = {}
    /\ pc = "rules" => OnlyACL(w) /\ Attached(b) = {old}
    /\ pc = "cleanup" => w.acl # None
    /\ pc = "count" => w.acl # None /\ Attached(b) = {old}
    /\ pc = "remove" => w.acl # None /\ DevicesOf(old) \subseteq {b}
    /\ pc # "idle" => w \in Wants
Knows(b) == KnowsAt(b, task[b].pc, task[b].want, task[b].old, task[b].new)

\* A firewall of the CCM is attached to one balancer at most.
OwnSole ==
    \A f \in OwnFirewalls : \A c, d \in Balancers \cup {Other} :
      <<f, c>> \in devices /\ <<f, d>> \in devices => c = d

\* A Service that is settled stays so: its handler, if there is one, has found nothing
\* to do yet but write rules.
RestAt(b, pc, w) ==
    b \in settled =>
      /\ phase[b] # "new"
      /\ pc \notin {"create", "balancer", "attach", "detach", "devices", "delete"}
      /\ pc # "idle" => w = want[b]
      /\ phase[b] = "live" => Enforced(b)
Rest(b) == RestAt(b, task[b].pc, task[b].want)

IInv ==
    /\ TypeOK
    /\ Alone
    /\ OwnSole
    /\ \A b \in Balancers : InPhase(b) /\ Knows(b) /\ Rest(b)

-----------------------------------------------------------------------------
\* Lemmas.

\* A set of which the code has found that it has no two elements.
LEMMA AtMostOne ==
  ASSUME NEW S, IsFiniteSet(S), ~(Cardinality(S) > 1)
  PROVE  S = {} \/ \E x \in S : S = {x} /\ (CHOOSE y \in S : TRUE) = x
<1>1. Cardinality(S) \in Nat
  BY FS_CardinalityType
<1>2. CASE Cardinality(S) = 0
  BY <1>2, FS_EmptySet
<1>3. CASE Cardinality(S) = 1
  <2>1. PICK x : S = {x}
    BY <1>3, FS_Singleton
  <2>2. (CHOOSE y \in S : TRUE) \in S
    BY <2>1
  <2> QED BY <2>1, <2>2
<1> QED BY <1>1, <1>2, <1>3, SMT

\* The API's lists are finite.
LEMMA Finite ==
  ASSUME TypeOK, NEW b, NEW f
  PROVE  IsFiniteSet(Attached(b)) /\ IsFiniteSet(DevicesOf(f)) /\ Attached(b) \subseteq firewalls
<1>1. IsFiniteSet(Balancers \cup {Other})
  BY FiniteAssumption, FS_AddElement
<1>2. DevicesOf(f) \subseteq Balancers \cup {Other}
  BY DEF DevicesOf
<1>3. Attached(b) \subseteq firewalls
  BY DEF Attached
<1>4. firewalls \subseteq Firewalls
  BY DEF TypeOK
<1> QED BY <1>1, <1>2, <1>3, <1>4, FS_Subset, FiniteAssumption

Phases == {"new", "live", "leaving", "gone"}

\* What a step does not disturb: the types of all but the handlers, and OwnSole.
Kept ==
    /\ want' = want
    /\ phase' \in [Balancers -> Phases]
    /\ firewalls' \subseteq Firewalls
    /\ devices' \subseteq firewalls' \X (Balancers \cup {Other})
    /\ rules' \in [Firewalls -> ACLs \cup {None}]
    /\ failures' \in 0 .. MaxFailures
    /\ edits' \in 0 .. MaxEdits
    /\ OwnSole'

\* The other Services, of which none is handled; the firewalls of their balancers, with
\* the rules of the CCM's, stay.
Lone(b) == \A c \in Balancers \ {b} : task[c].pc = "idle"
Local(b) ==
    \A c \in Balancers \ {b} :
      /\ phase'[c] = phase[c]
      /\ Attached(c)' = Attached(c)
      /\ \A f \in OwnFirewalls \cap Attached(c) : rules'[f] = rules[f]

\* The handler of b at the call pc.
Working(b, pc, w, old, new) ==
    /\ pc # "idle"
    /\ task[b].pc = pc /\ task[b].want = w /\ task[b].old = old /\ task[b].new = new
    /\ w \in Wants /\ w \in Annotations
    /\ old \in Firewalls \cup {None} /\ new \in Firewalls \cup {None}
    /\ InPhaseAt(b, pc) /\ KnowsAt(b, pc, w, old, new) /\ RestAt(b, pc, w)
    /\ Lone(b)

\* What a handler at work may rely on.
LEMMA AtWork ==
  ASSUME IInv, NEW b \in Balancers, NEW pc \in Calls, task[b].pc = pc
  PROVE  \E w, old, new : Working(b, pc, w, old, new)
<1>1. PICK w, old, new : w = task[b].want /\ old = task[b].old /\ new = task[b].new
  OBVIOUS
<1>2. pc # "idle"
  BY DEF Calls
<1>3. w \in Annotations /\ old \in Firewalls \cup {None} /\ new \in Firewalls \cup {None}
  BY <1>1 DEF IInv, TypeOK
<1>4. InPhaseAt(b, pc) /\ KnowsAt(b, pc, w, old, new) /\ RestAt(b, pc, w)
  BY <1>1 DEF IInv, InPhase, Knows, Rest
<1>5. w \in Wants
  BY <1>2, <1>4 DEF KnowsAt
<1>6. Lone(b)
  BY <1>2 DEF IInv, Alone, Lone
<1> QED BY <1>1, <1>2, <1>3, <1>4, <1>5, <1>6 DEF Working

\* What the handler of b knows, from its fields.
LEMMA Told ==
  ASSUME NEW b, NEW pc, NEW w, NEW old, NEW new,
         task'[b].pc = pc, task'[b].want = w, task'[b].old = old, task'[b].new = new,
         InPhaseAt(b, pc)', KnowsAt(b, pc, w, old, new)', RestAt(b, pc, w)'
  PROVE  InPhase(b)' /\ Knows(b)' /\ Rest(b)'
<1>1. InPhase(b)'
  BY DEF InPhase, InPhaseAt
<1>2. Knows(b)'
  BY DEF Knows, KnowsAt, Asked, Nothing, OnlyACL, DevicesOf
<1>3. Rest(b)'
  BY DEF Rest, RestAt
<1> QED BY <1>1, <1>2, <1>3

\* A step keeps the invariant if it does so for its own Service.
LEMMA Step ==
  ASSUME IInv, NEW b \in Balancers, Lone(b), Kept, Local(b),
         settled' \subseteq settled \cup {b},
         NEW pc \in Calls \cup {"idle"}, NEW w \in Annotations,
         NEW old \in Firewalls \cup {None}, NEW new \in Firewalls \cup {None},
         task' = [task EXCEPT ![b] = Job(pc, w, old, new)],
         InPhaseAt(b, pc)', KnowsAt(b, pc, w, old, new)', RestAt(b, pc, w)'
  PROVE  IInv'
<1>1. task \in [Balancers -> [pc : Calls \cup {"idle"}, want : Annotations,
                              old : Firewalls \cup {None}, new : Firewalls \cup {None}]]
  BY DEF IInv, TypeOK
<1>2. /\ task'[b].pc = pc /\ task'[b].want = w /\ task'[b].old = old /\ task'[b].new = new
      /\ \A c \in Balancers \ {b} : task'[c] = task[c]
  BY <1>1 DEF Job
<1>3. TypeOK'
  BY <1>1 DEF IInv, TypeOK, Kept, Job, Phases
<1>4. Alone'
  BY <1>2, SMT DEF Alone, Lone
<1>5. InPhase(b)' /\ Knows(b)' /\ Rest(b)'
  BY <1>2, Told
<1>6. ASSUME NEW c \in Balancers \ {b} PROVE InPhase(c)' /\ Knows(c)' /\ Rest(c)'
  <2>1. task'[c].pc = "idle" /\ task[c].pc = "idle"
    BY <1>2 DEF Lone
  <2>2. phase'[c] = phase[c] /\ Attached(c)' = Attached(c) /\ want'[c] = want[c]
    BY DEF Local, Kept
  <2>3. InPhase(c) /\ Rest(c)
    BY DEF IInv
  <2>4. InPhase(c)'
    BY <2>1, <2>2, <2>3, SMTT(30) DEF InPhase, InPhaseAt, Updating, Deleting
  <2>5. Knows(c)'
    BY <2>1 DEF Knows, KnowsAt
  <2>6. ASSUME Enforced(c) PROVE Enforced(c)'
    BY <2>2, <2>6 DEF Local, Enforced
  <2>7. Rest(c)'
    BY <2>1, <2>2, <2>3, <2>6 DEF Rest, RestAt
  <2> QED BY <2>4, <2>5, <2>7
<1> QED BY <1>3, <1>4, <1>5, <1>6 DEF IInv, Kept

\* A handler goes on to the next call.
LEMMA Goes ==
  ASSUME IInv, NEW b \in Balancers, NEW pc, NEW w, NEW old, NEW new,
         Working(b, pc, w, old, new), Kept, Local(b),
         NEW pc2 \in Calls, NEW old2 \in Firewalls \cup {None}, NEW new2 \in Firewalls \cup {None},
         Goto(b, pc2, old2, new2),
         InPhaseAt(b, pc2)', KnowsAt(b, pc2, w, old2, new2)', b \in settled => RestAt(b, pc2, w)'
  PROVE  IInv'
<1>1. w \in Annotations /\ Lone(b) /\ task[b].want = w
  BY DEF Working
<1>2. task' = [task EXCEPT ![b] = Job(pc2, w, old2, new2)] /\ settled' = settled
  BY <1>1 DEF Goto
<1>3. RestAt(b, pc2, w)'
  BY <1>2 DEF RestAt
<1> QED BY <1>1, <1>2, <1>3, Step

\* A handler returns: what it leaves must be what the annotations ask for, if it says so.
LEMMA Returns ==
  ASSUME IInv, NEW b \in Balancers, NEW pc, NEW w, NEW old, NEW new,
         Working(b, pc, w, old, new), Kept, Local(b), NEW ok \in BOOLEAN, Return(b, ok),
         phase'[b] = "new" => Attached(b)' = {},
         ok /\ w = want[b] => phase'[b] # "new" /\ (phase'[b] = "live" => Enforced(b)')
  PROVE  IInv'
<1> DEFINE none == [id |-> None, acl |-> None]
<1>1. Lone(b) /\ task[b].want = w /\ none \in Annotations
  BY DEF Working, Annotations
<1>2. task' = [task EXCEPT ![b] = Job("idle", none, None, None)]
  BY DEF Return, Idle
<1>3. settled' \subseteq settled \cup {b} /\ (b \in settled' => ok /\ w = want[b])
  BY <1>1 DEF Return
<1>4. InPhaseAt(b, "idle")'
  BY DEF InPhaseAt, Updating, Deleting
<1>5. KnowsAt(b, "idle", none, None, None)'
  BY DEF KnowsAt
<1>6. RestAt(b, "idle", none)'
  BY <1>3 DEF RestAt
<1> HIDE DEF none
<1> QED BY <1>1, <1>2, <1>3, <1>4, <1>5, <1>6, Step

\* A call that only reads.
LEMMA Reads ==
  ASSUME IInv, UNCHANGED <<want, linode>>,
         failures' \in 0 .. MaxFailures, edits' \in 0 .. MaxEdits, NEW b
  PROVE  Kept /\ Local(b)
BY DEF linode, IInv, TypeOK, Phases, Attached, OwnSole, Kept, Local

\* What a handler knows it still knows.
LEMMA KnowsStill ==
  ASSUME UNCHANGED <<firewalls, devices, rules>>, NEW b, NEW pc, NEW w, NEW old, NEW new
  PROVE  /\ Attached(b)' = Attached(b)
         /\ KnowsAt(b, pc, w, old, new)' <=> KnowsAt(b, pc, w, old, new)
<1>1. Attached(b)' = Attached(b) /\ DevicesOf(old)' = DevicesOf(old)
  BY DEF Attached, DevicesOf
<1>2. Asked(w, new)' <=> Asked(w, new)
  BY DEF Asked, DevicesOf
<1> QED BY <1>1, <1>2 DEF KnowsAt

\* And the rest is as it was.
LEMMA ReadsAt ==
  ASSUME UNCHANGED <<want, linode>>, NEW b, NEW pc, NEW w, NEW old, NEW new
  PROVE  /\ InPhaseAt(b, pc)' <=> InPhaseAt(b, pc)
         /\ KnowsAt(b, pc, w, old, new)' <=> KnowsAt(b, pc, w, old, new)
         /\ Enforced(b)' <=> Enforced(b)
<1>1. UNCHANGED <<want, phase, firewalls, devices, rules>>
  BY DEF linode
<1>2. Attached(b)' = Attached(b)
  BY <1>1 DEF Attached
<1>3. InPhaseAt(b, pc)' <=> InPhaseAt(b, pc)
  BY <1>1, <1>2 DEF InPhaseAt
<1>4. KnowsAt(b, pc, w, old, new)' <=> KnowsAt(b, pc, w, old, new)
  BY <1>1, KnowsStill
<1>5. Enforced(b)' <=> Enforced(b)
  BY <1>1, <1>2 DEF Enforced
<1> QED BY <1>3, <1>4, <1>5

\* One that only reads and returns.
LEMMA ReadReturns ==
  ASSUME IInv, NEW b \in Balancers, NEW pc, NEW w, NEW old, NEW new,
         Working(b, pc, w, old, new), NEW ok \in BOOLEAN, Return(b, ok),
         UNCHANGED <<want, linode>>, failures' \in 0 .. MaxFailures, edits' \in 0 .. MaxEdits,
         ok /\ w = want[b] => phase[b] # "new" /\ (phase[b] = "live" => Enforced(b))
  PROVE  IInv'
<1>1. Kept /\ Local(b) /\ (Enforced(b)' <=> Enforced(b))
  BY Reads, ReadsAt
<1>2. phase' = phase /\ Attached(b)' = Attached(b)
  BY DEF linode, Attached
<1>3. phase[b] = "new" => Attached(b) = {}
  BY DEF Working, InPhaseAt
<1> QED BY <1>1, <1>2, <1>3, Returns, SMT

\* One that only reads and goes on.
LEMMA ReadGoes ==
  ASSUME IInv, NEW b \in Balancers, NEW pc, NEW w, NEW old, NEW new,
         Working(b, pc, w, old, new),
         NEW pc2 \in Calls, NEW old2 \in Firewalls \cup {None}, NEW new2 \in Firewalls \cup {None},
         Goto(b, pc2, old2, new2), UNCHANGED <<want, linode>>, UNCHANGED <<failures, edits>>,
         InPhaseAt(b, pc2), KnowsAt(b, pc2, w, old2, new2),
         b \in settled => pc2 \notin {"create", "balancer", "attach", "detach", "devices", "delete"}
  PROVE  IInv'
<1>1. failures' \in 0 .. MaxFailures /\ edits' \in 0 .. MaxEdits
  BY DEF IInv, TypeOK
<1>2. Kept /\ Local(b)
  BY <1>1, Reads
<1>3. InPhaseAt(b, pc2)' /\ KnowsAt(b, pc2, w, old2, new2)' /\ (Enforced(b)' <=> Enforced(b))
  BY ReadsAt
<1>4. phase' = phase /\ want' = want /\ pc # "idle" /\ RestAt(b, pc, w)
  BY DEF linode, Working
<1>5. b \in settled => RestAt(b, pc2, w)'
  BY <1>3, <1>4 DEF RestAt
<1> QED BY <1>2, <1>3, <1>5, Goes

\* The firewall is attached to b and to no other balancer.
LEMMA Attaches ==
  ASSUME IInv, NEW b \in Balancers, NEW f \in firewalls, f # None,
         NEW w \in Annotations, Asked(w, f),
         devices' = devices \cup {<<f, b>>}, UNCHANGED <<firewalls, rules>>
  PROVE  /\ Attached(b)' = Attached(b) \cup {f}
         /\ \A c \in Balancers \ {b} : Attached(c)' = Attached(c)
         /\ devices' \subseteq firewalls' \X (Balancers \cup {Other})
         /\ OwnSole'
<1>1. f \in Firewalls /\ devices \subseteq firewalls \X (Balancers \cup {Other})
  BY DEF IInv, TypeOK
<1>2. Attached(b)' = Attached(b) \cup {f}
  BY DEF Attached
<1>3. \A c \in Balancers \ {b} : Attached(c)' = Attached(c)
  BY DEF Attached
<1>4. ASSUME NEW g \in OwnFirewalls, NEW c \in Balancers \cup {Other},
             NEW d \in Balancers \cup {Other}, <<g, c>> \in devices', <<g, d>> \in devices'
      PROVE  c = d
  <2>1. CASE g # f
    <3>1. <<g, c>> \in devices /\ <<g, d>> \in devices
      BY <1>4, <2>1
    <3> QED BY <3>1 DEF IInv, OwnSole
  <2>2. CASE g = f /\ w.id = None
    <3>1. DevicesOf(f) = {}
      BY <2>2 DEF Asked
    <3>2. <<f, c>> \notin devices /\ <<f, d>> \notin devices
      BY <3>1 DEF DevicesOf
    <3> QED BY <1>4, <2>2, <3>2, SMT
  <2>3. w.id # None => f \notin OwnFirewalls
    BY DisjointAssumption DEF Asked, Annotations
  <2> QED BY <2>1, <2>2, <2>3
<1>5. OwnSole'
  BY <1>4 DEF OwnSole
<1> QED BY <1>1, <1>2, <1>3, <1>5, SMT

\* Devices that go take no other's firewall along.
LEMMA Shrinks ==
  ASSUME IInv, devices' \subseteq devices
  PROVE  OwnSole'
BY DEF IInv, OwnSole

\* What is attached to a firewall that goes is b's balancer at most.
LEMMA FirewallGoes ==
  ASSUME IInv, NEW b \in Balancers, NEW f, DevicesOf(f) \subseteq {b},
         firewalls' = firewalls \ {f}, devices' = {d \in devices : d[1] # f}
  PROVE  /\ firewalls' \subseteq Firewalls
         /\ devices' \subseteq firewalls' \X (Balancers \cup {Other})
         /\ OwnSole'
         /\ \A c \in Balancers \ {b} : Attached(c)' = Attached(c)
<1>1. firewalls' \subseteq Firewalls /\ devices' \subseteq firewalls' \X (Balancers \cup {Other})
  BY DEF IInv, TypeOK
<1>2. \A c \in Balancers \ {b} : Attached(c)' = Attached(c)
  BY DEF Attached, DevicesOf
<1> QED BY <1>1, <1>2, Shrinks

-----------------------------------------------------------------------------
\* UpdateNodeBalancerFirewall.

\* The list decides between the cases of UpdateNodeBalancerFirewall.
LEMMA ListFirewallsKeeps ==
  ASSUME IInv, NEW b \in Balancers, ListFirewalls(b)
  PROVE  IInv'
<1>1. PICK w, old, new : Working(b, "list", w, old, new)
  BY AtWork DEF ListFirewalls, At, Calls
<1>2. PICK A, f : A = Attached(b) /\ f = IF A = {} THEN None ELSE CHOOSE x \in A : TRUE
  OBVIOUS
<1>3. /\ w \in Wants /\ w \in Annotations /\ old \in Firewalls \cup {None}
      /\ new \in Firewalls \cup {None} /\ phase[b] = "live"
      /\ (b \in settled => w = want[b] /\ Enforced(b))
  BY <1>1 DEF Working, InPhaseAt, RestAt, Updating
<1>4. /\ IF Cardinality(A) > 1 THEN Return(b, FALSE)
         ELSE IF w.id # None
         THEN IF f = w.id THEN Return(b, TRUE) ELSE Goto(b, "attach", f, w.id)
         ELSE IF w.acl # None
         THEN IF A = {} THEN Goto(b, "create", old, new)
              ELSE IF rules[f] = w.acl THEN Return(b, TRUE) ELSE Goto(b, "rules", f, None)
         ELSE IF A = {} THEN Return(b, TRUE) ELSE Goto(b, "detach", f, None)
      /\ UNCHANGED <<want, linode>> /\ UNCHANGED <<failures, edits>>
  <2>1. task[b].want = w /\ task[b].old = old /\ task[b].new = new
    BY <1>1, SMTT(30) DEF Working
  <2> QED BY <1>2, <2>1 DEF ListFirewalls, Continue, Replace
<1>5. failures' \in 0 .. MaxFailures /\ edits' \in 0 .. MaxEdits
  BY <1>4 DEF IInv, TypeOK
<1>6. \A pc \in {"attach", "create", "rules", "detach"} : InPhaseAt(b, pc)
  BY <1>3 DEF InPhaseAt, Updating, Deleting
<1>7. CASE Return(b, FALSE)
  BY <1>1, <1>4, <1>5, <1>7, ReadReturns
<1>8. CASE Return(b, TRUE) /\ (w = want[b] => Enforced(b))
  BY <1>1, <1>3, <1>4, <1>5, <1>8, ReadReturns
<1>9. CASE ~(Cardinality(A) > 1)
  <2>1. (A = {} /\ f = None) \/ (f \in A /\ A = {f})
    BY <1>2, <1>9, AtMostOne, Finite, SMT DEF IInv
  <2>2. f \in Firewalls \cup {None} /\ A \subseteq Firewalls /\ None \notin Firewalls
    <3>1. firewalls \subseteq Firewalls
      BY DEF IInv, TypeOK
    <3> QED BY <1>2, <2>1, <3>1, NoneAssumption DEF Attached
  <2>3. CASE w.id # None
    <3>1. w.id \in Firewalls
      BY <1>3, <2>3 DEF Annotations, Firewalls
    <3>2. CASE f = w.id
      <4>1. Return(b, TRUE) /\ A = {w.id}
        BY <1>4, <1>9, <2>1, <2>3, <3>2
      <4>2. w = want[b] => Enforced(b)
        BY <1>2, <2>3, <4>1, SMTT(30) DEF Enforced
      <4> QED BY <1>8, <4>1, <4>2
    <3>3. CASE f # w.id
      <4>1. Goto(b, "attach", f, w.id)
        BY <1>4, <1>9, <2>3, <3>3, SMTT(30)
      <4>2. KnowsAt(b, "attach", w, f, w.id)
        BY <1>2, <1>3, <2>1, <2>2, <2>3, <3>3, SMTT(30) DEF KnowsAt, Asked
      <4>3. b \notin settled
        BY <1>2, <1>3, <2>1, <2>2, <2>3, <3>3 DEF Enforced
      <4> QED BY <1>1, <1>4, <1>6, <2>2, <3>1, <4>1, <4>2, <4>3, ReadGoes DEF Calls
    <3> QED BY <3>2, <3>3
  <2>4. CASE w.id = None /\ w.acl # None
    <3>1. CASE A = {}
      <4>1. Goto(b, "create", old, new)
        BY <1>4, <1>9, <2>4, <3>1
      <4>2. KnowsAt(b, "create", w, old, new)
        BY <1>2, <1>3, <2>4, <3>1 DEF KnowsAt, OnlyACL
      <4>3. b \notin settled
        BY <1>2, <1>3, <2>4, <3>1 DEF Enforced
      <4> QED BY <1>1, <1>3, <1>4, <1>6, <4>1, <4>2, <4>3, ReadGoes DEF Calls
    <3>2. CASE A # {} /\ rules[f] = w.acl
      <4>1. Return(b, TRUE) /\ A = {f} /\ f \in Firewalls
        BY <1>4, <1>9, <2>1, <2>2, <2>4, <3>2
      <4>2. w = want[b] => Enforced(b)
        BY <1>2, <2>4, <3>2, <4>1 DEF Enforced
      <4> QED BY <1>8, <4>1, <4>2
    <3>3. CASE A # {} /\ rules[f] # w.acl
      <4>1. Goto(b, "rules", f, None)
        BY <1>4, <1>9, <2>4, <3>3, SMTT(30)
      <4>2. KnowsAt(b, "rules", w, f, None)
        BY <1>2, <1>3, <2>1, <2>4, <3>3 DEF KnowsAt, OnlyACL
      <4> QED BY <1>1, <1>4, <1>6, <2>2, <4>1, <4>2, ReadGoes, SMTT(30) DEF Calls
    <3> QED BY <3>1, <3>2, <3>3, SMTT(30)
  <2>5. CASE w.id = None /\ w.acl = None
    <3>1. CASE A = {}
      <4>1. Return(b, TRUE)
        BY <1>4, <1>9, <2>5, <3>1
      <4>2. w = want[b] => Enforced(b)
        BY <1>2, <2>5, <3>1, SMTT(30) DEF Enforced
      <4> QED BY <1>8, <4>1, <4>2
    <3>2. CASE A # {}
      <4>1. Goto(b, "detach", f, None)
        BY <1>4, <1>9, <2>5, <3>2
      <4>2. KnowsAt(b, "detach", w, f, None)
        BY <1>2, <1>3, <2>1, <2>2, <2>5, <3>2, SMTT(30) DEF KnowsAt, Nothing
      <4>3. b \notin settled
        BY <1>2, <1>3, <2>5, <3>2, SMTT(30) DEF Enforced
      <4> QED BY <1>1, <1>4, <1>6, <2>2, <4>1, <4>2, <4>3, ReadGoes DEF Calls
    <3> QED BY <3>1, <3>2
  <2> QED BY <2>3, <2>4, <2>5
<1> QED BY <1>4, <1>7, <1>9

\* The firewall is new: it has no device, and no balancer it.
LEMMA CreateFirewallKeeps ==
  ASSUME IInv, NEW b \in Balancers, CreateFirewall(b)
  PROVE  IInv'
<1>1. PICK w, old, new : Working(b, "create", w, old, new)
  BY AtWork, SMTT(30) DEF CreateFirewall, At, Calls
<1>2. /\ w \in Wants /\ w \in Annotations /\ OnlyACL(w) /\ Attached(b) = {}
      /\ phase[b] \in {"new", "live"} /\ b \notin settled /\ task[b].want = w
  BY <1>1 DEF Working, KnowsAt, InPhaseAt, RestAt
<1>3. PICK f \in OwnFirewalls \ firewalls :
        /\ firewalls' = firewalls \cup {f}
        /\ rules' = [rules EXCEPT ![f] = w.acl]
        /\ Goto(b, IF phase[b] = "new" THEN "balancer" ELSE "attach", None, f)
  BY <1>2 DEF CreateFirewall
<1>4. UNCHANGED <<want, phase, devices, failures, edits>>
  BY DEF CreateFirewall
<1>5. f \in Firewalls /\ f # None
  BY NoneAssumption DEF Firewalls
<1>6. /\ devices \subseteq firewalls \X (Balancers \cup {Other})
      /\ rules \in [Firewalls -> ACLs \cup {None}]
  BY DEF IInv, TypeOK
<1>7. (\A c : Attached(c)' = Attached(c)) /\ DevicesOf(f)' = {}
  BY <1>3, <1>4, <1>6 DEF Attached, DevicesOf
<1>8. /\ rules' \in [Firewalls -> ACLs \cup {None}] /\ rules'[f] = w.acl
      /\ \A g \in Firewalls \ {f} : rules'[g] = rules[g]
  BY <1>2, <1>3, <1>5, <1>6, SMTT(30) DEF Annotations
<1>9. Kept
  <2>1. OwnSole'
    BY <1>4 DEF OwnSole, IInv
  <2> QED BY <1>3, <1>4, <1>5, <1>6, <1>8, <2>1 DEF Kept, IInv, TypeOK, Phases
<1>10. Local(b)
  <2>1. \A c : \A g \in OwnFirewalls \cap Attached(c) : g # f /\ g \in Firewalls
    BY <1>3 DEF Attached, Firewalls
  <2> QED BY <1>4, <1>7, <1>8, <2>1 DEF Local
<1>11. Asked(w, f)'
  BY <1>2, <1>3, <1>7, <1>8, SMTT(30) DEF Asked, OnlyACL
<1>12. CASE phase[b] = "new"
  <2>1. Goto(b, "balancer", None, f)
    BY <1>3, <1>12
  <2>2. InPhaseAt(b, "balancer")'
    BY <1>2, <1>4, <1>7, <1>12 DEF InPhaseAt, Updating, Deleting
  <2>3. KnowsAt(b, "balancer", w, None, f)'
    BY <1>2, <1>11, SMTT(30) DEF KnowsAt
  <2> QED BY <1>1, <1>2, <1>5, <1>9, <1>10, <2>1, <2>2, <2>3, Goes DEF Calls
<1>13. CASE phase[b] = "live"
  <2>1. Goto(b, "attach", None, f)
    BY <1>3, <1>13
  <2>2. InPhaseAt(b, "attach")'
    BY <1>4, <1>13, SMTT(30) DEF InPhaseAt, Updating, Deleting
  <2>3. KnowsAt(b, "attach", w, None, f)'
    BY <1>2, <1>5, <1>7, <1>11 DEF KnowsAt
  <2> QED BY <1>1, <1>2, <1>5, <1>9, <1>10, <2>1, <2>2, <2>3, Goes DEF Calls
<1> QED BY <1>2, <1>12, <1>13

\* The new firewall is attached first; the old one, if there is one, is then detached.
LEMMA AttachFirewallKeeps ==
  ASSUME IInv, NEW b \in Balancers, AttachFirewall(b)
  PROVE  IInv'
<1>1. PICK w, old, f : Working(b, "attach", w, old, f)
  BY AtWork, SMTT(30) DEF AttachFirewall, At, Calls
<1>2. /\ w \in Wants /\ w \in Annotations /\ old \in Firewalls \cup {None}
      /\ f \in Firewalls \cup {None} /\ f # None /\ f # old /\ Asked(w, f)
      /\ Attached(b) = {old} \ {None} /\ (old # None => f = w.id)
      /\ b \notin settled /\ phase[b] = "live" /\ task[b].new = f /\ task[b].old = old
  BY <1>1 DEF Working, KnowsAt, InPhaseAt, RestAt, Updating
<1>3. UNCHANGED <<want, phase, firewalls, rules, failures, edits>>
  BY DEF AttachFirewall
<1>4. CASE f \notin firewalls
  <2>1. Return(b, FALSE) /\ UNCHANGED <<want, linode>>
    BY <1>2, <1>3, <1>4 DEF AttachFirewall, linode
  <2>2. failures' \in 0 .. MaxFailures /\ edits' \in 0 .. MaxEdits
    BY <1>3 DEF IInv, TypeOK
  <2> QED BY <1>1, <2>1, <2>2, ReadReturns
<1>5. CASE f \in firewalls
  <2>1. devices' = devices \cup {<<f, b>>}
    BY <1>2, <1>5 DEF AttachFirewall
  <2>2. /\ Attached(b)' = Attached(b) \cup {f}
        /\ \A c \in Balancers \ {b} : Attached(c)' = Attached(c)
        /\ devices' \subseteq firewalls' \X (Balancers \cup {Other})
        /\ OwnSole'
    BY <1>2, <1>3, <1>5, <2>1, Attaches
  <2>3. Kept
    BY <1>3, <2>2 DEF Kept, IInv, TypeOK, Phases
  <2>4. Local(b)
    BY <1>3, <2>2 DEF Local
  <2>5. CASE old = None
    <3>1. Return(b, TRUE)
      BY <1>2, <1>5, <2>5 DEF AttachFirewall
    <3>2. Attached(b)' = {f} /\ f \in Firewalls
      BY <1>2, <2>2, <2>5
    <3>3. w = want[b] => Enforced(b)'
      BY <1>2, <1>3, <3>2, SMTT(30) DEF Enforced, Asked
    <3> QED BY <1>1, <1>2, <1>3, <2>3, <2>4, <3>1, <3>3, Returns
  <2>6. CASE old # None
    <3>1. Goto(b, "detach", old, f)
      BY <1>2, <1>5, <2>6 DEF AttachFirewall, Continue
    <3>2. InPhaseAt(b, "detach")'
      BY <1>2, <1>3 DEF InPhaseAt, Updating, Deleting
    <3>3. Attached(b)' = {old, f} \ {None}
      BY <1>2, <2>2
    <3>4. KnowsAt(b, "detach", w, old, f)'
      BY <1>2, <2>6, <3>3 DEF KnowsAt
    <3> QED BY <1>1, <1>2, <2>3, <2>4, <3>1, <3>2, <3>4, Goes, SMTT(30) DEF Calls
  <2> QED BY <2>5, <2>6
<1> QED BY <1>4, <1>5

\* The old firewall goes; what remains is the new one, or none.
LEMMA DetachFirewallKeeps ==
  ASSUME IInv, NEW b \in Balancers, DetachFirewall(b)
  PROVE  IInv'
<1>1. PICK w, old, f : Working(b, "detach", w, old, f)
  BY AtWork, SMTT(30) DEF DetachFirewall, At, Calls
<1>2. /\ w \in Wants /\ old \in Firewalls \cup {None} /\ f \in Firewalls \cup {None}
      /\ old # None /\ f # old /\ (IF f = None THEN Nothing(w) ELSE f = w.id)
      /\ Attached(b) = {old, f} \ {None} /\ b \notin settled /\ phase[b] = "live"
      /\ task[b].new = f /\ task[b].old = old
  BY <1>1 DEF Working, KnowsAt, InPhaseAt, RestAt, Updating
<1>3. UNCHANGED <<want, phase, firewalls, rules, failures, edits>>
  BY DEF DetachFirewall
<1>4. <<old, b>> \in devices /\ old \in firewalls
  BY <1>2, SMTT(30) DEF Attached
<1>5. devices' = devices \ {<<old, b>>}
  BY <1>2 DEF DetachFirewall
<1>6. Attached(b)' = {f} \ {None}
  <2>1. Attached(b)' = Attached(b) \ {old}
    BY <1>3, <1>5 DEF Attached
  <2> QED BY <1>2, <2>1
<1>7. Kept
  <2>1. OwnSole'
    BY <1>5, Shrinks
  <2> QED BY <1>3, <1>5, <2>1 DEF Kept, IInv, TypeOK, Phases
<1>8. Local(b)
  <2>1. \A c \in Balancers \ {b} : Attached(c)' = Attached(c)
    BY <1>3, <1>5 DEF Attached
  <2> QED BY <1>3, <2>1 DEF Local
<1>9. CASE f # None
  <2>1. Return(b, TRUE)
    BY <1>2, <1>4, <1>9 DEF DetachFirewall
  <2>2. w = want[b] => Enforced(b)'
    BY <1>2, <1>3, <1>6, <1>9, SMTT(30) DEF Enforced
  <2> QED BY <1>1, <1>2, <1>3, <1>7, <1>8, <2>1, <2>2, Returns
<1>10. CASE f = None
  <2>1. Goto(b, "devices", old, f)
    BY <1>2, <1>4, <1>10 DEF DetachFirewall, Continue
  <2>2. InPhaseAt(b, "devices")'
    BY <1>2, <1>3, SMTT(30) DEF InPhaseAt, Updating, Deleting
  <2>3. KnowsAt(b, "devices", w, old, f)'
    BY <1>2, <1>6, <1>10 DEF KnowsAt
  <2> QED BY <1>1, <1>2, <1>7, <1>8, <2>1, <2>2, <2>3, Goes, SMTT(30) DEF Calls
<1> QED BY <1>9, <1>10

\* With other devices the handler is done, without it goes on to delete the firewall.
LEMMA ListDevicesKeeps ==
  ASSUME IInv, NEW b \in Balancers, ListDevices(b)
  PROVE  IInv'
<1>1. PICK w, old, new : Working(b, "devices", w, old, new)
  BY AtWork, SMTT(30) DEF ListDevices, At, Calls
<1>2. /\ w \in Wants /\ old \in Firewalls \cup {None} /\ new \in Firewalls \cup {None}
      /\ Nothing(w) /\ Attached(b) = {} /\ b \notin settled /\ phase[b] = "live"
      /\ task[b].old = old /\ task[b].new = new
  BY <1>1 DEF Working, KnowsAt, InPhaseAt, RestAt, Updating
<1>3. UNCHANGED <<want, linode>> /\ UNCHANGED <<failures, edits>>
  BY DEF ListDevices
<1>4. CASE DevicesOf(old) # {}
  <2>1. Return(b, TRUE)
    BY <1>2, <1>4 DEF ListDevices
  <2>2. w = want[b] => Enforced(b)
    BY <1>2 DEF Enforced, Nothing
  <2>3. failures' \in 0 .. MaxFailures /\ edits' \in 0 .. MaxEdits
    BY <1>3, SMTT(30) DEF IInv, TypeOK
  <2> QED BY <1>1, <1>2, <1>3, <2>1, <2>2, <2>3, ReadReturns
<1>5. CASE DevicesOf(old) = {}
  <2>1. Goto(b, "delete", old, new)
    BY <1>2, <1>5, SMTT(30) DEF ListDevices, Continue
  <2>2. InPhaseAt(b, "delete")
    BY <1>2, SMTT(30) DEF InPhaseAt, Updating, Deleting
  <2>3. KnowsAt(b, "delete", w, old, new)
    BY <1>2, <1>5 DEF KnowsAt
  <2> QED BY <1>1, <1>2, <1>3, <2>1, <2>2, <2>3, ReadGoes, SMTT(30) DEF Calls
<1> QED BY <1>4, <1>5, SMTT(30)

\* A firewall without a device is no other balancer's.
LEMMA DeleteEmptyFirewallKeeps ==
  ASSUME IInv, NEW b \in Balancers, DeleteEmptyFirewall(b)
  PROVE  IInv'
<1>1. PICK w, old, new : Working(b, "delete", w, old, new)
  BY AtWork, SMTT(30) DEF DeleteEmptyFirewall, At, Calls
<1>2. /\ Nothing(w) /\ Attached(b) = {} /\ DevicesOf(old) = {} /\ phase[b] = "live"
      /\ task[b].old = old
  BY <1>1 DEF Working, KnowsAt, InPhaseAt, Updating
<1>3. UNCHANGED <<want, phase, rules, failures, edits>>
  BY SMTT(30) DEF DeleteEmptyFirewall
<1>4. /\ firewalls' = firewalls \ {old} /\ devices' = {d \in devices : d[1] # old}
      /\ Return(b, old \in firewalls)
  BY <1>2, SMTT(30) DEF DeleteEmptyFirewall
<1>5. /\ firewalls' \subseteq Firewalls
      /\ devices' \subseteq firewalls' \X (Balancers \cup {Other})
      /\ OwnSole'
      /\ \A c \in Balancers \ {b} : Attached(c)' = Attached(c)
  BY <1>2, <1>4, FirewallGoes
<1>6. Attached(b)' = {}
  BY <1>2, <1>4 DEF Attached
<1>7. Kept
  BY <1>3, <1>5 DEF Kept, IInv, TypeOK, Phases
<1>8. Local(b)
  BY <1>3, <1>5 DEF Local
<1>9. w = want[b] => Enforced(b)'
  BY <1>2, <1>3, <1>6 DEF Enforced, Nothing
<1>10. Return(b, TRUE) \/ Return(b, FALSE)
  BY <1>4 DEF Return
<1> QED BY <1>1, <1>2, <1>3, <1>7, <1>8, <1>9, <1>10, Returns

\* The rules are those of a firewall of b, and if it is one of the CCM's of no other.
LEMMA UpdateRulesKeeps ==
  ASSUME IInv, NEW b \in Balancers, UpdateRules(b)
  PROVE  IInv'
<1>1. PICK w, old, new : Working(b, "rules", w, old, new)
  BY AtWork, SMTT(30) DEF UpdateRules, At, Calls
<1>2. /\ w \in Annotations /\ OnlyACL(w) /\ Attached(b) = {old} /\ phase[b] = "live"
      /\ task[b].old = old /\ task[b].want = w
  BY <1>1 DEF Working, KnowsAt, InPhaseAt, Updating
<1>3. UNCHANGED <<want, phase, firewalls, devices, failures, edits>>
  BY DEF UpdateRules
<1>4. old \in firewalls /\ old \in Firewalls /\ <<old, b>> \in devices
  BY <1>2 DEF Attached, IInv, TypeOK
<1>5. rules' = [rules EXCEPT ![old] = w.acl] /\ Return(b, TRUE)
  BY <1>2, <1>4 DEF UpdateRules
<1>6. /\ rules' \in [Firewalls -> ACLs \cup {None}] /\ rules'[old] = w.acl
      /\ \A g \in Firewalls \ {old} : rules'[g] = rules[g]
  BY <1>2, <1>4, <1>5 DEF IInv, TypeOK, Annotations
<1>7. \A c : Attached(c)' = Attached(c)
  BY <1>3 DEF Attached
<1>8. Kept
  <2>1. OwnSole'
    BY <1>3, Shrinks, SMTT(30)
  <2> QED BY <1>3, <1>6, <2>1 DEF Kept, IInv, TypeOK, Phases
<1>9. Local(b)
  <2>1. ASSUME NEW c \in Balancers \ {b}, NEW g \in OwnFirewalls \cap Attached(c)
        PROVE  rules'[g] = rules[g]
    <3>1. g # old
      BY <1>4 DEF IInv, OwnSole, Attached
    <3> QED BY <1>6, <3>1 DEF Firewalls
  <2> QED BY <1>3, <1>7, <2>1 DEF Local
<1>10. w = want[b] => Enforced(b)'
  BY <1>2, <1>3, <1>4, <1>6, <1>7 DEF Enforced, OnlyACL
<1> QED BY <1>1, <1>2, <1>3, <1>5, <1>8, <1>9, <1>10, Returns

-----------------------------------------------------------------------------

\* The start of a handler, the creation and deletion of a NodeBalancer, failures and
\* edits.

\* A handler starts only when no other is at work.
LEMMA BeginKeeps ==
  ASSUME OneWorker, IInv, NEW b \in Balancers, Begin(b)
  PROVE  IInv'
<1> DEFINE S == {x \in Balancers : task[x].pc # "idle"}
<1>1. S = {}
  <2>1. IsFiniteSet(S)
    BY FiniteAssumption, FS_Subset
  <2>2. Cardinality(S) \in Nat /\ Cardinality(S) < 1
    BY <2>1, FS_CardinalityType DEF Begin, OneWorker
  <2> QED BY <2>1, <2>2, FS_EmptySet, SMT
<1>2. PICK pc, w, new : /\ pc = FirstCall(b) /\ w = want[b]
                        /\ new = IF phase[b] = "new" THEN want[b].id ELSE None
  OBVIOUS
<1>3. w \in Annotations /\ w \in Wants
  BY <1>2, WantsAssumption DEF IInv, TypeOK
<1>4. pc \in Calls /\ new \in Firewalls \cup {None}
  BY <1>2, <1>3 DEF FirstCall, Calls, Annotations, Firewalls
<1>5. /\ task' = [task EXCEPT ![b] = Job(pc, w, None, new)]
      /\ UNCHANGED <<want, linode>> /\ UNCHANGED <<settled, failures, edits>>
  BY <1>2 DEF Begin
<1>6. Kept /\ Local(b)
  <2>1. failures' \in 0 .. MaxFailures /\ edits' \in 0 .. MaxEdits
    BY <1>5 DEF IInv, TypeOK
  <2> QED BY <1>5, <2>1, Reads
<1>7. phase[b] \in Phases \ {"gone"} /\ (phase[b] = "new" => Attached(b) = {})
  BY DEF IInv, TypeOK, Phases, Begin, InPhase, InPhaseAt
<1>8. InPhaseAt(b, pc)
  BY <1>2, <1>7 DEF InPhaseAt, Updating, Deleting, FirstCall, Phases
<1>9. KnowsAt(b, pc, w, None, new)
  <2>1. CASE phase[b] = "new"
    BY <1>2, <1>3, <1>7, <2>1 DEF KnowsAt, FirstCall, OnlyACL, Asked
  <2>2. CASE phase[b] # "new"
    BY <1>2, <1>3, <2>2 DEF KnowsAt, FirstCall
  <2> QED BY <2>1, <2>2
<1>10. RestAt(b, pc, w)
  <2>1. b \in settled => phase[b] # "new" /\ (phase[b] = "live" => Enforced(b))
    BY DEF IInv, Rest, RestAt
  <2> QED BY <1>2, <2>1 DEF RestAt, FirstCall
<1>11. InPhaseAt(b, pc)' /\ KnowsAt(b, pc, w, None, new)' /\ (Enforced(b)' <=> Enforced(b))
  BY <1>5, <1>8, <1>9, ReadsAt
<1>12. RestAt(b, pc, w)'
  BY <1>5, <1>10, <1>11 DEF RestAt, linode
<1>13. Lone(b)
  BY <1>1 DEF Lone
<1> QED BY <1>3, <1>4, <1>5, <1>6, <1>11, <1>12, <1>13, Step

\* The balancer is made with the firewall the annotations ask for.
LEMMA CreateBalancerKeeps ==
  ASSUME IInv, NEW b \in Balancers, CreateBalancer(b)
  PROVE  IInv'
<1>1. PICK w, old, f : Working(b, "balancer", w, old, f)
  BY AtWork DEF CreateBalancer, At, Calls
<1>2. w \in Annotations /\ Asked(w, f) /\ Attached(b) = {} /\ phase[b] = "new" /\ task[b].new = f
  BY <1>1 DEF Working, KnowsAt, InPhaseAt
<1>3. UNCHANGED <<want, firewalls, rules, failures, edits>>
  BY DEF CreateBalancer
<1>4. CASE f \notin firewalls \cup {None}
  <2>1. Return(b, FALSE) /\ UNCHANGED <<want, linode>>
    BY <1>2, <1>3, <1>4 DEF CreateBalancer, linode
  <2>2. failures' \in 0 .. MaxFailures /\ edits' \in 0 .. MaxEdits
    BY <1>3 DEF IInv, TypeOK
  <2> QED BY <1>1, <2>1, <2>2, ReadReturns
<1>5. CASE f \in firewalls \cup {None}
  <2>1. /\ phase' = [phase EXCEPT ![b] = "live"] /\ Return(b, TRUE)
        /\ devices' = devices \cup ({<<f, b>>} \ {<<None, b>>})
    BY <1>2, <1>5 DEF CreateBalancer
  <2>2. /\ phase' \in [Balancers -> Phases] /\ phase'[b] = "live"
        /\ \A c \in Balancers \ {b} : phase'[c] = phase[c]
    BY <2>1 DEF IInv, TypeOK, Phases
  <2>3. /\ Attached(b)' = {f} \ {None}
        /\ \A c \in Balancers \ {b} : Attached(c)' = Attached(c)
        /\ devices' \subseteq firewalls' \X (Balancers \cup {Other})
        /\ OwnSole'
    <3>1. CASE f = None
      <4>1. devices' = devices
        BY <2>1, <3>1
      <4>2. \A c : Attached(c)' = Attached(c)
        BY <1>3, <4>1 DEF Attached
      <4> QED BY <1>2, <1>3, <3>1, <4>1, <4>2, Shrinks DEF IInv, TypeOK
    <3>2. CASE f # None
      <4>1. devices' = devices \cup {<<f, b>>} /\ f \in firewalls
        BY <1>5, <2>1, <3>2, SMT
      <4>2. /\ Attached(b)' = Attached(b) \cup {f}
            /\ \A c \in Balancers \ {b} : Attached(c)' = Attached(c)
            /\ devices' \subseteq firewalls' \X (Balancers \cup {Other})
            /\ OwnSole'
        BY <1>2, <1>3, <3>2, <4>1, Attaches
      <4> QED BY <1>2, <3>2, <4>2
    <3> QED BY <3>1, <3>2
  <2>4. Kept
    BY <1>3, <2>2, <2>3 DEF Kept, IInv, TypeOK
  <2>5. Local(b)
    BY <1>3, <2>2, <2>3 DEF Local
  <2>6. w = want[b] => Enforced(b)'
    <3>1. None \notin Firewalls /\ firewalls \subseteq Firewalls
      BY NoneAssumption DEF IInv, TypeOK
    <3>2. w.acl # None /\ w.id = None => f \in Firewalls
      BY <1>2 DEF Asked, Firewalls
    <3> QED BY <1>2, <1>3, <1>5, <2>3, <3>1, <3>2 DEF Enforced, Asked
  <2> QED BY <1>1, <2>1, <2>2, <2>4, <2>5, <2>6, Returns
<1> QED BY <1>4, <1>5

\* A handler of a deleted Service that only reads and goes on.
LEMMA LeavingGoes ==
  ASSUME IInv, NEW b \in Balancers, NEW pc \in Deleting, NEW w, NEW old, NEW new,
         Working(b, pc, w, old, new), UNCHANGED <<want, linode>>, UNCHANGED <<failures, edits>>,
         NEW pc2 \in Deleting, NEW old2 \in Firewalls \cup {None},
         NEW new2 \in Firewalls \cup {None}, Goto(b, pc2, old2, new2),
         KnowsAt(b, pc2, w, old2, new2)
  PROVE  IInv'
<1>1. pc2 \in Calls /\ pc2 \notin {"create", "balancer", "attach", "detach", "devices", "delete"}
  BY DEF Deleting, Calls
<1>2. phase[b] = "leaving"
  BY DEF Working, InPhaseAt
<1>3. InPhaseAt(b, pc2)
  BY <1>2 DEF InPhaseAt, Updating, Deleting
<1> QED BY <1>1, <1>3, ReadGoes

\* The clean-up looks for the one firewall of the balancer.
LEMMA CleanupFirewallKeeps ==
  ASSUME IInv, NEW b \in Balancers, CleanupFirewall(b)
  PROVE  IInv'
<1>1. PICK w, old, new : Working(b, "cleanup", w, old, new)
  BY AtWork DEF CleanupFirewall, At, Calls
<1>2. /\ w \in Wants /\ w.acl # None /\ old \in Firewalls \cup {None}
      /\ new \in Firewalls \cup {None} /\ task[b].old = old /\ task[b].new = new
  BY <1>1 DEF Working, KnowsAt
<1>3. PICK A, f : A = Attached(b) /\ f = CHOOSE x \in A : TRUE
  OBVIOUS
<1>4. /\ IF A = {} THEN Goto(b, "release", old, new)
         ELSE IF Cardinality(A) > 1 THEN Return(b, FALSE)
         ELSE Goto(b, "count", f, None)
      /\ UNCHANGED <<want, linode>> /\ UNCHANGED <<failures, edits>>
  BY <1>2, <1>3 DEF CleanupFirewall, Continue
<1>5. CASE A = {}
  <2>1. KnowsAt(b, "release", w, old, new)
    BY <1>2 DEF KnowsAt
  <2> QED BY <1>1, <1>2, <1>4, <1>5, <2>1, LeavingGoes DEF Deleting
<1>6. CASE A # {} /\ Cardinality(A) > 1
  <2>1. failures' \in 0 .. MaxFailures /\ edits' \in 0 .. MaxEdits
    BY <1>4 DEF IInv, TypeOK
  <2> QED BY <1>1, <1>4, <1>6, <2>1, ReadReturns
<1>7. CASE A # {} /\ ~(Cardinality(A) > 1)
  <2>1. f \in A /\ A = {f}
    BY <1>3, <1>7, AtMostOne, Finite, SMT DEF IInv
  <2>2. f \in Firewalls
    BY <1>3, <2>1 DEF Attached, IInv, TypeOK
  <2>3. KnowsAt(b, "count", w, f, None)
    BY <1>2, <1>3, <2>1 DEF KnowsAt
  <2> QED BY <1>1, <1>4, <1>7, <2>2, <2>3, LeavingGoes DEF Deleting
<1> QED BY <1>5, <1>6, <1>7

\* A firewall with one device at most, and that is b's: it is b's alone.
LEMMA CountDevicesKeeps ==
  ASSUME IInv, NEW b \in Balancers, CountDevices(b)
  PROVE  IInv'
<1>1. PICK w, old, new : Working(b, "count", w, old, new)
  BY AtWork DEF CountDevices, At, Calls
<1>2. /\ w \in Wants /\ w.acl # None /\ old \in Firewalls \cup {None}
      /\ new \in Firewalls \cup {None} /\ task[b].old = old /\ task[b].new = new
      /\ Attached(b) = {old}
  BY <1>1 DEF Working, KnowsAt
<1>3. UNCHANGED <<want, linode>> /\ UNCHANGED <<failures, edits>>
  BY DEF CountDevices
<1>4. old \in firewalls /\ b \in DevicesOf(old)
  BY <1>2 DEF Attached, DevicesOf
<1>5. CASE Cardinality(DevicesOf(old)) > 1
  <2>1. Goto(b, "release", old, new)
    BY <1>2, <1>4, <1>5 DEF CountDevices, Continue
  <2>2. KnowsAt(b, "release", w, old, new)
    BY <1>2 DEF KnowsAt
  <2> QED BY <1>1, <1>2, <1>3, <2>1, <2>2, LeavingGoes DEF Deleting
<1>6. CASE ~(Cardinality(DevicesOf(old)) > 1)
  <2>1. Goto(b, "remove", old, new)
    BY <1>2, <1>4, <1>6 DEF CountDevices, Continue
  <2>2. PICK x : DevicesOf(old) = {x}
    BY <1>4, <1>6, AtMostOne, Finite DEF IInv
  <2>3. DevicesOf(old) \subseteq {b}
    BY <1>4, <2>2
  <2>4. KnowsAt(b, "remove", w, old, new)
    BY <1>2, <2>3 DEF KnowsAt
  <2> QED BY <1>1, <1>2, <1>3, <2>1, <2>4, LeavingGoes DEF Deleting
<1> QED BY <1>5, <1>6

\* The firewall that goes is b's alone.
LEMMA RemoveFirewallKeeps ==
  ASSUME IInv, NEW b \in Balancers, RemoveFirewall(b)
  PROVE  IInv'
<1>1. PICK w, old, new : Working(b, "remove", w, old, new)
  BY AtWork DEF RemoveFirewall, At, Calls
<1>2. /\ w \in Wants /\ old \in Firewalls \cup {None} /\ new \in Firewalls \cup {None}
      /\ DevicesOf(old) \subseteq {b} /\ phase[b] = "leaving"
      /\ (b \in settled => w = want[b]) /\ task[b].old = old /\ task[b].new = new
  BY <1>1 DEF Working, KnowsAt, InPhaseAt, RestAt, Deleting
<1>3. UNCHANGED <<want, phase, rules, failures, edits>>
  BY DEF RemoveFirewall
<1>4. firewalls' = firewalls \ {old} /\ devices' = {d \in devices : d[1] # old}
  BY <1>2 DEF RemoveFirewall
<1>5. /\ firewalls' \subseteq Firewalls
      /\ devices' \subseteq firewalls' \X (Balancers \cup {Other})
      /\ OwnSole'
      /\ \A c \in Balancers \ {b} : Attached(c)' = Attached(c)
  BY <1>2, <1>4, FirewallGoes
<1>6. Kept
  BY <1>3, <1>5 DEF Kept, IInv, TypeOK, Phases
<1>7. Local(b)
  BY <1>3, <1>5 DEF Local
<1>8. CASE old \notin firewalls
  <2>1. Return(b, FALSE)
    BY <1>2, <1>8 DEF RemoveFirewall
  <2> QED BY <1>1, <1>2, <1>3, <1>6, <1>7, <2>1, Returns
<1>9. CASE old \in firewalls
  <2>1. Goto(b, "release", old, new)
    BY <1>2, <1>9 DEF RemoveFirewall, Continue
  <2>2. InPhaseAt(b, "release")'
    BY <1>2, <1>3 DEF InPhaseAt, Updating, Deleting
  <2>3. KnowsAt(b, "release", w, old, new)'
    BY <1>2 DEF KnowsAt
  <2>4. b \in settled => RestAt(b, "release", w)'
    BY <1>2, <1>3 DEF RestAt
  <2> QED BY <1>1, <1>2, <1>6, <1>7, <2>1, <2>2, <2>3, <2>4, Goes, SMTT(30) DEF Calls
<1> QED BY <1>8, <1>9

\* The balancer goes with its devices.
LEMMA DeleteBalancerKeeps ==
  ASSUME IInv, NEW b \in Balancers, DeleteBalancer(b)
  PROVE  IInv'
<1>1. PICK w, old, new : Working(b, "release", w, old, new)
  BY AtWork DEF DeleteBalancer, At, Calls
<1>2. UNCHANGED <<want, firewalls, rules, failures, edits>> /\ Return(b, TRUE)
  BY DEF DeleteBalancer
<1>3. phase' = [phase EXCEPT ![b] = "gone"] /\ devices' = {d \in devices : d[2] # b}
  BY DEF DeleteBalancer
<1>4. /\ phase' \in [Balancers -> Phases] /\ phase'[b] = "gone"
      /\ \A c \in Balancers \ {b} : phase'[c] = phase[c]
  BY <1>3 DEF IInv, TypeOK, Phases
<1>5. \A c \in Balancers \ {b} : Attached(c)' = Attached(c)
  BY <1>2, <1>3 DEF Attached
<1>6. Kept
  <2>1. OwnSole'
    BY <1>3, Shrinks
  <2> QED BY <1>2, <1>3, <1>4, <2>1 DEF Kept, IInv, TypeOK
<1>7. Local(b)
  BY <1>2, <1>4, <1>5 DEF Local
<1> QED BY <1>1, <1>2, <1>4, <1>6, <1>7, Returns

\* A handler may stop anywhere.
LEMMA CallFailsKeeps ==
  ASSUME IInv, NEW b \in Balancers, CallFails(b)
  PROVE  IInv'
<1>1. PICK pc \in Calls : task[b].pc = pc
  BY CallsAssumption DEF CallFails
<1>2. PICK w, old, new : Working(b, pc, w, old, new)
  BY <1>1, AtWork
<1>3. Return(b, FALSE) /\ UNCHANGED <<want, linode>>
  BY DEF CallFails
<1>4. failures' \in 0 .. MaxFailures /\ edits' \in 0 .. MaxEdits
  BY BoundsAssumption, SMT DEF CallFails, IInv, TypeOK
<1> QED BY <1>2, <1>3, <1>4, ReadReturns

\* The handler at work has the annotations it read; the Service is not settled.
LEMMA EditKeeps ==
  ASSUME IInv, NEW b \in Balancers, Edit(b)
  PROVE  IInv'
<1>1. UNCHANGED <<firewalls, devices, rules, task, failures>> /\ settled' = settled \ {b}
  BY DEF Edit
<1>2. edits' \in 0 .. MaxEdits
  BY BoundsAssumption, SMT DEF Edit, IInv, TypeOK
<1>3. want' \in [Balancers -> Wants] /\ phase' \in [Balancers -> Phases]
  BY DEF Edit, IInv, TypeOK, Phases
<1>4. \A c \in Balancers \ {b} : want'[c] = want[c] /\ phase'[c] = phase[c]
  BY DEF Edit, IInv, TypeOK
<1>5. phase'[b] = phase[b] \/ (phase'[b] = "leaving" /\ task[b].pc = "idle")
  BY DEF Edit, IInv, TypeOK, At
<1>6. TypeOK' /\ Alone' /\ OwnSole'
  BY <1>1, <1>2, <1>3 DEF IInv, TypeOK, Alone, OwnSole, Phases
<1>7. ASSUME NEW c \in Balancers PROVE InPhase(c)' /\ Knows(c)' /\ Rest(c)'
  <2>1. InPhase(c) /\ Knows(c) /\ Rest(c)
    BY DEF IInv
  <2>2. phase'[c] = phase[c] \/ (phase'[c] = "leaving" /\ task[c].pc = "idle")
    BY <1>4, <1>5
  <2>3. PICK pc, w, old, new : /\ pc = task[c].pc /\ w = task[c].want
                               /\ old = task[c].old /\ new = task[c].new
    OBVIOUS
  <2>4. InPhaseAt(c, pc) /\ KnowsAt(c, pc, w, old, new) /\ RestAt(c, pc, w)
    BY <2>1, <2>3 DEF InPhase, Knows, Rest
  <2>5. Attached(c)' = Attached(c) /\ KnowsAt(c, pc, w, old, new)'
    BY <1>1, <2>4, KnowsStill, SMTT(30)
  <2>6. InPhaseAt(c, pc)'
    BY <2>2, <2>3, <2>4, <2>5 DEF InPhaseAt, Updating, Deleting
  <2>7. RestAt(c, pc, w)'
    <3>1. CASE c = b
      BY <1>1, <3>1, SMTT(30) DEF RestAt
    <3>2. CASE c # b
      BY <1>1, <1>4, <2>4, <2>5, <3>2 DEF RestAt, Enforced
    <3> QED BY <3>1, <3>2
  <2> QED BY <1>1, <2>3, <2>5, <2>6, <2>7, Told
<1> QED BY <1>6, <1>7 DEF IInv

\* A step that changes nothing.
LEMMA StutterKeeps ==
  ASSUME IInv, UNCHANGED vars
  PROVE  IInv'
<1>1. UNCHANGED <<want, linode>> /\ UNCHANGED <<task, settled, failures, edits>>
  BY DEF vars, linode
<1>2. TypeOK' /\ Alone' /\ OwnSole'
  BY <1>1 DEF IInv, TypeOK, Alone, OwnSole, linode
<1>3. ASSUME NEW b \in Balancers PROVE InPhase(b)' /\ Knows(b)' /\ Rest(b)'
  <2>1. InPhase(b) /\ Knows(b) /\ Rest(b)
    BY DEF IInv
  <2>2. PICK pc, w, old, new : /\ pc = task[b].pc /\ w = task[b].want
                               /\ old = task[b].old /\ new = task[b].new
    OBVIOUS
  <2>3. InPhaseAt(b, pc) /\ KnowsAt(b, pc, w, old, new) /\ RestAt(b, pc, w)
    BY <2>1, <2>2 DEF InPhase, Knows, Rest
  <2>4. InPhaseAt(b, pc)' /\ KnowsAt(b, pc, w, old, new)' /\ (Enforced(b)' <=> Enforced(b))
    BY <1>1, <2>3, ReadsAt
  <2>5. RestAt(b, pc, w)'
    BY <1>1, <2>3, <2>4 DEF RestAt, linode
  <2> QED BY <1>1, <2>2, <2>4, <2>5, Told
<1> QED BY <1>2, <1>3 DEF IInv

-----------------------------------------------------------------------------
\* All of Next.
LEMMA Inductive ==
  ASSUME OneWorker, IInv, [Next]_vars
  PROVE  IInv'
<1>1. CASE Next
  <2>1. PICK b \in Balancers : Handle(b) \/ CallFails(b) \/ Edit(b)
    BY <1>1 DEF Next
  <2> QED BY <2>1, BeginKeeps, ListFirewallsKeeps, CreateFirewallKeeps, AttachFirewallKeeps,
             DetachFirewallKeeps, ListDevicesKeeps, DeleteEmptyFirewallKeeps, UpdateRulesKeeps,
             CreateBalancerKeeps, CleanupFirewallKeeps, CountDevicesKeeps,
             RemoveFirewallKeeps, DeleteBalancerKeeps, CallFailsKeeps, EditKeeps,
             SMTT(30) DEF Handle
<1> QED BY <1>1, StutterKeeps

\* At the start nothing is attached to a balancer and nobody is at work.
LEMMA Initially ==
  ASSUME Init
  PROVE  IInv
<1>1. TypeOK
  BY BoundsAssumption, SMT DEF Init, TypeOK, Idle, Job, Annotations, Firewalls
<1>2. \A b \in Balancers : task[b].pc = "idle" /\ b \notin settled
  BY DEF Init, Idle, Job
<1>3. \A f, c : <<f, c>> \in devices => f \in UserFirewalls /\ c = Other
  BY DEF Init
<1>4. \A b \in Balancers : Attached(b) = {}
  BY <1>3, OtherAssumption, SMT DEF Attached
<1>5. OwnSole
  BY <1>3, SMTT(30) DEF OwnSole
<1>6. \A b \in Balancers : InPhase(b) /\ Knows(b) /\ Rest(b)
  BY <1>2, <1>4 DEF InPhase, InPhaseAt, Knows, KnowsAt, Rest, RestAt, Updating, Deleting
<1> QED BY <1>1, <1>2, <1>5, <1>6 DEF IInv, Alone

\* The invariant holds of every behaviour.
LEMMA Invariance == ASSUME OneWorker PROVE Spec => []IInv
<1>1. Init => IInv
  BY Initially
<1>2. IInv /\ [Next]_vars => IInv'
  BY Inductive
<1> QED BY <1>1, <1>2, PTL DEF Spec

-----------------------------------------------------------------------------
\* Theorems.

\* SettledIsEnforced: with one worker, and whatever calls fail and whenever the
\* annotations change, a handler that returned without error has left the balancer with
\* the firewalls its Service's annotations ask for.
THEOREM Settled == ASSUME OneWorker PROVE Spec => []SettledIsEnforced
<1>1. IInv => SettledIsEnforced
  BY DEF IInv, TypeOK, Rest, RestAt, SettledIsEnforced
<1> QED BY <1>1, Invariance, PTL

\* What a step takes from a balancer.
LEMMA Takes ==
  ASSUME IInv, NEW b \in Balancers, NEW c \in Balancers,
         Handle(c) \/ CallFails(c) \/ Edit(c), Attached(b) # {}, Attached(b)' = {}
  PROVE  phase[b] = "leaving" \/ (task[b].pc = "detach" /\ Nothing(task[b].want))
<1>1. CASE UNCHANGED <<firewalls, devices>>
  BY <1>1 DEF Attached
<1>2. CASE CreateFirewall(c)
  BY <1>2 DEF CreateFirewall, Attached
<1>3. CASE AttachFirewall(c)
  BY <1>3 DEF AttachFirewall, Attached
<1>4. CASE CreateBalancer(c)
  BY <1>4 DEF CreateBalancer, Attached
<1>5. CASE DetachFirewall(c)
  <2>1. task[c].pc = "detach" /\ devices' = devices \ {<<task[c].old, c>>} /\ firewalls' = firewalls
    BY <1>5 DEF DetachFirewall, At
  <2>2. c = b
    BY <2>1 DEF Attached
  <2>3. PICK w, old, new : Working(b, "detach", w, old, new)
    BY <2>1, <2>2, AtWork, SMTT(30) DEF Calls
  <2>4. /\ task[b].want = w /\ task[b].old = old /\ new # old
        /\ (IF new = None THEN Nothing(w) ELSE new \in Attached(b))
    BY <2>3 DEF Working, KnowsAt
  <2>5. new \in Attached(b) => new \in Attached(b)'
    BY <2>1, <2>2, <2>4 DEF Attached
  <2> QED BY <2>1, <2>2, <2>4, <2>5
<1>6. CASE DeleteEmptyFirewall(c)
  <2>1. task[c].pc = "delete" /\ firewalls' = firewalls \ {task[c].old}
        /\ devices' = {d \in devices : d[1] # task[c].old}
    BY <1>6, SMTT(30) DEF DeleteEmptyFirewall, At
  <2>2. DevicesOf(task[c].old) = {}
    <3>1. PICK w, old, new : Working(c, "delete", w, old, new)
      BY <2>1, AtWork, SMTT(30) DEF Calls
    <3> QED BY <3>1, SMTT(30) DEF Working, KnowsAt
  <2> QED BY <2>1, <2>2 DEF Attached, DevicesOf
<1>7. CASE RemoveFirewall(c)
  <2>1. task[c].pc = "remove" /\ firewalls' = firewalls \ {task[c].old}
        /\ devices' = {d \in devices : d[1] # task[c].old}
    BY <1>7, SMTT(30) DEF RemoveFirewall, At
  <2>2. DevicesOf(task[c].old) \subseteq {c} /\ phase[c] = "leaving"
    <3>1. PICK w, old, new : Working(c, "remove", w, old, new)
      BY <2>1, AtWork, SMTT(30) DEF Calls
    <3> QED BY <3>1 DEF Working, KnowsAt, InPhaseAt, Deleting
  <2> QED BY <2>1, <2>2, FirewallGoes, SMTT(30)
<1>8. CASE DeleteBalancer(c)
  <2>1. task[c].pc = "release" /\ devices' = {d \in devices : d[2] # c} /\ firewalls' = firewalls
    BY <1>8, SMTT(30) DEF DeleteBalancer, At
  <2>2. phase[c] = "leaving"
    <3>1. PICK w, old, new : Working(c, "release", w, old, new)
      BY <2>1, AtWork DEF Calls
    <3> QED BY <3>1 DEF Working, InPhaseAt, Deleting
  <2>3. c = b
    BY <2>1 DEF Attached
  <2> QED BY <2>2, <2>3, SMTT(30)
<1> QED BY <1>1, <1>2, <1>3, <1>4, <1>5, <1>6, <1>7, <1>8
        DEF Handle, Begin, ListFirewalls, ListDevices, UpdateRules, CleanupFirewall,
            CountDevices, CallFails, Edit, linode

\* NeverExposed: with one worker, a balancer with a firewall gets without one only when
\* its own Service asks for none or is deleted, however changes of firewalls and failing
\* calls interleave.
THEOREM Covered == ASSUME OneWorker PROVE Spec => NeverExposed
<1>1. IInv /\ [Next]_vars =>
        [\A b \in Balancers :
           Attached(b) # {} /\ Attached(b)' = {} =>
             \/ phase[b] = "leaving"
             \/ task[b].pc = "detach" /\ task[b].want.id = None /\ task[b].want.acl = None]_vars
  BY Takes DEF Next, Nothing
<1> QED BY <1>1, Invariance, PTL DEF Spec, NeverExposed

\* OnlyLoneDeleted: with one worker and no Service with both annotations, the CCM deletes
\* only firewalls that nothing but the balancer at hand is attached to, and none that the
\* Service names by its ID.
THEOREM LoneDeleted == ASSUME OneWorker, NeverBoth PROVE Spec => OnlyLoneDeleted
<1>1. ASSUME IInv, NEW c \in Balancers, Handle(c) \/ CallFails(c) \/ Edit(c),
             NEW f \in firewalls \ firewalls'
      PROVE  task[c].old = f /\ DevicesOf(f) \subseteq {c} /\ task[c].want.id # f
  <2>1. f # None
    BY <1>1, NoneAssumption, SMTT(30) DEF IInv, TypeOK
  <2>2. CASE DeleteEmptyFirewall(c)
    <3>1. task[c].pc = "delete" /\ f = task[c].old
      BY <2>2, SMTT(30) DEF DeleteEmptyFirewall, At
    <3>2. PICK w, old, new : Working(c, "delete", w, old, new)
      BY <1>1, <3>1, AtWork, SMTT(30) DEF Calls
    <3> QED BY <2>1, <3>1, <3>2, SMTT(30) DEF Working, KnowsAt, Nothing
  <2>3. CASE RemoveFirewall(c)
    <3>1. task[c].pc = "remove" /\ f = task[c].old
      BY <2>3, SMTT(30) DEF RemoveFirewall, At
    <3>2. PICK w, old, new : Working(c, "remove", w, old, new)
      BY <1>1, <3>1, AtWork DEF Calls
    <3> QED BY <2>1, <3>1, <3>2, SMTT(30) DEF Working, KnowsAt, NeverBoth
  <2>4. CASE ~DeleteEmptyFirewall(c) /\ ~RemoveFirewall(c)
    <3>1. firewalls \subseteq firewalls'
      BY <1>1, <2>4 DEF Handle, Begin, ListFirewalls, CreateFirewall, AttachFirewall,
         DetachFirewall, ListDevices, UpdateRules, CreateBalancer, CleanupFirewall,
         CountDevices, DeleteBalancer, CallFails, Edit, linode
    <3> QED BY <3>1
  <2> QED BY <2>2, <2>3, <2>4
<1>2. IInv /\ [Next]_vars =>
        [\A f \in firewalls \ firewalls' :
           \E b \in Balancers :
             task[b].old = f /\ DevicesOf(f) \subseteq {b} /\ task[b].want.id # f]_vars
  BY <1>1 DEF Next
<1> QED BY <1>2, Invariance, PTL DEF Spec, OnlyLoneDeleted

-----------------------------------------------------------------------------
\* FirewallRules, the rules that CreateFirewall and UpdateRules write: for any ACLs, ports
\* and limits of the API.

\* chunkIPs.

\* An empty list has no places.
LEMMA EmptyList == DOMAIN <<>> = {}
BY SMT

\* The lists of an ACL are sequences.
LEMMA ListsAreSeqs ==
    ASSUME NEW S, NEW l \in Lists(S), MaxLen \in Nat
    PROVE  l \in Seq(S) /\ (Repeats \/ IsInjective(l))
<1>1. l \in UNION {[1 .. m -> S] : m \in 0 .. MaxLen} /\ (Repeats \/ IsInjective(l))
  BY DEF Lists
<1>2. PICK m \in 0 .. MaxLen : l \in [1 .. m -> S]
  BY <1>1
<1>3. l \in Seq(S)
  BY <1>2, SMT
<1> QED
  BY <1>1, <1>3

\* The numbers up to n.
LEMMA UpTo ==
    ASSUME NEW n \in Nat
    PROVE  IsFiniteSet(1 .. n) /\ Cardinality(1 .. n) = n
<1>1. IsFiniteSet(1 .. n) /\ Cardinality(1 .. n) = IF 1 > n THEN 0 ELSE n - 1 + 1
  BY FS_Interval, SMT
<1> QED
  BY <1>1, SMT

\* Factors are compared like their multiples.
LEMMA MultiplesGrow ==
    ASSUME NEW a \in Int, NEW b \in Int, NEW M \in Nat \ {0}
    PROVE  a <= b <=> a * M <= b * M
BY SMT

\* A number is found by its row and its place in rows of M.
LEMMA RowsUnique ==
    ASSUME NEW M \in Nat \ {0}, NEW a \in Int, NEW b \in Int, NEW i \in 1 .. M, NEW j \in 1 .. M,
           a * M + i = b * M + j
    PROVE  a = b /\ i = j
<1>1. a * M \in Int /\ b * M \in Int
  BY SMT
<1>2. (a + 1) * M = a * M + M /\ (b + 1) * M = b * M + M
  BY SMT
<1>3. a <= b
  <2>1. SUFFICES ASSUME b + 1 <= a PROVE FALSE
    BY SMT
  <2>2. (b + 1) * M <= a * M
    BY <2>1, MultiplesGrow, SMT
  <2> QED
    BY <1>1, <1>2, <2>2, SMT
<1>4. b <= a
  <2>1. SUFFICES ASSUME a + 1 <= b PROVE FALSE
    BY SMT
  <2>2. (a + 1) * M <= b * M
    BY <2>1, MultiplesGrow, SMT
  <2> QED
    BY <1>1, <1>2, <2>2, SMT
<1>5. a = b
  BY <1>3, <1>4, SMT
<1> QED
  BY <1>1, <1>5, SMT

LEMMA RowsCover ==
    ASSUME NEW M \in Nat \ {0}, NEW k \in Nat \ {0}
    PROVE  /\ (k - 1) \div M \in Nat
           /\ ((k - 1) % M) + 1 \in 1 .. M
           /\ k = ((k - 1) \div M) * M + (((k - 1) % M) + 1)
BY SMT

\* How many chunks there are.
LEMMA RowCount ==
    ASSUME NEW M \in Nat \ {0}, NEW L \in Nat, L > M
    PROVE  LET n == (L + M - 1) \div M IN n \in Nat /\ n >= 2 /\ (n - 1) * M < L /\ L <= n * M
<1> DEFINE n == (L + M - 1) \div M
           r == (L + M - 1) % M
<1>1. n \in Int /\ r \in 0 .. M - 1 /\ L + M - 1 = n * M + r
  BY SMT
<1> HIDE DEF n, r
<1>2. (n - 1) * M = n * M - M /\ n * M \in Int /\ 1 * M = M
  BY <1>1, SMT
<1>3. (n - 1) * M < L /\ L <= n * M
  BY <1>1, <1>2, SMT
<1>4. n >= 2
  <2>1. SUFFICES ASSUME n <= 1 PROVE FALSE
    BY <1>1, SMT
  <2>2. n * M <= 1 * M
    BY <1>1, <2>1, MultiplesGrow, SMTT(30)
  <2> QED
    BY <1>2, <1>3, <2>2, SMTT(30)
<1> QED
  BY <1>1, <1>3, <1>4, SMTT(30) DEF n

\* A list cut into lists that are no longer than a rule takes, in which every place of the
\* list occurs once.
Cut(S, ips, c) ==
    /\ c \in Seq(Seq(S)) /\ Len(c) >= 1
    /\ \A i \in 1 .. Len(c) :
         /\ Len(c[i]) <= MaxIPsPerFirewall
         /\ \A j \in 1 .. Len(c[i]) :
              /\ (i - 1) * MaxIPsPerFirewall + j \in 1 .. Len(ips)
              /\ c[i][j] = ips[(i - 1) * MaxIPsPerFirewall + j]
    /\ \A k \in 1 .. Len(ips) :
         \E i \in 1 .. Len(c) : \E j \in 1 .. Len(c[i]) : k = (i - 1) * MaxIPsPerFirewall + j

\* chunkIPs cuts a list so.
LEMMA Chunks ==
    ASSUME NEW S, NEW ips \in Seq(S), MaxIPsPerFirewall \in Nat \ {0}
    PROVE  Cut(S, ips, chunkIPs(ips))
<1> DEFINE M == MaxIPsPerFirewall
           L == Len(ips)
           n == IF L <= M THEN 1 ELSE (L + M - 1) \div M
           From(i) == (i - 1) * M + 1
           To(i) == IF i < n THEN i * M ELSE L
           c == [i \in 1 .. n |-> SubSeq(ips, From(i), To(i))]
<1>1. chunkIPs(ips) = c
  BY DEF chunkIPs
<1>2. L \in Nat /\ M \in Nat \ {0}
  BY SMT
<1>3. n \in Nat /\ n >= 1 /\ (n - 1) * M <= L /\ L <= n * M
  <2>1. CASE L <= M
    <3>1. n = 1
      BY <2>1
    <3>2. (1 - 1) * M = 0 /\ 1 * M = M
      BY <1>2, SMT
    <3> QED
      BY <1>2, <2>1, <3>1, <3>2, SMTT(30)
  <2>2. CASE L > M
    <3>1. n = (L + M - 1) \div M
      BY <1>2, <2>2, SMT
    <3> HIDE DEF n
    <3>2. n \in Nat /\ n >= 2 /\ (n - 1) * M < L /\ L <= n * M
      BY <1>2, <2>2, <3>1, RowCount
    <3> QED
      BY <1>2, <3>2, SMT
  <2> QED
    BY <1>2, <2>1, <2>2, SMTT(30)
<1> HIDE DEF n, M, L
<1>4. ASSUME NEW i \in 1 .. n
      PROVE  /\ (i - 1) * M \in Nat /\ To(i) \in 0 .. L
             /\ (i - 1) * M <= To(i) /\ To(i) <= (i - 1) * M + M
             /\ i < n => To(i) = (i - 1) * M + M
  <2>1. (i - 1) * M \in Int /\ i * M = (i - 1) * M + M /\ i * M \in Int /\ 0 * M = 0
    BY <1>2, <1>3, SMT
  <2>2. (i - 1) * M >= 0
    BY <1>2, <1>3, <2>1, MultiplesGrow, SMTT(30)
  <2>3. CASE i < n
    <3>1. i * M <= (n - 1) * M
      BY <1>2, <1>3, <2>3, MultiplesGrow, SMTT(30)
    <3> QED
      BY <1>2, <1>3, <2>1, <2>2, <2>3, <3>1, SMTT(30)
  <2>4. CASE i = n
    BY <1>2, <1>3, <2>1, <2>2, <2>4, SMTT(30)
  <2> QED
    BY <1>3, <2>3, <2>4, SMTT(30)
<1> HIDE DEF To
<1>5. ASSUME NEW i \in 1 .. n
      PROVE  /\ c[i] \in Seq(S) /\ Len(c[i]) = To(i) - (i - 1) * M
             /\ \A j \in 1 .. Len(c[i]) : (i - 1) * M + j \in 1 .. L /\ c[i][j] = ips[(i - 1) * M + j]
  <2>1. c[i] = SubSeq(ips, From(i), To(i))
    OBVIOUS
  <2>2. From(i) \in 1 .. L + 1 /\ To(i) \in 0 .. L /\ To(i) - From(i) + 1 \in Nat
    BY <1>2, <1>4, SMTT(30)
  <2> HIDE DEF c
  <2>3. c[i] \in Seq(S) /\ Len(c[i]) = To(i) - From(i) + 1
    BY <2>1, <2>2, SMTT(30) DEF L
  <2>4. \A j \in 1 .. Len(c[i]) : c[i][j] = ips[From(i) + j - 1]
    BY <2>1, <2>2, <2>3, SMTT(30) DEF L
  <2> QED
    BY <1>2, <1>4, <2>2, <2>3, <2>4, SMTT(30)
<1>6. c \in Seq(Seq(S)) /\ Len(c) = n
  <2>1. c \in [1 .. n -> Seq(S)]
    BY <1>5
  <2> HIDE DEF c
  <2> QED
    BY <1>3, <2>1, SMTT(30)
<1> HIDE DEF c
<1>7. ASSUME NEW k \in 1 .. L
      PROVE  \E i \in 1 .. n : \E j \in 1 .. Len(c[i]) : k = (i - 1) * M + j
  <2> DEFINE a == (k - 1) \div M
             j == ((k - 1) % M) + 1
  <2>1. a \in Nat /\ j \in 1 .. M /\ k = a * M + j
    BY <1>2, RowsCover, SMTT(30)
  <2> HIDE DEF a, j
  <2>2. a + 1 \in 1 .. n
    <3>1. SUFFICES ASSUME n <= a PROVE FALSE
      BY <1>3, <2>1, SMTT(30)
    <3>2. n * M <= a * M /\ n * M \in Int /\ a * M \in Int
      BY <1>2, <1>3, <2>1, <3>1, MultiplesGrow, SMTT(30)
    <3> QED
      BY <1>2, <1>3, <2>1, <3>2, SMTT(30)
  <2>3. (a + 1) - 1 = a /\ a * M \in Int
    BY <1>2, <2>1, SMTT(30)
  <2>4. j <= To(a + 1) - a * M
    <3>1. CASE a + 1 < n
      BY <1>2, <1>4, <2>1, <2>2, <2>3, <3>1, SMTT(30)
    <3>2. CASE a + 1 = n
      BY <1>2, <1>4, <2>1, <2>2, <2>3, <3>2, SMTT(30) DEF To
    <3> QED
      BY <1>3, <2>2, <3>1, <3>2, SMTT(30)
  <2>5. j \in 1 .. Len(c[a + 1])
    BY <1>5, <2>1, <2>2, <2>3, <2>4, SMTT(30)
  <2> QED
    BY <2>1, <2>2, <2>3, <2>5
<1> QED
  <2>1. \A i \in 1 .. n : Len(c[i]) <= M
    BY <1>2, <1>4, <1>5, SMTT(30)
  <2> QED
    BY <1>1, <1>3, <1>5, <1>6, <1>7, <2>1, SMTT(30) DEF M, L, Cut

-----------------------------------------------------------------------------
\* What CreateFirewallOptsForSvc makes.

\* The rules list what the list has, as often as the list has it.
Spelled(inbound, family, list) ==
    LET P == Places(inbound, family) IN
    \E h \in Bijection(P, 1 .. Len(list)) :
      \A p \in P : RuleIPs(inbound, family)[p] = list[h[p]]

\* A place is a rule with a place in its list.
LEMMA PlacesAre ==
    ASSUME NEW inbound, NEW family
    PROVE  \A p : p \in Places(inbound, family) <=>
             \E i \in DOMAIN inbound : \E j \in DOMAIN Listed(inbound[i][family]) : p = <<i, j>>
<1> TAKE p
<1> DEFINE Spots(i) == {i} \X DOMAIN Listed(inbound[i][family])
<1>1. p \in Places(inbound, family) <=> \E i \in DOMAIN inbound : p \in Spots(i)
  BY DEF Places
<1>2. \A i : p \in Spots(i) <=> \E j \in DOMAIN Listed(inbound[i][family]) : p = <<i, j>>
  BY SMT
<1> QED
  BY <1>1, <1>2

\* Then they list as many addresses, and the same ones.
LEMMA SpelledIsEqual ==
    ASSUME NEW S, NEW list \in Seq(S), NEW inbound, NEW family, Spelled(inbound, family, list)
    PROVE  LET R == RuleIPs(inbound, family) IN
           /\ IsFiniteSet(DOMAIN R) /\ Cardinality(DOMAIN R) = Len(list)
           /\ Range(R) = Range(list)
<1> DEFINE P == Places(inbound, family)
           R == RuleIPs(inbound, family)
<1>1. DOMAIN R = P
  BY DEF RuleIPs
<1>2. PICK h \in Bijection(P, 1 .. Len(list)) : \A p \in P : R[p] = list[h[p]]
  BY DEF Spelled
<1>3. /\ h \in Injection(P, 1 .. Len(list)) /\ h \in Surjection(P, 1 .. Len(list))
      /\ h \in [P -> 1 .. Len(list)] /\ \A k \in 1 .. Len(list) : \E p \in P : h[p] = k
  BY <1>2 DEF Bijection, Injection, Surjection
<1>4. Len(list) \in Nat /\ DOMAIN list = 1 .. Len(list)
  BY SMT
<1>5. IsFiniteSet(1 .. Len(list)) /\ Cardinality(1 .. Len(list)) = Len(list)
  BY <1>4, UpTo
<1>6. IsFiniteSet(P) /\ Cardinality(P) = Len(list)
  BY <1>3, <1>5, FS_Injection
<1>7. Range(R) = Range(list)
  <2>1. \A x : x \in Range(R) <=> \E p \in P : x = R[p]
    BY <1>1 DEF Range
  <2>2. \A x : x \in Range(list) <=> \E k \in 1 .. Len(list) : x = list[k]
    BY <1>4 DEF Range
  <2>3. \A x : x \in Range(R) <=> x \in Range(list)
    BY <1>2, <1>3, <2>1, <2>2, SMTT(30)
  <2> QED
    BY <2>3
<1> QED
  BY <1>1, <1>6, <1>7

\* Rules in a row with the chunks of a list, among rules without addresses of the family,
\* list what the list has.
LEMMA ChunksSpell ==
    ASSUME NEW S, NEW ips \in Seq(S), MaxIPsPerFirewall \in Nat \ {0}, Nil \notin Seq(S),
           NEW inbound, NEW family, NEW off \in Nat,
           LET c == chunkIPs(ips) IN
             \A i : i \in DOMAIN inbound /\ inbound[i][family] # Nil <=> i - off \in 1 .. Len(c) /\ i \in Nat,
           LET c == chunkIPs(ips) IN
             \A i \in DOMAIN inbound : inbound[i][family] # Nil => inbound[i][family] = c[i - off]
    PROVE  Spelled(inbound, family, ips)
<1> DEFINE M == MaxIPsPerFirewall
           c == chunkIPs(ips)
           P == Places(inbound, family)
           R == RuleIPs(inbound, family)
           h == [p \in P |-> (p[1] - off - 1) * M + p[2]]
<1>cut. Cut(S, ips, c)
  BY Chunks
<1>filled. \A i : i \in DOMAIN inbound /\ inbound[i][family] # Nil <=> i - off \in 1 .. Len(c) /\ i \in Nat
  OBVIOUS
<1> HIDE DEF c
<1>1. /\ c \in Seq(Seq(S)) /\ Len(c) >= 1
      /\ \A i \in 1 .. Len(c) :
           /\ Len(c[i]) <= M
           /\ \A j \in 1 .. Len(c[i]) : (i - 1) * M + j \in 1 .. Len(ips) /\ c[i][j] = ips[(i - 1) * M + j]
      /\ \A k \in 1 .. Len(ips) : \E i \in 1 .. Len(c) : \E j \in 1 .. Len(c[i]) : k = (i - 1) * M + j
  BY <1>cut DEF Cut
<1>2. /\ Len(c) \in Nat
      /\ \A i \in 1 .. Len(c) :
           c[i] \in Seq(S) /\ c[i] # Nil /\ Len(c[i]) \in Nat /\ DOMAIN c[i] = 1 .. Len(c[i])
  <2>1. c \in Seq(Seq(S))
    BY <1>1
  <2> QED
    BY <2>1, SMT
<1>3. DOMAIN <<>> = {}
  BY EmptyList
<1>4. ASSUME NEW p \in P
      PROVE  \E i \in 1 .. Len(c) : \E j \in 1 .. Len(c[i]) :
               p = <<off + i, j>> /\ inbound[off + i][family] = c[i] /\ off + i - off = i
  <2>1. PICK q \in DOMAIN inbound : \E j \in DOMAIN Listed(inbound[q][family]) : p = <<q, j>>
    BY PlacesAre, SMT
  <2>2. inbound[q][family] # Nil
    BY <1>3, <2>1 DEF Listed
  <2>3. q - off \in 1 .. Len(c) /\ q \in Nat /\ inbound[q][family] = c[q - off]
    BY <2>1, <2>2 DEF c
  <2>4. PICK j \in DOMAIN c[q - off] : p = <<q, j>>
    BY <2>1, <2>2, <2>3 DEF Listed
  <2>5. j \in 1 .. Len(c[q - off])
    BY <1>2, <2>3, <2>4
  <2>6. off + (q - off) = q
    BY <2>3, SMTT(30)
  <2> QED
    BY <2>3, <2>4, <2>5, <2>6, SMTT(30)
<1>5. ASSUME NEW i \in 1 .. Len(c), NEW j \in 1 .. Len(c[i])
      PROVE  /\ <<off + i, j>> \in P /\ inbound[off + i][family] = c[i]
             /\ h[<<off + i, j>>] = (i - 1) * M + j
  <2>1. off + i - off = i /\ off + i \in Nat
    BY <1>2, SMTT(30)
  <2>2. off + i \in DOMAIN inbound /\ inbound[off + i][family] # Nil
    BY <1>filled, <2>1, SMTT(30)
  <2>3. inbound[off + i][family] = c[i]
    BY <2>1, <2>2, SMTT(30) DEF c
  <2>4. j \in DOMAIN Listed(inbound[off + i][family])
    BY <1>2, <2>3 DEF Listed
  <2>5. <<off + i, j>> \in P
    BY <2>2, <2>4, PlacesAre
  <2>6. h[<<off + i, j>>] = (off + i - off - 1) * M + j
    BY <2>5, SMT
  <2> QED
    BY <2>1, <2>3, <2>5, <2>6, SMTT(30)
<1> HIDE DEF h
<1>6. \A p \in P : h[p] \in 1 .. Len(ips) /\ R[p] = ips[h[p]]
  <2> TAKE p \in P
  <2>row. PICK i \in 1 .. Len(c) :
          \E j \in 1 .. Len(c[i]) : p = <<off + i, j>> /\ inbound[off + i][family] = c[i]
    BY <1>4
  <2>1. PICK j \in 1 .. Len(c[i]) : p = <<off + i, j>> /\ inbound[off + i][family] = c[i]
    BY <2>row
  <2>2. h[p] = (i - 1) * M + j
    BY <1>5, <2>1
  <2>3. p[1] = off + i /\ p[2] = j
    BY <2>1, SMT
  <2>4. R[p] = inbound[p[1]][family][p[2]]
    BY DEF RuleIPs
  <2>5. R[p] = c[i][j]
    BY <2>1, <2>3, <2>4
  <2> QED
    BY <1>1, <2>2, <2>5, ZenonT(30)
<1>7. \A p, q \in P : h[p] = h[q] => p = q
  <2> SUFFICES ASSUME NEW p \in P, NEW q \in P, h[p] = h[q] PROVE p = q
    OBVIOUS
  <2>row. PICK i \in 1 .. Len(c), m \in 1 .. Len(c) :
          (\E j \in 1 .. Len(c[i]) : p = <<off + i, j>>) /\ \E n \in 1 .. Len(c[m]) : q = <<off + m, n>>
    BY <1>4, SMT
  <2>1. PICK j \in 1 .. Len(c[i]) : p = <<off + i, j>>
    BY <2>row
  <2>2. PICK n \in 1 .. Len(c[m]) : q = <<off + m, n>>
    BY <2>row
  <2>3. (i - 1) * M + j = (m - 1) * M + n
    BY <1>5, <2>1, <2>2, SMTT(30)
  <2> DEFINE a == i - 1
             b == m - 1
  <2>4. Len(c[i]) <= M /\ Len(c[m]) <= M
    BY <1>1
  <2>5. j \in 1 .. M /\ n \in 1 .. M /\ a \in Int /\ b \in Int
    BY <1>2, <2>4, SMTT(30)
  <2>6. a * M + j = b * M + n
    BY <2>3
  <2> M \in Nat \ {0}
    OBVIOUS
  <2> HIDE DEF a, b, M
  <2>7. a = b /\ j = n
    BY <2>5, <2>6, RowsUnique, SMTT(30)
  <2>8. i = m
    BY <1>2, <2>7, SMTT(30) DEF a, b
  <2> QED
    BY <2>1, <2>2, <2>7, <2>8
<1>8. \A k \in 1 .. Len(ips) : \E p \in P : h[p] = k
  <2> TAKE k \in 1 .. Len(ips)
  <2>1. PICK i \in 1 .. Len(c) : \E j \in 1 .. Len(c[i]) : k = (i - 1) * M + j
    BY <1>1
  <2>2. PICK j \in 1 .. Len(c[i]) : k = (i - 1) * M + j
    BY <2>1
  <2>3. <<off + i, j>> \in P /\ h[<<off + i, j>>] = (i - 1) * M + j
    BY <1>5
  <2> QED
    BY <2>2, <2>3
<1>9. h \in [P -> 1 .. Len(ips)]
  BY <1>6 DEF h
<1>10. h \in Bijection(P, 1 .. Len(ips))
  <2>1. DOMAIN h = P
    BY <1>9
  <2> QED
    BY <1>7, <1>8, <1>9, <2>1 DEF Bijection, Injection, Surjection, IsInjective
<1> QED
  BY <1>6, <1>10 DEF Spelled

\* So does a single rule.
LEMMA OneRuleSpells ==
    ASSUME NEW S, NEW inbound, NEW family, DOMAIN inbound = {1},
           Listed(inbound[1][family]) \in Seq(S)
    PROVE  Spelled(inbound, family, Listed(inbound[1][family]))
<1> DEFINE l == Listed(inbound[1][family])
           P == Places(inbound, family)
           R == RuleIPs(inbound, family)
           h == [p \in P |-> p[2]]
<1>1. DOMAIN l = 1 .. Len(l)
  BY SMT
<1>2. \A p : p \in P <=> \E j \in 1 .. Len(l) : p = <<1, j>>
  BY <1>1, PlacesAre, SMT
<1>3. \A j \in 1 .. Len(l) : inbound[1][family] = l
  <2>1. DOMAIN <<>> = {}
    BY EmptyList
  <2> QED
    BY <1>1, <2>1 DEF Listed
<1>4. \A p \in P : R[p] = inbound[p[1]][family][p[2]] /\ h[p] = p[2]
  BY DEF RuleIPs
<1> HIDE DEF l, P, R, h
<1>5. \A p \in P : p[1] = 1 /\ p[2] \in 1 .. Len(l) /\ p = <<1, p[2]>>
  BY <1>2, SMT
<1>6. \A p \in P : h[p] \in 1 .. Len(l) /\ R[p] = l[h[p]]
  BY <1>3, <1>4, <1>5
<1>7. h \in [P -> 1 .. Len(l)] /\ DOMAIN h = P
  BY <1>6 DEF h
<1>8. \A p, q \in P : h[p] = h[q] => p = q
  BY <1>4, <1>5, SMT
<1>9. \A k \in 1 .. Len(l) : \E p \in P : h[p] = k
  <2> TAKE k \in 1 .. Len(l)
  <2>1. <<1, k>> \in P
    BY <1>2
  <2>2. h[<<1, k>>] = k
    BY <1>4, <2>1, SMTT(30)
  <2> QED
    BY <2>1, <2>2
<1>10. h \in Bijection(P, 1 .. Len(l))
  BY <1>7, <1>8, <1>9 DEF Bijection, Injection, Surjection, IsInjective
<1> QED
  BY <1>6, <1>10 DEF Spelled, l, P, R

\* What the firewall of an ACL and ports is like.
Made(fw, a, ps) ==
    /\ a.kind \in {"allow", "deny"} /\ fw.policy = Policy(a.kind)
    /\ Len(fw.inbound) \in 1 .. MaxRulesPerFirewall /\ DOMAIN fw.inbound = 1 .. Len(fw.inbound)
    /\ \A i \in DOMAIN fw.inbound :
         /\ fw.inbound[i].action = Action(a.kind) /\ fw.inbound[i].ports = ps
         /\ Listing(fw.inbound[i]) <= MaxIPsPerFirewall
    /\ \A family \in {"v4", "v6"} : Spelled(fw.inbound, family, Listed(a.ips[family]))

\* The addresses of an ACL.
LEMMA ListedAre ==
    ASSUME NEW a \in ACLConfigs
    PROVE  /\ Listed(a.ips.v4) \in Seq(IPv4s) /\ (a.ips.v4 # Nil => a.ips.v4 \in Lists(IPv4s))
           /\ Listed(a.ips.v6) \in Seq(IPv6s) /\ (a.ips.v6 # Nil => a.ips.v6 \in Lists(IPv6s))
           /\ Nil \notin Seq(IPv4s) /\ Nil \notin Seq(IPv6s)
           /\ MaxIPsPerFirewall \in Nat \ {0} /\ MaxRulesPerFirewall \in Nat /\ MaxLen \in Nat
<1>1. a.ips.v4 \in Lists(IPv4s) \cup {Nil} /\ a.ips.v6 \in Lists(IPv6s) \cup {Nil}
  BY SMT DEF ACLConfigs, Addresses
<1>2. <<>> \in Seq(IPv4s) /\ <<>> \in Seq(IPv6s)
  BY SMT
<1>3. /\ MaxIPsPerFirewall \in Nat \ {0} /\ MaxRulesPerFirewall \in Nat /\ MaxLen \in Nat
      /\ Nil \notin Seq(IPv4s) /\ Nil \notin Seq(IPv6s)
  BY ConstantsAssumption
<1>4. Listed(a.ips.v4) \in Seq(IPv4s)
  BY <1>1, <1>2, <1>3, ListsAreSeqs DEF Listed
<1>5. Listed(a.ips.v6) \in Seq(IPv6s)
  BY <1>1, <1>2, <1>3, ListsAreSeqs DEF Listed
<1> QED
  BY <1>1, <1>3, <1>4, <1>5

\* A function on the numbers up to n is a sequence.
LEMMA FunctionsAreSeqs ==
    ASSUME NEW X, NEW n \in Nat, NEW f \in [1 .. n -> X]
    PROVE  f \in Seq(X) /\ Len(f) = n
BY SMT

\* Rules with the chunks c of one family and then rules with the chunks d of the other.
Split(inbound, c, d, action, ps) ==
    /\ Len(inbound) = Len(c) + Len(d) /\ DOMAIN inbound = 1 .. Len(inbound)
    /\ \A i \in 1 .. Len(c) :
         /\ inbound[i].action = action /\ inbound[i].ports = ps
         /\ inbound[i].v4 = c[i] /\ inbound[i].v6 = Nil
    /\ \A i \in Len(c) + 1 .. Len(inbound) :
         /\ i - Len(c) \in 1 .. Len(d)
         /\ inbound[i].action = action /\ inbound[i].ports = ps
         /\ inbound[i].v4 = Nil /\ inbound[i].v6 = d[i - Len(c)]

\* The rules that processACL splits.
LEMMA SplitRules ==
    ASSUME NEW c \in Seq(Seq(IPv4s)), NEW d \in Seq(Seq(IPv6s)), NEW action, NEW ps
    PROVE  Split([i \in DOMAIN c |-> Rule(action, c[i], Nil, ps)]
                   \o [i \in DOMAIN d |-> Rule(action, Nil, d[i], ps)], c, d, action, ps)
<1> DEFINE r == [i \in DOMAIN c |-> Rule(action, c[i], Nil, ps)]
           s == [i \in DOMAIN d |-> Rule(action, Nil, d[i], ps)]
           X == {r[i] : i \in DOMAIN r} \cup {s[i] : i \in DOMAIN s}
<1>1. Len(c) \in Nat /\ DOMAIN c = 1 .. Len(c) /\ Len(d) \in Nat /\ DOMAIN d = 1 .. Len(d)
  BY SMT
<1>2. r \in [1 .. Len(c) -> X] /\ s \in [1 .. Len(d) -> X]
  BY <1>1
<1>3. \A i \in 1 .. Len(c) :
        r[i].action = action /\ r[i].ports = ps /\ r[i].v4 = c[i] /\ r[i].v6 = Nil
  BY <1>1, SMTT(30) DEF Rule
<1>4. \A i \in 1 .. Len(d) :
        s[i].action = action /\ s[i].ports = ps /\ s[i].v4 = Nil /\ s[i].v6 = d[i]
  BY <1>1, SMT DEF Rule
<1> HIDE DEF r, s, X
<1>6. r \in Seq(X) /\ s \in Seq(X) /\ Len(r) = Len(c) /\ Len(s) = Len(d)
  BY <1>1, <1>2, FunctionsAreSeqs
<1>7. Len(r \o s) = Len(r) + Len(s) /\ DOMAIN (r \o s) = 1 .. Len(r) + Len(s)
  <2>. r \in Seq(X) /\ s \in Seq(X)
    BY <1>6
  <2>1. r \o s \in Seq(X)
    BY SMT
  <2>2. DOMAIN (r \o s) = 1 .. Len(r \o s)
    BY <2>1, SMT
  <2>3. Len(r \o s) = Len(r) + Len(s)
    BY SMT
  <2> QED
    BY <2>2, <2>3
<1>8. \A i \in 1 .. Len(r) : (r \o s)[i] = r[i]
  BY <1>6, SMT
<1>9. \A i \in Len(r) + 1 .. Len(r) + Len(s) : i - Len(r) \in 1 .. Len(s) /\ (r \o s)[i] = s[i - Len(r)]
  BY <1>6, SMTT(30)
<1>10. Split(r \o s, c, d, action, ps)
  <2> DEFINE t == r \o s
  <2>1. Len(t) = Len(c) + Len(d) /\ DOMAIN t = 1 .. Len(t)
    BY <1>6, <1>7
  <2>2. \A i \in 1 .. Len(c) : t[i] = r[i]
    BY <1>6, <1>8
  <2>3. \A i \in Len(c) + 1 .. Len(t) : i - Len(c) \in 1 .. Len(d) /\ t[i] = s[i - Len(c)]
    BY <1>6, <1>7, <1>9
  <2> HIDE DEF t
  <2>4. \A i \in 1 .. Len(c) :
          t[i].action = action /\ t[i].ports = ps /\ t[i].v4 = c[i] /\ t[i].v6 = Nil
    BY <1>3, <2>2
  <2>5. \A i \in Len(c) + 1 .. Len(t) :
          /\ i - Len(c) \in 1 .. Len(d)
          /\ t[i].action = action /\ t[i].ports = ps /\ t[i].v4 = Nil /\ t[i].v6 = d[i - Len(c)]
    <3> TAKE i \in Len(c) + 1 .. Len(t)
    <3> DEFINE j == i - Len(c)
    <3>1. j \in 1 .. Len(d) /\ t[i] = s[j]
      BY <2>3, SMTT(30)
    <3> HIDE DEF j
    <3>2. s[j].action = action /\ s[j].ports = ps /\ s[j].v4 = Nil /\ s[j].v6 = d[j]
      BY <1>4, <3>1
    <3> QED
      BY <3>1, <3>2 DEF j
  <2>6. Split(t, c, d, action, ps)
    BY <2>1, <2>4, <2>5 DEF Split
  <2> QED
    BY <2>6 DEF t
<1> QED
  BY <1>10 DEF r, s

\* CreateFirewallOptsForSvc makes such a firewall, or none.
LEMMA MakesRules ==
    ASSUME NEW a \in ACLConfigs, NEW ps, NEW fw \in CreateFirewallOptsForSvc(a, ps)
    PROVE  Made(fw, a, ps)
<1> DEFINE action == Action(a.kind)
           M == MaxIPsPerFirewall
           v4 == Listed(a.ips.v4)
           v6 == Listed(a.ips.v6)
           inbound == processACL(action, a.ips, ps)
<1>1. /\ a.kind \in {"allow", "deny"} /\ ~(Len(inbound) > MaxRulesPerFirewall)
      /\ fw = [policy |-> Policy(a.kind), inbound |-> inbound]
  BY DEF CreateFirewallOptsForSvc
<1>2. fw.policy = Policy(a.kind) /\ fw.inbound = inbound
  BY <1>1, SMT
<1>3. /\ v4 \in Seq(IPv4s) /\ v6 \in Seq(IPv6s) /\ Nil \notin Seq(IPv4s) /\ Nil \notin Seq(IPv6s)
      /\ M \in Nat \ {0} /\ MaxRulesPerFirewall \in Nat
  BY ListedAre
<1>4. Listing(a.ips) = Len(v4) + Len(v6)
  BY DEF Listing
<1>5. DOMAIN <<>> = {} /\ Len(<<>>) = 0
  BY SMT
<1> SUFFICES /\ Len(inbound) \in Nat /\ Len(inbound) >= 1 /\ DOMAIN inbound = 1 .. Len(inbound)
             /\ \A i \in DOMAIN inbound :
                  inbound[i].action = action /\ inbound[i].ports = ps /\ Listing(inbound[i]) <= M
             /\ Spelled(inbound, "v4", v4) /\ Spelled(inbound, "v6", v6)
  <2>1. Len(inbound) \in Nat /\ Len(inbound) >= 1 => Len(inbound) \in 1 .. MaxRulesPerFirewall
    <3> HIDE DEF inbound
    <3> QED
      BY <1>1, <1>3, SMTT(30)
  <2> HIDE DEF inbound
  <2> QED
    BY <1>1, <1>2, <2>1, ZenonT(30) DEF Made
<1>6. CASE Listing(a.ips) > M
  <2> DEFINE c == chunkIPs(v4)
             d == chunkIPs(v6)
             out == [i \in DOMAIN c |-> Rule(action, c[i], Nil, ps)]
                      \o [i \in DOMAIN d |-> Rule(action, Nil, d[i], ps)]
  <2>1. inbound = out
    BY <1>6 DEF processACL
  <2>2. Cut(IPv4s, v4, c) /\ Cut(IPv6s, v6, d)
    BY <1>3, Chunks
  <2> HIDE DEF c, d
  <2>3. c \in Seq(Seq(IPv4s)) /\ d \in Seq(Seq(IPv6s)) /\ Len(c) >= 1 /\ Len(d) >= 1
    BY <2>2 DEF Cut
  <2>4. Split(inbound, c, d, action, ps)
    BY <2>1, <2>3, SplitRules
  <2> HIDE DEF inbound, out, action
  <2>5. /\ Len(inbound) = Len(c) + Len(d) /\ DOMAIN inbound = 1 .. Len(inbound)
        /\ \A i \in 1 .. Len(c) :
             /\ inbound[i].action = action /\ inbound[i].ports = ps
             /\ inbound[i].v4 = c[i] /\ inbound[i].v6 = Nil
    BY <2>4 DEF Split
  <2>6. \A i \in Len(c) + 1 .. Len(inbound) :
          /\ i - Len(c) \in 1 .. Len(d)
          /\ inbound[i].action = action /\ inbound[i].ports = ps
          /\ inbound[i].v4 = Nil /\ inbound[i].v6 = d[i - Len(c)]
    BY <2>4 DEF Split
  <2>lens. Len(c) \in Nat /\ Len(d) \in Nat
    BY <2>3, SMT
  <2>7. /\ \A i \in 1 .. Len(c) : c[i] \in Seq(IPv4s) /\ c[i] # Nil /\ Len(c[i]) <= M
        /\ \A i \in 1 .. Len(d) : d[i] \in Seq(IPv6s) /\ d[i] # Nil /\ Len(d[i]) <= M
    <3>1. /\ \A i \in 1 .. Len(c) : c[i] \in Seq(IPv4s)
          /\ \A i \in 1 .. Len(d) : d[i] \in Seq(IPv6s)
      BY <2>3, SMT
    <3> QED
      BY <1>3, <2>2, <3>1, ZenonT(30) DEF Cut
  <2>8. \A i \in DOMAIN inbound : i \in 1 .. Len(c) \/ i \in Len(c) + 1 .. Len(inbound)
    BY <2>5, <2>lens, SMTT(30)
  <2>9. ASSUME NEW i \in DOMAIN inbound
        PROVE  inbound[i].action = action /\ inbound[i].ports = ps /\ Listing(inbound[i]) <= M
    <3>1. CASE i \in 1 .. Len(c)
      <4>1. Listing(inbound[i]) = Len(c[i]) + 0
        BY <1>5, <2>5, <2>7, <3>1, ZenonT(30) DEF Listing, Listed
      <4>2. Len(c[i]) \in Nat /\ Len(c[i]) <= M
        BY <2>7, <3>1, SMTT(30)
      <4>3. Len(c[i]) + 0 <= M
        BY <4>2, SMT
      <4> QED
        BY <2>5, <3>1, <4>1, <4>3
    <3>2. CASE i \in Len(c) + 1 .. Len(inbound)
      <4> DEFINE j == i - Len(c)
      <4>1. j \in 1 .. Len(d) /\ inbound[i].v6 = d[j] /\ inbound[i].v4 = Nil
        BY <2>5, <2>lens, <2>6, <3>2
      <4> HIDE DEF j
      <4>2. Listing(inbound[i]) = 0 + Len(d[j])
        BY <1>5, <2>7, <4>1 DEF Listing, Listed
      <4>3. Len(d[j]) \in Nat /\ Len(d[j]) <= M
        BY <2>7, <4>1, SMTT(30)
      <4>4. 0 + Len(d[j]) <= M
        BY <4>3, SMT
      <4> QED
        BY <2>6, <3>2, <4>2, <4>4
    <3> QED
      BY <2>8, <3>1, <3>2
  <2>10. Spelled(inbound, "v4", v4)
    <3>1. \A i : i \in DOMAIN inbound /\ inbound[i]["v4"] # Nil <=> i - 0 \in 1 .. Len(c) /\ i \in Nat
      <4> TAKE i
      <4>1. CASE i \in 1 .. Len(c)
        <5>1. i \in Nat /\ i - 0 = i /\ i \in DOMAIN inbound
          BY <2>5, <2>lens, <4>1, SMTT(30)
        <5> QED
          BY <2>5, <2>7, <4>1, <5>1, ZenonT(30)
      <4>2. CASE i \notin 1 .. Len(c)
        <5>1. ~(i - 0 \in 1 .. Len(c) /\ i \in Nat)
          BY <4>2, SMT
        <5> QED
          BY <2>6, <2>8, <4>2, <5>1
      <4> QED
        BY <4>1, <4>2
    <3>2. \A i \in DOMAIN inbound : inbound[i]["v4"] # Nil => inbound[i]["v4"] = c[i - 0]
      <4> TAKE i \in DOMAIN inbound
      <4>1. CASE i \in 1 .. Len(c)
        <5>1. i - 0 = i
          BY <2>5, <2>lens, <4>1, SMTT(30)
        <5> QED
          BY <2>5, <4>1, <5>1
      <4> QED
        BY <2>6, <2>8, <4>1
    <3> QED
      BY <1>3, <3>1, <3>2, ChunksSpell, 0 \in Nat DEF c
  <2>11. Spelled(inbound, "v6", v6)
    <3>1. \A i : i \in DOMAIN inbound /\ inbound[i]["v6"] # Nil <=> i - Len(c) \in 1 .. Len(d) /\ i \in Nat
      <4> TAKE i
      <4>1. CASE i \in Len(c) + 1 .. Len(inbound)
        <5>1. i \in Nat /\ i \in DOMAIN inbound
          BY <2>5, <2>lens, <4>1, SMTT(30)
        <5> QED
          BY <2>5, <2>lens, <2>6, <2>7, <4>1, <5>1, ZenonT(30)
      <4>2. CASE i \notin Len(c) + 1 .. Len(inbound)
        <5>1. ~(i - Len(c) \in 1 .. Len(d) /\ i \in Nat)
          BY <2>5, <2>lens, <4>2, SMTT(30)
        <5> QED
          BY <2>5, <2>8, <4>2, <5>1
      <4> QED
        BY <4>1, <4>2
    <3>2. \A i \in DOMAIN inbound : inbound[i]["v6"] # Nil => inbound[i]["v6"] = d[i - Len(c)]
      BY <2>5, <2>6, <2>8
    <3> QED
      BY <1>3, <2>5, <2>lens, <3>1, <3>2, ChunksSpell DEF d
  <2>12. Len(inbound) \in Nat /\ Len(inbound) >= 1
    BY <2>3, <2>5, <2>lens, SMTT(30)
  <2> QED
    BY <2>5, <2>lens, <2>9, <2>10, <2>11, <2>12
<1>7. CASE ~(Listing(a.ips) > M)
  <2>1. inbound = <<Rule(action, a.ips.v4, a.ips.v6, ps)>>
    BY <1>7 DEF processACL
  <2> HIDE DEF inbound, action
  <2>2. Len(inbound) = 1 /\ DOMAIN inbound = {1} /\ DOMAIN inbound = 1 .. 1
    BY <2>1, SMTT(30)
  <2>3. inbound[1] = Rule(action, a.ips.v4, a.ips.v6, ps)
    BY <2>1, SMTT(30)
  <2>4. /\ inbound[1].action = action /\ inbound[1].ports = ps
        /\ inbound[1]["v4"] = a.ips.v4 /\ inbound[1]["v6"] = a.ips.v6
    BY <2>3, SMT DEF Rule
  <2>5. Listing(inbound[1]) = Len(v4) + Len(v6)
    BY <2>4 DEF Listing
  <2>6. Len(v4) + Len(v6) <= M
    BY <1>3, <1>4, <1>7, SMTT(30)
  <2>7. Spelled(inbound, "v4", v4) /\ Spelled(inbound, "v6", v6)
    BY <1>3, <2>2, <2>4, OneRuleSpells
  <2>8. 1 \in Nat /\ 1 >= 1
    BY SMT
  <2> QED
    BY <2>2, <2>4, <2>5, <2>6, <2>7, <2>8
<1> QED
  BY <1>6, <1>7

-----------------------------------------------------------------------------
\* What ruleChanged finds.

\* The firewall that was made needs no change.
LEMMA MadeIsUnchanged ==
    ASSUME NEW a \in ACLConfigs, NEW ps, NEW fw, Made(fw, a, ps)
    PROVE  ~ruleChanged(fw, a, ps)
<1>1. /\ a.kind \in {"allow", "deny"} /\ fw.policy = Policy(a.kind)
      /\ Len(fw.inbound) \in 1 .. MaxRulesPerFirewall /\ DOMAIN fw.inbound = 1 .. Len(fw.inbound)
      /\ \A i \in DOMAIN fw.inbound : fw.inbound[i].ports = ps
      /\ Spelled(fw.inbound, "v4", Listed(a.ips["v4"])) /\ Spelled(fw.inbound, "v6", Listed(a.ips["v6"]))
  BY DEF Made
<1>2. 1 \in DOMAIN fw.inbound /\ fw.inbound # <<>>
  <2>1. DOMAIN <<>> = {}
    BY EmptyList
  <2>2. 1 \in 1 .. Len(fw.inbound)
    BY <1>1, SMT
  <2> QED
    BY <1>1, <2>1, <2>2
<1>3. ~isPortsChanged(fw.inbound, ps)
  BY <1>1, <1>2 DEF isPortsChanged
<1>4. ASSUME NEW S, NEW family, NEW list, Listed(list) \in Seq(S), Spelled(fw.inbound, family, Listed(list))
      PROVE  ~ListChanged(list, RuleIPs(fw.inbound, family))
  <2> DEFINE R == RuleIPs(fw.inbound, family)
  <2>1. /\ IsFiniteSet(DOMAIN R) /\ Cardinality(DOMAIN R) = Len(Listed(list))
        /\ Range(R) = Range(Listed(list))
    BY <1>4, SpelledIsEqual
  <2> HIDE DEF R
  <2>2. CASE list = Nil
    <3>1. Len(<<>>) = 0
      BY SMT
    <3>2. Cardinality(DOMAIN R) = 0
      BY <2>1, <2>2, <3>1 DEF Listed
    <3>3. DOMAIN R = {}
      BY <2>1, <3>2, FS_EmptySet
    <3> QED
      BY <2>2, <3>3 DEF ListChanged, R
  <2>3. CASE list # Nil
    <3>1. Listed(list) = list
      BY <2>3 DEF Listed
    <3> QED
      BY <2>1, <2>3, <3>1 DEF ListChanged, R
  <2> QED
    BY <2>2, <2>3
<1>5. ~ipsChanged(a.ips, fw.inbound)
  <2>1. ~ListChanged(a.ips["v4"], RuleIPs(fw.inbound, "v4"))
    BY <1>1, <1>4, ListedAre
  <2>2. ~ListChanged(a.ips["v6"], RuleIPs(fw.inbound, "v6"))
    BY <1>1, <1>4, ListedAre
  <2> QED
    BY <2>1, <2>2 DEF ipsChanged
<1> QED
  BY <1>1, <1>2, <1>3, <1>5 DEF ruleChanged, Policy

\* A list without repetition has as many addresses as places.
LEMMA DistinctCount ==
    ASSUME NEW S, NEW list \in Seq(S), IsInjective(list)
    PROVE  /\ Len(list) \in Nat /\ IsFiniteSet(Range(list))
           /\ Cardinality(Range(list)) = Len(list)
<1>2. Len(list) \in Nat /\ DOMAIN list = 1 .. Len(list)
  BY SMT
<1>3. IsFiniteSet(DOMAIN list) /\ Cardinality(DOMAIN list) = Len(list)
  BY <1>2, UpTo
<1>4. IsFiniteSet(Range(list)) /\ Cardinality(Range(list)) = Len(list)
  <2> DEFINE f == [x \in Range(list) |-> CHOOSE i \in DOMAIN list : list[i] = x]
  <2>1. \A x \in Range(list) : f[x] \in DOMAIN list /\ list[f[x]] = x
    BY DEF Range
  <2>2. \A i \in DOMAIN list : list[i] \in Range(list)
    BY DEF Range
  <2>3. f \in [Range(list) -> DOMAIN list]
    BY <2>1
  <2> HIDE DEF f
  <2>4. \A i \in DOMAIN list : f[list[i]] = i
    BY <2>1, <2>2 DEF IsInjective
  <2>5. DOMAIN f = Range(list)
    BY <2>3
  <2>6. f \in Injection(Range(list), DOMAIN list)
    <3>1. \A x, y \in Range(list) : f[x] = f[y] => x = y
      <4> TAKE x, y \in Range(list)
      <4>1. list[f[x]] = x /\ list[f[y]] = y
        BY <2>1
      <4> QED
        BY <4>1
    <3> QED
      BY <2>3, <2>5, <3>1 DEF Injection, IsInjective
  <2>7. f \in Surjection(Range(list), DOMAIN list)
    BY <2>2, <2>3, <2>4, <2>5 DEF Surjection
  <2> QED
    BY <1>3, <2>6, <2>7, FS_Injection
<1> QED
  BY <1>2, <1>4

\* The rules list the addresses of a family that the ACL lists.
Says(inbound, family, list) == Range(RuleIPs(inbound, family)) = Range(Listed(list))

\* An ACL without repeated addresses that lists as many addresses as the rules, all of them
\* in the rules, lists the same ones.
LEMMA UnchangedListIsSame ==
    ASSUME NEW S, NEW T, NEW list, Listed(list) \in Seq(S), IsInjective(Listed(list)),
           NEW made \in Seq(T), NEW inbound, NEW family,
           Spelled(inbound, family, made),
           ~ListChanged(list, RuleIPs(inbound, family))
    PROVE  Says(inbound, family, list)
<1> DEFINE R == RuleIPs(inbound, family)
<1>1. IsFiniteSet(DOMAIN R)
  BY SpelledIsEqual
<1>2. CASE list = Nil
  <2>1. DOMAIN R = {}
    BY <1>2 DEF ListChanged
  <2>2. DOMAIN <<>> = {}
    BY EmptyList
  <2>3. Listed(list) = <<>>
    BY <1>2 DEF Listed
  <2> QED
    BY <2>1, <2>2, <2>3 DEF Range, Says
<1>3. CASE list # Nil
  <2>1. /\ Len(list) = Cardinality(DOMAIN R) /\ Range(list) \subseteq Range(R)
        /\ Listed(list) = list
    BY <1>3 DEF ListChanged, Listed
  <2> HIDE DEF R
  <2>3. list \in Seq(S) /\ IsInjective(list)
    BY <1>3 DEF Listed
  <2>4. Len(list) \in Nat /\ IsFiniteSet(Range(list)) /\ Cardinality(Range(list)) = Len(list)
    BY <2>3, DistinctCount
  <2>5. IsFiniteSet(Range(R)) /\ Cardinality(Range(R)) <= Cardinality(DOMAIN R)
    <3> DEFINE g == [p \in DOMAIN R |-> R[p]]
    <3>1. g \in Surjection(DOMAIN R, Range(R))
      BY DEF Surjection, Range
    <3> QED
      BY <1>1, <3>1, FS_Surjection
  <2>6. Cardinality(Range(list)) <= Cardinality(Range(R))
    BY <2>1, <2>5, FS_Subset
  <2>7. Cardinality(Range(R)) \in Nat
    BY <2>5, FS_CardinalityType
  <2>8. Cardinality(Range(R)) = Cardinality(Range(list))
    BY <2>1, <2>4, <2>5, <2>6, <2>7, SMTT(30)
  <2>9. Range(R) = Range(list)
    BY <2>1, <2>5, <2>8, FS_Subset
  <2> QED
    BY <2>1, <2>9 DEF R, Says
<1> QED
  BY <1>2, <1>3

\* No address of an ACL is repeated.
LEMMA NoRepeats ==
    ASSUME ~Repeats, NEW a \in ACLConfigs
    PROVE  IsInjective(Listed(a.ips.v4)) /\ IsInjective(Listed(a.ips.v6))
<1>1. /\ a.ips.v4 # Nil => IsInjective(a.ips.v4)
      /\ a.ips.v6 # Nil => IsInjective(a.ips.v6)
  BY ListedAre, ListsAreSeqs
<1>2. IsInjective(<<>>)
  <2>1. DOMAIN <<>> = {}
    BY EmptyList
  <2> QED
    BY <2>1 DEF IsInjective
<1> QED
  BY <1>1, <1>2 DEF Listed

\* Of a firewall that was made of some ACL and ports: if it needs no change for others, it
\* means what they say.
LEMMA UnchangedMeans ==
    ASSUME ~Repeats,
           NEW b \in ACLConfigs, NEW qs, NEW fw, Made(fw, b, qs),
           NEW a \in ACLConfigs, NEW ps, a.kind \in {"allow", "deny"}, ~ruleChanged(fw, a, ps)
    PROVE  Means(fw, a, ps)
<1>1. /\ b.kind \in {"allow", "deny"} /\ fw.policy = Policy(b.kind)
      /\ Len(fw.inbound) \in 1 .. MaxRulesPerFirewall /\ DOMAIN fw.inbound = 1 .. Len(fw.inbound)
      /\ \A i \in DOMAIN fw.inbound : fw.inbound[i].action = Action(b.kind) /\ fw.inbound[i].ports = qs
      /\ Spelled(fw.inbound, "v4", Listed(b.ips["v4"])) /\ Spelled(fw.inbound, "v6", Listed(b.ips["v6"]))
  BY ZenonT(30) DEF Made
<1>2. 1 \in DOMAIN fw.inbound
  BY <1>1, SMT
<1>3. /\ a.kind = "allow" => fw.policy = "DROP"
      /\ a.kind = "deny" => fw.policy = "ACCEPT"
      /\ ~ipsChanged(a.ips, fw.inbound) /\ ~isPortsChanged(fw.inbound, ps)
  BY ZenonT(30) DEF ruleChanged
<1>4. a.kind = b.kind
  BY <1>1, <1>3, SMT DEF Policy
<1>5. fw.inbound[1].ports = ps
  BY <1>3 DEF isPortsChanged
<1>6. \A i \in DOMAIN fw.inbound : fw.inbound[i].action = Action(a.kind) /\ fw.inbound[i].ports = ps
  BY <1>1, <1>2, <1>4, <1>5
<1>7. /\ ~ListChanged(a.ips["v4"], RuleIPs(fw.inbound, "v4"))
      /\ ~ListChanged(a.ips["v6"], RuleIPs(fw.inbound, "v6"))
  BY <1>3 DEF ipsChanged
<1>8. Says(fw.inbound, "v4", a.ips["v4"])
  <2>1. Listed(b.ips["v4"]) \in Seq(IPv4s) /\ Spelled(fw.inbound, "v4", Listed(b.ips["v4"]))
    BY <1>1, ListedAre
  <2>2. Listed(a.ips["v4"]) \in Seq(IPv4s) /\ IsInjective(Listed(a.ips["v4"]))
    BY ListedAre, NoRepeats
  <2>3. ~ListChanged(a.ips["v4"], RuleIPs(fw.inbound, "v4"))
    BY <1>7
  <2> QED
    BY <2>1, <2>2, <2>3, UnchangedListIsSame
<1>9. Says(fw.inbound, "v6", a.ips["v6"])
  <2>1. Listed(b.ips["v6"]) \in Seq(IPv6s) /\ Spelled(fw.inbound, "v6", Listed(b.ips["v6"]))
    BY <1>1, ListedAre
  <2>2. Listed(a.ips["v6"]) \in Seq(IPv6s) /\ IsInjective(Listed(a.ips["v6"]))
    BY ListedAre, NoRepeats
  <2>3. ~ListChanged(a.ips["v6"], RuleIPs(fw.inbound, "v6"))
    BY <1>7
  <2> QED
    BY <2>1, <2>2, <2>3, UnchangedListIsSame
<1> QED
  BY <1>1, <1>4, <1>6, <1>8, <1>9 DEF Means, Says

\* One family of addresses that the rules list.
LEMMA SameListIsUnchanged ==
    ASSUME NEW S, NEW T, NEW list, Listed(list) \in Seq(S), IsInjective(Listed(list)),
           NEW made \in Seq(T), IsInjective(made), NEW inbound, NEW family,
           Spelled(inbound, family, made),
           Range(RuleIPs(inbound, family)) = Range(Listed(list))
    PROVE  ~ListChanged(list, RuleIPs(inbound, family))
<1> DEFINE R == RuleIPs(inbound, family)
<1>1. /\ Cardinality(DOMAIN R) = Len(made) /\ Range(R) = Range(made)
  BY SpelledIsEqual
<1>2. Cardinality(Range(made)) = Len(made) /\ Cardinality(Range(Listed(list))) = Len(Listed(list))
  BY DistinctCount
<1>3. Cardinality(DOMAIN R) = Len(Listed(list))
  BY <1>1, <1>2
<1>4. CASE list = Nil
  <2>1. DOMAIN <<>> = {}
    BY EmptyList
  <2>2. Range(R) = {}
    BY <1>4, <2>1 DEF Range, Listed
  <2>3. DOMAIN R = {}
    BY <2>2 DEF Range
  <2> QED
    BY <1>4, <2>3 DEF ListChanged
<1>5. CASE list # Nil
  BY <1>3, <1>5 DEF ListChanged, Listed
<1> QED
  BY <1>4, <1>5

\* And if it means what they say it needs no change.
LEMMA MeansUnchanged ==
    ASSUME ~Repeats,
           NEW b \in ACLConfigs, NEW qs, NEW fw, Made(fw, b, qs),
           NEW a \in ACLConfigs, NEW ps, a.kind \in {"allow", "deny"}, Means(fw, a, ps)
    PROVE  ~ruleChanged(fw, a, ps)
<1>1. /\ Len(fw.inbound) \in 1 .. MaxRulesPerFirewall /\ DOMAIN fw.inbound = 1 .. Len(fw.inbound)
      /\ Spelled(fw.inbound, "v4", Listed(b.ips["v4"])) /\ Spelled(fw.inbound, "v6", Listed(b.ips["v6"]))
  BY DEF Made
<1>2. 1 \in DOMAIN fw.inbound /\ fw.inbound # <<>>
  <2>1. DOMAIN <<>> = {}
    BY EmptyList
  <2>2. 1 \in 1 .. Len(fw.inbound)
    BY <1>1, SMT
  <2> QED
    BY <1>1, <2>1, <2>2
<1>3. /\ fw.policy = Policy(a.kind) /\ \A i \in DOMAIN fw.inbound : fw.inbound[i].ports = ps
      /\ Range(RuleIPs(fw.inbound, "v4")) = Range(Listed(a.ips["v4"]))
      /\ Range(RuleIPs(fw.inbound, "v6")) = Range(Listed(a.ips["v6"]))
  BY DEF Means
<1>4. ~isPortsChanged(fw.inbound, ps)
  BY <1>2, <1>3 DEF isPortsChanged
<1>5. /\ Listed(a.ips["v4"]) \in Seq(IPv4s) /\ IsInjective(Listed(a.ips["v4"]))
      /\ Listed(a.ips["v6"]) \in Seq(IPv6s) /\ IsInjective(Listed(a.ips["v6"]))
      /\ Listed(b.ips["v4"]) \in Seq(IPv4s) /\ IsInjective(Listed(b.ips["v4"]))
      /\ Listed(b.ips["v6"]) \in Seq(IPv6s) /\ IsInjective(Listed(b.ips["v6"]))
  BY ListedAre, NoRepeats
<1>6. ~ListChanged(a.ips["v4"], RuleIPs(fw.inbound, "v4"))
  BY <1>1, <1>3, <1>5, SameListIsUnchanged
<1>7. ~ListChanged(a.ips["v6"], RuleIPs(fw.inbound, "v6"))
  BY <1>1, <1>3, <1>5, SameListIsUnchanged
<1>8. ~ipsChanged(a.ips, fw.inbound)
  BY <1>6, <1>7 DEF ipsChanged
<1> QED
  BY <1>2, <1>3, <1>4, <1>8 DEF ruleChanged, Policy

-----------------------------------------------------------------------------
\* The theorems about rules.

\* The comparison is exact: of rules that were made for some ACL and ports (b and qs),
\* ruleChanged finds no change for others (a and ps) exactly when the rules mean what
\* these say, although it compares addresses only by how many there are and whether
\* each is listed, and looks at the ports of the first rule only. No ACL lists an
\* address twice.
THEOREM ComparisonIsExact ==
    ASSUME ~Repeats,
           NEW b \in ACLConfigs, NEW qs, NEW fw \in CreateFirewallOptsForSvc(b, qs),
           NEW a \in ACLConfigs, NEW ps, a.kind \in {"allow", "deny"}
    PROVE  ~ruleChanged(fw, a, ps) <=> Means(fw, a, ps)
<1>1. Made(fw, b, qs)
  BY MakesRules
<1>2. ASSUME ~ruleChanged(fw, a, ps)
      PROVE  Means(fw, a, ps)
  BY <1>1, <1>2, UnchangedMeans, SMTT(30)
<1>3. ASSUME Means(fw, a, ps)
      PROVE  ~ruleChanged(fw, a, ps)
  BY <1>1, <1>3, MeansUnchanged, SMTT(30)
<1> QED
  BY <1>2, <1>3

\* Rules that a reconciliation accepts or writes are not changed by the next one of the
\* same Service: it does not write again and again, whatever rules it met first and
\* also where an ACL repeats an address.
THEOREM RulesAreStable == RulesSpec => []Stable
<1> DEFINE Inv == acl \in ACLConfigs /\ Stable
<1>1. RulesInit => Inv
  <2> SUFFICES ASSUME RulesInit, outcome = "ok"
               PROVE  ~ruleChanged(ruleset, acl, ports)
    BY DEF RulesInit, Stable
  <2>1. "ok" # "stale"
    BY SMT
  <2>2. acl \in ACLConfigs /\ ruleset \in CreateFirewallOptsForSvc(acl, ports)
    BY <2>1 DEF RulesInit
  <2> QED
    BY <2>2, MakesRules, MadeIsUnchanged
<1>2. Inv /\ [RulesNext]_rulesVars => Inv'
  <2> SUFFICES ASSUME Inv, [RulesNext]_rulesVars
               PROVE  Inv'
    OBVIOUS
  <2>1. CASE EditService
    <3>1. outcome' # "ok"
      BY <2>1, SMT DEF EditService
    <3> QED
      BY <2>1, <3>1 DEF EditService, Stable
  <2>2. CASE UpdateWithACL
    <3>1. /\ acl' = acl /\ ports' = ports
      BY <2>2 DEF UpdateWithACL
    <3>2. ASSUME outcome' = "ok"
          PROVE  ~ruleChanged(ruleset', acl, ports)
      <4>1. "error" # "ok"
        BY SMT
      <4>2. \/ ~ruleChanged(ruleset, acl, ports) /\ ruleset' = ruleset
            \/ ruleset' \in CreateFirewallOptsForSvc(acl, ports)
        BY <2>2, <3>2, <4>1 DEF UpdateWithACL
      <4>3. CASE ruleset' \in CreateFirewallOptsForSvc(acl, ports)
        BY <4>3, MakesRules, MadeIsUnchanged
      <4> QED
        BY <4>2, <4>3
    <3> QED
      BY <3>1, <3>2 DEF Stable
  <2>3. CASE UNCHANGED rulesVars
    BY <2>3 DEF rulesVars, Stable
  <2> QED
    BY <2>1, <2>2, <2>3 DEF RulesNext
<1> QED
  BY <1>1, <1>2, PTL DEF RulesSpec

\* The rules never exceed the limits of the API: a rule set that was not over them when it was
\* taken over is not over them afterwards, and one that is created never is.
THEOREM RulesStayWithinLimits ==
    ASSUME \A fw \in TakenOver : Fits(fw)
    PROVE  RulesSpec => []WithinLimits
<1> DEFINE Inv == acl \in ACLConfigs /\ WithinLimits
<1>1. ASSUME NEW a \in ACLConfigs, NEW ps, NEW fw \in CreateFirewallOptsForSvc(a, ps)
      PROVE  Fits(fw)
  <2>1. Made(fw, a, ps)
    BY MakesRules
  <2>2. MaxRulesPerFirewall \in Nat
    BY ConstantsAssumption
  <2>3. Len(fw.inbound) <= MaxRulesPerFirewall
    BY <2>1, <2>2, SMTT(30) DEF Made
  <2> QED
    BY <2>1, <2>3 DEF Made, Fits
<1>2. RulesInit => Inv
  BY <1>1 DEF RulesInit, WithinLimits
<1>3. Inv /\ [RulesNext]_rulesVars => Inv'
  <2> SUFFICES ASSUME Inv, [RulesNext]_rulesVars
               PROVE  Inv'
    OBVIOUS
  <2>1. CASE EditService
    BY <2>1 DEF EditService, WithinLimits
  <2>2. CASE UpdateWithACL
    <3>1. /\ acl' = acl
          /\ ruleset' = ruleset \/ ruleset' \in CreateFirewallOptsForSvc(acl, ports)
      BY <2>2 DEF UpdateWithACL
    <3> QED
      BY <1>1, <3>1 DEF WithinLimits
  <2>3. CASE UNCHANGED rulesVars
    BY <2>3 DEF rulesVars, WithinLimits
  <2> QED
    BY <2>1, <2>2, <2>3 DEF RulesNext
<1> QED
  BY <1>2, <1>3, PTL DEF RulesSpec

\* Made by CreateFirewallOptsForSvc for some ACL and ports.
MadeBefore ==
    {fw \in TakenOver :
       \E b \in ACLConfigs, qs \in SUBSET Ports : fw \in CreateFirewallOptsForSvc(b, qs)}

\* The rules were made for some ACL and ports, perhaps not for the Service's present
\* ones. This is inductive; with the stability of the rules it gives RulesFollowACL.
MadeForSome == \E b \in ACLConfigs, qs \in SUBSET Ports : Made(ruleset, b, qs)

\* "Rules are updated when the annotation changes": after a reconciliation that succeeds
\* the rules mean what the Service's ACL and ports say, for every limit of the API
\* and every sequence of edits of a Service whose firewall has the rules of a controller,
\* this one or an earlier one, and whose ACLs list no address twice.
THEOREM RulesFollow ==
    ASSUME ~Repeats, TakenOver = MadeBefore
    PROVE  RulesSpec => []RulesFollowACL
<1> DEFINE Inv == acl \in ACLConfigs /\ ports \in SUBSET Ports /\ MadeForSome
<1>1. RulesInit => Inv
  <2> SUFFICES ASSUME RulesInit
               PROVE  Inv
    OBVIOUS
  <2>1. acl \in ACLConfigs /\ ports \in SUBSET Ports
    BY DEF RulesInit
  <2>2. \E b \in ACLConfigs, qs \in SUBSET Ports : ruleset \in CreateFirewallOptsForSvc(b, qs)
    BY <2>1 DEF RulesInit, MadeBefore
  <2> QED
    BY <2>1, <2>2, MakesRules DEF MadeForSome
<1>2. Inv /\ [RulesNext]_rulesVars => Inv'
  <2> SUFFICES ASSUME Inv, [RulesNext]_rulesVars
               PROVE  Inv'
    OBVIOUS
  <2>1. CASE EditService
    BY <2>1 DEF EditService, MadeForSome
  <2>2. CASE UpdateWithACL
    <3>1. /\ acl' = acl /\ ports' = ports
          /\ ruleset' = ruleset \/ ruleset' \in CreateFirewallOptsForSvc(acl, ports)
      BY <2>2 DEF UpdateWithACL
    <3> QED
      BY <3>1, MakesRules DEF MadeForSome
  <2>3. CASE UNCHANGED rulesVars
    BY <2>3 DEF rulesVars, MadeForSome
  <2> QED
    BY <2>1, <2>2, <2>3 DEF RulesNext
<1>3. Inv /\ Stable => RulesFollowACL
  <2> SUFFICES ASSUME Inv, Stable, outcome = "ok", acl.kind \in {"allow", "deny"}
               PROVE  Means(ruleset, acl, ports)
    BY DEF RulesFollowACL
  <2>1. PICK b \in ACLConfigs, qs \in SUBSET Ports : Made(ruleset, b, qs)
    BY DEF MadeForSome
  <2>2. ~ruleChanged(ruleset, acl, ports)
    BY DEF Stable
  <2> QED
    BY <2>1, <2>2, UnchangedMeans, SMTT(30)
<1>4. RulesSpec => []Stable
  BY RulesAreStable
<1> QED
  BY <1>1, <1>2, <1>3, <1>4, PTL DEF RulesSpec
=============================================================================
