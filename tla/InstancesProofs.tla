--------------------------- MODULE InstancesProofs ---------------------------
(***************************************************************************)
(* Theorems about Instances, for any Linodes, nodes, VPCs and subnets, any *)
(* failures but the ones a theorem excludes, and any bound on them.        *)
(***************************************************************************)
EXTENDS Instances, TLAPS

\* Leaves are first-order, but those that cite SMT.
USE Zenon

Caches == [nodes : SUBSET Linodes, fresh : BOOLEAN, asof : SUBSET Linodes]
Refreshes == [by : Callers \cup {None}, instances : SUBSET Linodes,
              left : Seq(VPCs \X Families), vpcNodes : SUBSET Linodes]
Calls == [pc : {"idle", "refresh", "search", "ips"}, node : Nodes \cup {None},
          providerID : MaybeLinode, reports : {{}} \cup {About[l].reports : l \in Linodes},
          linode : MaybeLinode, second : MaybeLinode]

\* The types of the parts of the state that Linodes are found in.
Types ==
    /\ running \subseteq Linodes /\ deleted \subseteq Linodes /\ running \cap deleted = {}
    /\ node \in [Nodes -> MaybeLinode]
    /\ providerID \in [Nodes -> MaybeLinode]
    /\ addresses \in [Nodes -> MaybeLinode]
    /\ nodeCache \in Caches /\ nodeCache.nodes \subseteq nodeCache.asof
    /\ refresh \in Refreshes
    /\ call \in [Callers -> Calls]
    /\ refresh.by # None => refresh.left # <<>> /\ call[refresh.by].pc = "refresh"

\* The record of no call, and of no refresh.
LEMMA Nothing ==
  /\ Idle \in Calls /\ Idle.pc = "idle"
  /\ NoRefresh \in Refreshes /\ NoRefresh.by = None /\ NoRefresh.instances = {}
  BY SMT DEF Idle, Calls, MaybeLinode, NoRefresh, Refreshes

\* The state a process starts from is well typed.
LEMMA InitTypes == Init => Types
  BY Nothing, SMT DEF Init, Types, Caches, MaybeLinode

\* The call k2 is k, which has only moved on.
Moved(k, k2) ==
    /\ k.pc # "idle" /\ (k2.pc = "ips" => k.pc = "ips")
    /\ k2.node = k.node /\ k2.providerID = k.providerID /\ k2.reports = k.reports
    /\ k2.linode = k.linode /\ k2.second = k.second

\* A call that only moves on is the same call.
LEMMA CallMoves ==
  ASSUME Types, NEW c \in Callers, call[c].pc = "refresh",
         call' = [call EXCEPT ![c].pc = "search"]
  PROVE  /\ call' \in [Callers -> Calls]
         /\ \A d \in Callers \ {c} : call'[d] = call[d]
         /\ call'[c].pc = "search" /\ call'[c].node = call[c].node
         /\ Moved(call[c], call'[c])
  <1>1. call[c] \in Calls /\ call'[c] = [call[c] EXCEPT !.pc = "search"]
    BY DEF Types
  <1>2. /\ call'[c] \in Calls
        /\ call'[c].pc = "search" /\ call'[c].node = call[c].node
        /\ Moved(call[c], call'[c])
    BY <1>1, SMT DEF Calls, Moved
  <1> QED
    BY <1>1, <1>2 DEF Types

\* A call that returns leaves the others alone.
LEMMA CallReturns ==
  ASSUME Types, NEW c \in Callers, Return(c)
  PROVE  /\ call' \in [Callers -> Calls]
         /\ \A d \in Callers \ {c} : call'[d] = call[d]
         /\ call'[c].pc = "idle"
  BY Nothing DEF Return, Types

\* The state of the Linodes and of the Node objects stays.
Still == UNCHANGED <<running, deleted, node, providerID, addresses>>

\* The listings of the VPCs, two for each of them.
LEMMA ListingsType ==
  /\ Listings \in Seq(VPCs \X Families)
  /\ Listings = <<>> => VPCNames = <<>>
  <1> DEFINE L == Len(VPCNames)
  <1>1. L \in Nat /\ DOMAIN VPCNames = 1 .. L /\ \A i \in 1 .. L : VPCNames[i] \in VPCs
    BY VPCNamesAssumption, SMT
  <1>2. ASSUME NEW i \in 1 .. 2 * L PROVE (i + 1) \div 2 \in 1 .. L
    BY <1>1, <1>2, SMT
  <1>3. \A i \in 1 .. 2 * L :
          <<VPCNames[(i + 1) \div 2], IF i % 2 = 1 THEN "v4" ELSE "v6">> \in VPCs \X Families
    BY <1>1, <1>2 DEF Families
  <1>4. Listings \in [1 .. 2 * L -> VPCs \X Families] /\ 2 * L \in Nat
    BY <1>1, <1>3, SMT DEF Listings
  <1>5. Listings \in Seq(VPCs \X Families) /\ Len(Listings) = 2 * L
    BY <1>4, SMT
  <1>6. Listings = <<>> => L = 0
    BY <1>1, <1>5, SMT
  <1> QED
    BY <1>1, <1>5, <1>6, VPCNamesAssumption, SMT

\* A refresh that gives up keeps the types.
LEMMA AbandonTypes ==
  ASSUME Types, NEW c \in Callers, refresh.by \in {c, None}, Abandon(c), Still
  PROVE  Types'
  <1>1. /\ call' \in [Callers -> Calls] /\ call'[c].pc = "idle"
    BY CallReturns DEF Abandon, Types
  <1>2. refresh' \in Refreshes /\ refresh'.by = None /\ nodeCache' = nodeCache
    BY Nothing DEF Abandon
  <1> QED
    BY <1>1, <1>2 DEF Types, Still

\* So does one that goes on.
LEMMA ProceedTypes ==
  ASSUME Types, NEW c \in Callers, call[c].pc = "refresh", refresh.by \in {c, None},
         NEW S \in SUBSET Linodes, NEW left \in Seq(VPCs \X Families),
         NEW V \in SUBSET Linodes, Proceed(c, S, left, V), Still
  PROVE  Types'
  <1>1. CASE left = <<>>
    <2>1. /\ refresh' = NoRefresh /\ call' = [call EXCEPT ![c].pc = "search"]
          /\ nodeCache' = [nodes |-> {l \in S : VPCNames = <<>> \/ l \in V},
                           fresh |-> TRUE, asof |-> S]
      BY <1>1 DEF Proceed, Store
    <2>2. call' \in [Callers -> Calls]
      BY <2>1, CallMoves
    <2>4. nodeCache' \in Caches /\ nodeCache'.nodes \subseteq nodeCache'.asof
      BY <2>1 DEF Caches
    <2> QED
      BY <2>1, <2>2, <2>4, Nothing DEF Types, Still
  <1>2. CASE left # <<>>
    <2>1. nodeCache' = nodeCache /\ call' = call
      BY <1>2 DEF Proceed
    <2>2. refresh' \in Refreshes /\ refresh'.by = c /\ refresh'.left = left
      BY <1>2, SMT DEF Proceed, Refreshes
    <2> QED
      BY <1>2, <2>1, <2>2 DEF Types, Still
  <1> QED
    BY <1>1, <1>2

\* Every step of a refresh keeps the types.
LEMMA RefreshTypes ==
  ASSUME Types, NEW c \in Callers, Refresh(c)
  PROVE  Types'
  <1>0. c # None /\ Still
    BY NoneAssumption DEF Refresh, RefreshInstances, GetVPCIPAddresses, VPCNotFound,
                          GetVPCIPAddressesFails, Still, cloud, objects
  <1>1. CASE RefreshInstances(c)
    <2>0. call[c].pc = "refresh" /\ refresh.by = None
      BY <1>1 DEF RefreshInstances
    <2>1. CASE nodeCache.fresh
      <3>1. call' = [call EXCEPT ![c].pc = "search"] /\ UNCHANGED <<nodeCache, refresh>>
        BY <1>1, <2>1 DEF RefreshInstances
      <3>2. call' \in [Callers -> Calls]
        BY <2>0, <3>1, CallMoves
      <3> QED
        BY <1>0, <2>0, <3>1, <3>2 DEF Types, Still
    <2>2. CASE Proceed(c, running, Listings, {})
      <3>1. running \in SUBSET Linodes /\ {} \in SUBSET Linodes
        BY DEF Types
      <3> QED
        BY <1>0, <2>0, <2>2, <3>1, ProceedTypes, ListingsType
    <2>3. CASE Abandon(c)
      BY <1>0, <2>0, <2>3, AbandonTypes
    <2> QED
      BY <1>1, <2>1, <2>2, <2>3 DEF RefreshInstances
  <1>2. CASE GetVPCIPAddresses(c)
    <2>0. refresh.by = c
      BY <1>2 DEF GetVPCIPAddresses
    <2>1. /\ call[c].pc = "refresh" /\ refresh.instances \in SUBSET Linodes
          /\ Tail(refresh.left) \in Seq(VPCs \X Families) /\ refresh.vpcNodes \subseteq Linodes
      BY <1>0, <2>0, SMT DEF Types, Refreshes
    <2>2. PICK filter : Proceed(c, refresh.instances, Tail(refresh.left),
            refresh.vpcNodes \cup ListVPCIPs(Head(refresh.left)[1], Head(refresh.left)[2], filter))
      BY <1>2 DEF GetVPCIPAddresses
    <2>3. refresh.vpcNodes \cup ListVPCIPs(Head(refresh.left)[1], Head(refresh.left)[2], filter)
            \in SUBSET Linodes
      BY <2>1 DEF ListVPCIPs, Types
    <2> QED
      BY <1>0, <2>0, <2>1, <2>2, <2>3, ProceedTypes
  <1>3. CASE VPCNotFound(c) \/ GetVPCIPAddressesFails(c)
    <2>1. refresh.by = c /\ Abandon(c)
      BY <1>3 DEF VPCNotFound, GetVPCIPAddressesFails
    <2> QED
      BY <1>0, <2>1, AbandonTypes
  <1> QED
    BY <1>1, <1>2, <1>3 DEF Refresh

\* Every answer to a caller keeps the types.
LEMMA AnswerTypes ==
  ASSUME Types, NEW c \in Callers, Answer(c)
  PROVE  Types'
  <1>0. UNCHANGED <<running, deleted, nodeCache, refresh>>
    BY ZenonT(30) DEF Answer, InstanceExists, LookupForMetadata, InstanceMetadata, cloud
  <1>1. call[c].pc \in {"search", "ips"} /\ call[c] \in Calls
    BY DEF Answer, InstanceExists, LookupForMetadata, InstanceMetadata, Types
  <1>2. refresh.by # None => refresh.by # c
    BY <1>1 DEF Types
  <1>3. ASSUME call' \in [Callers -> Calls], \A d \in Callers \ {c} : call'[d] = call[d],
               node' \in [Nodes -> MaybeLinode], providerID' \in [Nodes -> MaybeLinode],
               addresses' \in [Nodes -> MaybeLinode]
        PROVE  Types'
    BY <1>0, <1>2, <1>3 DEF Types, Refreshes
  <1>4. Return(c) => call' \in [Callers -> Calls] /\ \A d \in Callers \ {c} : call'[d] = call[d]
    BY CallReturns DEF Types
  <1>5. CASE c = "lifecycle" /\ InstanceExists
    <2>1. /\ node' \in [Nodes -> MaybeLinode] /\ providerID' \in [Nodes -> MaybeLinode]
          /\ addresses' \in [Nodes -> MaybeLinode]
      <3>1. \/ UNCHANGED <<node, providerID, addresses>>
            \/ /\ node' = [node EXCEPT ![call["lifecycle"].node] = None]
               /\ providerID' = [providerID EXCEPT ![call["lifecycle"].node] = None]
               /\ addresses' = [addresses EXCEPT ![call["lifecycle"].node] = None]
        BY <1>5 DEF InstanceExists, objects
      <3> QED
        BY <3>1 DEF Types, MaybeLinode
    <2>2. Return(c)
      BY <1>5 DEF InstanceExists
    <2> QED
      BY <1>3, <1>4, <2>1, <2>2
  <1>6. CASE c = "node" /\ LookupForMetadata
    <2>1. UNCHANGED <<node, providerID, addresses>>
      BY <1>6 DEF LookupForMetadata, objects
    <2>2. CASE Return(c)
      BY <1>3, <1>4, <2>1, <2>2 DEF Types
    <2>3. CASE ~Return(c)
      <3> DEFINE k == call["node"]
      <3>1. PICK x \in LookupLinode(k) :
              call' = [call EXCEPT !["node"] =
                         IF k.linode = None THEN [k EXCEPT !.linode = x, !.pc = "refresh"]
                         ELSE [k EXCEPT !.second = x, !.pc = "ips"]]
        BY <1>6, <2>3 DEF LookupForMetadata
      <3>2. x \in Linodes
        BY DEF LookupLinode, linodeByID, linodeByName, linodeByIP, Types, Caches
      <3>3. k \in Calls
        BY <1>1, <1>6
      <3>4. /\ [k EXCEPT !.linode = x, !.pc = "refresh"] \in Calls
            /\ [k EXCEPT !.second = x, !.pc = "ips"] \in Calls
        BY <3>2, <3>3 DEF Calls, MaybeLinode
      <3> HIDE DEF k
      <3>5. call' \in [Callers -> Calls] /\ \A d \in Callers \ {c} : call'[d] = call[d]
        BY <1>6, <3>1, <3>4 DEF Types
      <3> QED
        BY <1>3, <2>1, <3>5 DEF Types
    <2> QED
      BY <2>2, <2>3
  <1>7. CASE c = "node" /\ InstanceMetadata
    <2>1. node' = node /\ Return(c)
      BY <1>7 DEF InstanceMetadata
    <2>2. providerID' \in [Nodes -> MaybeLinode] /\ addresses' \in [Nodes -> MaybeLinode]
      <3>1. CASE UNCHANGED <<providerID, addresses>>
        BY <3>1 DEF Types
      <3>2. CASE ~UNCHANGED <<providerID, addresses>>
        <4> DEFINE k == call["node"]
        <4>1. /\ providerID' = [providerID EXCEPT ![k.node] = IF @ = None THEN k.linode ELSE @]
              /\ addresses' = [addresses EXCEPT ![k.node] = k.second]
          BY <1>7, <3>2 DEF InstanceMetadata
        <4>2. k.linode \in MaybeLinode /\ k.second \in MaybeLinode
          BY <1>1, <1>7 DEF Calls
        <4> HIDE DEF k
        <4> QED
          BY <4>1, <4>2 DEF Types
      <3> QED
        BY <3>1, <3>2
    <2> QED
      BY <1>3, <1>4, <2>1, <2>2 DEF Types
  <1> QED
    BY <1>5, <1>6, <1>7 DEF Answer


\* Every step keeps the types of the calls and the caches.
LEMMA NextTypes == Types /\ [Next]_vars => Types'
  <1> SUFFICES ASSUME Types, [Next]_vars PROVE Types'
    OBVIOUS
  <1>1. ASSUME NEW l \in Linodes, CreateLinode(l) PROVE Types'
    BY <1>1 DEF CreateLinode, objects, Types
  <1>2. ASSUME NEW l \in Linodes, DeleteLinode(l) PROVE Types'
    BY <1>2 DEF DeleteLinode, objects, Types
  <1>3. ASSUME NEW l \in Linodes, Join(l) PROVE Types'
    BY <1>3 DEF Join, cloud, Types, MaybeLinode
  <1>4. ASSUME NEW c \in Callers, NEW n \in Nodes, Begin(c, n) PROVE Types'
    <2> DEFINE k == [pc |-> "refresh", node |-> n, providerID |-> providerID[n],
                     reports |-> About[node[n]].reports, linode |-> None, second |-> None]
    <2>1. /\ node[n] # None /\ call' = [call EXCEPT ![c] = k] /\ call[c].pc = "idle"
          /\ Still /\ UNCHANGED <<nodeCache, refresh>>
      BY <1>4 DEF Begin, cloud, objects, Still
    <2>2. node[n] \in Linodes
      BY <2>1 DEF Types, MaybeLinode
    <2>3. k \in Calls
      BY <2>2 DEF Types, Calls, MaybeLinode
    <2> HIDE DEF k
    <2> QED
      BY <2>1, <2>3 DEF Types, Still, Refreshes
  <1>5. ASSUME NEW c \in Callers, Step(c) PROVE Types'
    BY <1>5, RefreshTypes, AnswerTypes DEF Step
  <1>6. ASSUME UNCHANGED <<running, deleted, node, providerID, addresses, nodeCache, refresh, call>>
        PROVE  Types'
    BY <1>6 DEF Types
  <1>7. ASSUME NEW v \in VPCs, ReplaceVPC(v) PROVE Types'
    BY <1>6, <1>7 DEF ReplaceVPC, objects
  <1>8. CASE UNCHANGED vars
    BY <1>6, <1>8 DEF vars, cloud, objects
  <1>9. CASE Expire
    <2>1. /\ Still /\ UNCHANGED <<refresh, call>>
          /\ nodeCache' = [nodeCache EXCEPT !.fresh = FALSE]
      BY <1>9 DEF Expire, Still, cloud, objects
    <2>2. /\ nodeCache' \in Caches
          /\ nodeCache'.nodes = nodeCache.nodes /\ nodeCache'.asof = nodeCache.asof
      BY <2>1 DEF Types, Caches
    <2> QED
      BY <2>1, <2>2 DEF Types, Still
  <1>10. CASE Restart
    <2>1. /\ Still /\ refresh' = NoRefresh /\ call' = [c \in Callers |-> Idle]
          /\ nodeCache' = [nodes |-> {}, fresh |-> FALSE, asof |-> {}]
      BY <1>10 DEF Restart, Still, cloud, objects
    <2>2. nodeCache' \in Caches /\ nodeCache'.nodes \subseteq nodeCache'.asof
      BY <2>1 DEF Caches
    <2> QED
      BY <2>1, <2>2, Nothing DEF Types, Still
  <1> QED
    BY <1>1, <1>2, <1>3, <1>4, <1>5, <1>7, <1>8, <1>9, <1>10 DEF Next

\* What TypeOK says of the VPCs, the options and the bound.
Rest ==
    /\ generation \in [VPCs -> 0 .. MaxDisruptions]
    /\ \A v \in VPCs : generation[v] <= disruptions
    /\ subnetNames \in SubnetOptions
    /\ DOMAIN VpcIDs \subseteq VPCs /\ \A v \in DOMAIN VpcIDs : VpcIDs[v][1] = v
    /\ DOMAIN SubnetIDs \subseteq subnetNames
    /\ disruptions \in 0 .. MaxDisruptions

\* Every step keeps the rest.
LEMMA NextRest == Types /\ Rest /\ [Next]_vars => Rest'
  <1> SUFFICES ASSUME Types, Rest, [Next]_vars PROVE Rest'
    OBVIOUS
  <1>1. ASSUME UNCHANGED <<generation, subnetNames, ids, disruptions>> PROVE Rest'
    BY <1>1 DEF Rest, ids
  <1>2. ASSUME NEW l \in Linodes, CreateLinode(l) \/ DeleteLinode(l) \/ Join(l) PROVE Rest'
    BY <1>1, <1>2 DEF CreateLinode, DeleteLinode, Join, cloud
  <1>3. ASSUME NEW c \in Callers, Answer(c) \/ \E n \in Nodes : Begin(c, n) PROVE Rest'
    BY <1>1, <1>3 DEF Answer, InstanceExists, LookupForMetadata, InstanceMetadata, Begin, cloud
  <1>4. CASE Expire \/ UNCHANGED vars
    BY <1>1, <1>4 DEF Expire, vars, cloud
  <1>5. ASSUME disruptions < MaxDisruptions, disruptions' = disruptions + 1
        PROVE  disruptions' \in 0 .. MaxDisruptions /\ disruptions' >= disruptions
    BY <1>5, BoundsAssumption, SMT DEF Rest
  <1>6. ASSUME NEW v \in VPCs, ReplaceVPC(v) PROVE Rest'
    <2>1. /\ disruptions < MaxDisruptions /\ disruptions' = disruptions + 1
          /\ generation' = [generation EXCEPT ![v] = @ + 1]
          /\ UNCHANGED <<subnetNames, VpcIDs, SubnetIDs>>
      BY <1>6 DEF ReplaceVPC, ids
    <2>2. generation[v] + 1 \in 0 .. MaxDisruptions
      BY <2>1, BoundsAssumption, SMT DEF Rest
    <2> QED
      BY <1>5, <2>1, <2>2, SMT DEF Rest
  <1>7. CASE Restart
    <2>1. /\ disruptions < MaxDisruptions /\ disruptions' = disruptions + 1
          /\ VpcIDs' = Empty /\ SubnetIDs' = Empty /\ UNCHANGED <<generation, subnetNames>>
      BY <1>7 DEF Restart, MayFail, cloud
    <2> QED
      BY <1>5, <2>1, SMT DEF Rest, Empty
  <1>8. ASSUME NEW c \in Callers, Refresh(c) PROVE Rest'
    <2> DEFINE v == Head(refresh.left)[1]
               id == GetVPCID(v)
    <2>0. UNCHANGED <<generation, subnetNames>>
      BY <1>8 DEF Refresh, RefreshInstances, GetVPCIPAddresses, VPCNotFound,
                  GetVPCIPAddressesFails, cloud
    <2>1. \/ UNCHANGED disruptions
          \/ disruptions < MaxDisruptions /\ disruptions' = disruptions + 1
      <3>1. CASE GetVPCIPAddresses(c)
        <4>1. PICK missed : /\ missed # {} => MayFail("subnets")
                            /\ disruptions' = disruptions + (IF missed = {} THEN 0 ELSE 1)
          BY <3>1 DEF GetVPCIPAddresses
        <4> QED
          BY <4>1, SMT DEF MayFail, Rest
      <3>2. CASE ~GetVPCIPAddresses(c)
        BY <1>8, <3>2 DEF Refresh, RefreshInstances, VPCNotFound, GetVPCIPAddressesFails,
                                 MayFail
      <3> QED
        BY <3>1, <3>2
    <2>2. disruptions' \in 0 .. MaxDisruptions /\ disruptions' >= disruptions
      BY <1>5, <2>1, SMT DEF Rest
    <2>3. refresh.by = c => v \in VPCs
      BY NoneAssumption, SMT DEF Types, Refreshes
    <2>4. v \in VPCs => id[1] = v
      BY DEF GetVPCID, VPCID, Rest
    <2>5. DOMAIN VpcIDs' \subseteq VPCs /\ \A w \in DOMAIN VpcIDs' : VpcIDs'[w][1] = w
      <3>1. \/ UNCHANGED VpcIDs
            \/ refresh.by = c /\ VpcIDs' = [w \in DOMAIN VpcIDs \cup {v} |->
                                              IF w = v THEN id ELSE VpcIDs[w]]
            \/ VpcIDs' = [w \in DOMAIN VpcIDs \ {v} |-> VpcIDs[w]]
        BY <1>8 DEF Refresh, RefreshInstances, GetVPCIPAddresses, VPCNotFound,
                           GetVPCIPAddressesFails, handleNotFoundError, ids
      <3> HIDE DEF v, id
      <3> QED
        BY <2>3, <2>4, <3>1 DEF Rest
    <2>6. DOMAIN SubnetIDs' \subseteq subnetNames
      <3>1. \/ UNCHANGED SubnetIDs
            \/ \E missed : SubnetIDs' = GetSubnetIDs(v, id, Listable(v, id) \ missed)
            \/ SubnetIDs' = GetSubnetIDs(v, id, Listable(v, id))
        BY <1>8 DEF Refresh, RefreshInstances, GetVPCIPAddresses, VPCNotFound,
                           GetVPCIPAddressesFails, ids
      <3>2. Listable(v, id) \subseteq subnetNames
        BY DEF Listable
      <3> HIDE DEF v, id
      <3> QED
        BY <3>1, <3>2 DEF Rest, GetSubnetIDs
    <2> QED
      BY <2>0, <2>2, <2>5, <2>6, SMT DEF Rest
  <1> QED
    BY <1>2, <1>3, <1>4, <1>6, <1>7, <1>8 DEF Next, Step

\* The caches, the calls and the Node objects are well typed: the cache of nodes has
\* only Linodes its listing had, the caches of IDs only VPCs and subnets of the
\* options, and a refresh is one of a caller that waits for it.
THEOREM TypeCorrect == Spec => []TypeOK
  <1>1. Init => Types /\ Rest
    <2>1. Init => 0 \in 0 .. MaxDisruptions
      BY BoundsAssumption, SMT
    <2> QED
      BY <2>1, InitTypes, SMT DEF Init, Rest, Empty
  <1>2. Types /\ Rest => TypeOK
    BY SMT DEF Types, Rest, TypeOK, Caches, Refreshes, Calls
  <1> QED
    BY <1>1, <1>2, NextTypes, NextRest, PTL DEF Spec

-----------------------------------------------------------------------------
\* MetadataRight.

Known == running \cup deleted

\* The Linode l, if it is one, is of the known ones K and meant for the node n.
For(K, l, n) == l = None \/ (l \in K /\ About[l].node = n)

\* No two of the Linodes are meant for the same node.
Unique(S) == \A x, y \in S : About[x].node = About[y].node => x = y

\* What was listed are Linodes of one moment, and a refresh lists later ones than
\* the cache has.
Listed ==
    /\ nodeCache.asof \subseteq Known /\ refresh.instances \subseteq Known
    /\ Unique(running) /\ Unique(nodeCache.asof) /\ Unique(refresh.instances)
    /\ refresh.by # None => nodeCache.asof \cap running \subseteq refresh.instances

\* The Node object of n, with the Linode l it runs on, the provider ID p and the
\* addresses a, is about Linodes meant for it.  R are the running ones.
Object(n, l, p, a, K, R) ==
    /\ For(K, l, n) /\ For(K, p, n) /\ For(K, a, n)
    /\ l = None => p = None
    /\ p = None => a = None
    /\ p \in R => a = p

\* What the call k asks for, and has found, is of Linodes meant for its node.  If
\* the one it found first still runs, it is in the cache, which lists the Linodes A,
\* and the only one that can be found again.
Asks(k, K, R, A) ==
    k.pc # "idle" =>
      /\ k.node \in Nodes
      /\ For(K, k.providerID, k.node) /\ For(K, k.linode, k.node) /\ For(K, k.second, k.node)
      /\ \E m \in Linodes : About[m].node = k.node /\ k.reports = About[m].reports
      /\ k.providerID # None => {k.linode, k.second} \subseteq {None, k.providerID}
      /\ k.linode = None => k.second = None
      /\ k.pc = "ips" => k.linode # None /\ k.second # None
      /\ k.linode \in R => k.linode \in A /\ k.second \in {None, k.linode}

\* The call k finds the Linode l of its node, and no other.
Finds(k, l, A) ==
    /\ k.reports = About[l].reports
    /\ {k.providerID, k.linode, k.second} \subseteq {None, l}
    /\ k.pc \in {"search", "ips"} => l \in A

\* The node n runs on a Linode that every search from now on is about to find.
Settled(n) ==
    node[n] \in running =>
      /\ nodeCache.fresh => node[n] \in nodeCache.asof
      /\ refresh.by # None => node[n] \in refresh.instances
      /\ \A c \in Callers :
           call[c].pc # "idle" /\ call[c].node = n => Finds(call[c], node[n], nodeCache.asof)
      /\ providerID[n] \in {None, node[n]}
      /\ addresses[n] \in {None, node[n]}

\* The provider ID the cloud node controller goes by is the one the node has.
Current(k) ==
    k.pc # "idle" /\ node[k.node] # None => providerID[k.node] = k.providerID

Inv ==
    /\ Types
    /\ Listed
    /\ \A n \in Nodes : Object(n, node[n], providerID[n], addresses[n], Known, running)
    /\ \A c \in Callers : Asks(call[c], Known, running, nodeCache.asof)
    /\ \A n \in Nodes : Settled(n)
    /\ Current(call["node"])

\* Before anything is created, nothing can be mistaken.
LEMMA InitInv == Init => Inv
  <1> SUFFICES ASSUME Init PROVE Inv
    OBVIOUS
  <1>1. Listed
    BY Nothing DEF Init, Listed, Unique, Known
  <1>2. \A n \in Nodes : node[n] = None /\ providerID[n] = None /\ addresses[n] = None
    BY DEF Init
  <1>3. ASSUME NEW n \in Nodes PROVE Object(n, node[n], providerID[n], addresses[n], Known, running)
    BY <1>2 DEF Object, For
  <1>4. \A c \in Callers : call[c].pc = "idle"
    BY Nothing DEF Init
  <1>5. ASSUME NEW n \in Nodes PROVE Settled(n)
    BY <1>2, NoneAssumption DEF Init, Settled
  <1>6. Current(call["node"])
    BY <1>4 DEF Current, Callers
  <1> QED
    BY <1>1, <1>3, <1>4, <1>5, <1>6, InitTypes DEF Inv, Asks

\* From known Linodes K, running ones R and a listing A to later ones.
Later(K, R, A, K2, R2, A2) ==
    /\ K \subseteq K2
    /\ None \notin R2 /\ \A l \in K : l \in R2 => l \in R
    /\ A \cap R2 \subseteq A2

\* A call that only moves on asks for the same in a later state.
LEMMA AsksOn ==
  ASSUME NEW k, NEW k2, NEW K, NEW R, NEW A, NEW K2, NEW R2, NEW A2,
         Asks(k, K, R, A), Moved(k, k2), Later(K, R, A, K2, R2, A2)
  PROVE  Asks(k2, K2, R2, A2)
  <1>1. \A l, n : For(K, l, n) => For(K2, l, n) /\ (l \in R2 => l \in R)
    BY DEF For, Later
  <1> QED
    BY <1>1 DEF Asks, Moved, Later

\* As does one that stays where it is.
LEMMA AsksStill ==
  ASSUME NEW k, NEW K, NEW R, NEW A, NEW K2, NEW R2, NEW A2,
         Asks(k, K, R, A), Later(K, R, A, K2, R2, A2)
  PROVE  Asks(k, K2, R2, A2)
  <1>1. CASE k.pc = "idle"
    BY <1>1 DEF Asks
  <1>2. CASE k.pc # "idle"
    BY <1>2, AsksOn DEF Moved
  <1> QED
    BY <1>1, <1>2

\* No call asks for nothing.
LEMMA AsksNothing == ASSUME NEW k, NEW K, NEW R, NEW A, k.pc = "idle" PROVE Asks(k, K, R, A)
  BY DEF Asks

\* A call that stays, or moves on, still has the Linode to be found in a listing A2.
LEMMA FindsOn ==
  ASSUME NEW k, NEW k2, NEW l, NEW A, NEW A2, Finds(k, l, A),
         \/ k2 = k /\ (l \in A => l \in A2)
         \/ Moved(k, k2) /\ l \in A2
  PROVE  Finds(k2, l, A2)
  BY DEF Finds, Moved

\* A Node object that stays is as good in a later state.
LEMMA ObjectOn ==
  ASSUME NEW n, NEW l, NEW p, NEW a, NEW K, NEW R, NEW A, NEW K2, NEW R2, NEW A2,
         Object(n, l, p, a, K, R), Later(K, R, A, K2, R2, A2)
  PROVE  Object(n, l, p, a, K2, R2)
  <1>1. \A m : For(K, m, n) => For(K2, m, n) /\ (m \in R2 => m \in R)
    BY DEF For, Later
  <1> QED
    BY <1>1 DEF Object

\* The Node objects stay, and calls return or move on, to searches that find the
\* Linodes of all nodes.
Quiet ==
    /\ Later(Known, running, nodeCache.asof, Known', running', nodeCache'.asof)
    /\ UNCHANGED <<node, providerID, addresses>>
    /\ \A d \in Callers :
         \/ call'[d].pc = "idle"
         \/ call'[d] = call[d]
         \/ /\ Moved(call[d], call'[d])
            /\ \A n \in Nodes : node[n] \in running' => node[n] \in nodeCache'.asof
    /\ \A n \in Nodes :
         node[n] \in running' =>
           /\ nodeCache'.fresh => node[n] \in nodeCache'.asof
           /\ refresh'.by # None => node[n] \in refresh'.instances

\* Such a step keeps the invariant.
LEMMA QuietKeeps == ASSUME Inv, Types', Listed', Quiet PROVE Inv'
  <1>1. ASSUME NEW n \in Nodes
        PROVE  Object(n, node'[n], providerID'[n], addresses'[n], Known', running')
    BY ObjectOn DEF Inv, Quiet
  <1>2. ASSUME NEW d \in Callers PROVE Asks(call'[d], Known', running', nodeCache'.asof)
    <2>1. Asks(call[d], Known, running, nodeCache.asof)
      BY DEF Inv
    <2> QED
      BY <2>1, AsksOn, AsksStill, AsksNothing, SMT DEF Quiet
  <1>3. ASSUME NEW n \in Nodes PROVE Settled(n)'
    <2> SUFFICES ASSUME node[n] \in running' PROVE Settled(n)'
      BY DEF Settled, Quiet
    <2>1. node[n] \in running
      <3>1. Object(n, node[n], providerID[n], addresses[n], Known, running)
        BY DEF Inv
      <3> QED
        BY <3>1 DEF Object, For, Quiet, Later
    <2>2. ASSUME NEW d \in Callers, call'[d].pc # "idle", call'[d].node = n
          PROVE  Finds(call'[d], node[n], nodeCache'.asof)
      <3>1. /\ call[d].pc # "idle" /\ call[d].node = n
            /\ \/ call'[d] = call[d]
               \/ Moved(call[d], call'[d]) /\ node[n] \in nodeCache'.asof
        BY <2>2 DEF Quiet, Moved
      <3>2. Finds(call[d], node[n], nodeCache.asof)
        BY <2>1, <3>1 DEF Inv, Settled
      <3>3. node[n] \in nodeCache.asof => node[n] \in nodeCache'.asof
        BY DEF Quiet, Later
      <3> QED
        BY <3>1, <3>2, <3>3, FindsOn
    <2>3. providerID[n] \in {None, node[n]} /\ addresses[n] \in {None, node[n]}
      BY <2>1 DEF Inv, Settled
    <2> QED
      BY <2>2, <2>3 DEF Settled, Quiet
  <1>4. Current(call["node"])'
    <2>1. "node" \in Callers
      BY DEF Callers
    <2> QED
      BY <2>1 DEF Inv, Current, Quiet, Moved
  <1> QED
    BY <1>1, <1>2, <1>3, <1>4 DEF Inv

\* Steps that leave the Linodes and the Node objects alone.
LEMMA StillKeeps ==
  ASSUME Inv, Types', Listed', Still,
         nodeCache.asof \cap running \subseteq nodeCache'.asof,
         \A d \in Callers :
           \/ call'[d].pc = "idle" \/ call'[d] = call[d]
           \/ /\ Moved(call[d], call'[d])
              /\ \A n \in Nodes : node[n] \in running => node[n] \in nodeCache'.asof,
         \A n \in Nodes :
           node[n] \in running =>
             /\ nodeCache'.fresh => node[n] \in nodeCache'.asof
             /\ refresh'.by # None => node[n] \in refresh'.instances
  PROVE  Inv'
  <1>1. Known' = Known /\ running' = running /\ UNCHANGED <<node, providerID, addresses>>
    BY DEF Still, Known
  <1>2. Later(Known, running, nodeCache.asof, Known', running', nodeCache'.asof)
    BY <1>1, NoneAssumption DEF Later, Inv, Types
  <1> QED
    BY <1>1, <1>2, QuietKeeps DEF Quiet

\* What the Linodes S of a refresh are: listed at one moment, no earlier than what
\* the cache has and than the nodes came to run on their Linodes.
Snapshot(S) ==
    /\ S \subseteq Known
    /\ Unique(S)
    /\ nodeCache.asof \cap running \subseteq S
    /\ \A n \in Nodes : node[n] \in running => node[n] \in S

\* The Linodes that are running now are a snapshot, and those of a refresh that is
\* under way stay one; so do those of a cache that is fresh.
LEMMA Snapshots ==
  Inv => /\ Snapshot(running)
         /\ refresh.by # None => Snapshot(refresh.instances)
         /\ nodeCache.fresh => Snapshot(nodeCache.asof)
  BY DEF Inv, Listed, Settled, Snapshot, Known

\* A refresh that gives up keeps the cache and forgets what it had listed.
LEMMA AbandonKeeps ==
  ASSUME Inv, Types', NEW c \in Callers, Abandon(c), Still
  PROVE  Inv'
  <1>1. call'[c].pc = "idle" /\ \A d \in Callers \ {c} : call'[d] = call[d]
    BY CallReturns DEF Abandon, Inv
  <1>2. refresh'.by = None /\ refresh'.instances = {} /\ nodeCache' = nodeCache
    BY Nothing DEF Abandon
  <1>3. Listed'
    BY <1>2 DEF Inv, Listed, Unique, Still, Known
  <1>4. \A n \in Nodes : node[n] \in running => (nodeCache.fresh => node[n] \in nodeCache.asof)
    BY DEF Inv, Settled
  <1> QED
    BY <1>1, <1>2, <1>3, <1>4, StillKeeps

\* A caller goes on to search a cache that is a snapshot.
LEMMA SearchKeeps ==
  ASSUME Inv, Types', NEW c \in Callers, call[c].pc = "refresh",
         call' = [call EXCEPT ![c].pc = "search"], Snapshot(nodeCache'.asof),
         refresh'.by = None, refresh'.instances \in {{}, refresh.instances}, Still
  PROVE  Inv'
  <1>1. Moved(call[c], call'[c]) /\ \A d \in Callers \ {c} : call'[d] = call[d]
    BY CallMoves DEF Inv
  <1>2. Listed'
    BY DEF Inv, Listed, Snapshot, Unique, Still, Known
  <1> QED
    BY <1>1, <1>2, StillKeeps DEF Snapshot

\* A refresh that goes on with a snapshot keeps the invariant, also when it ends and
\* the snapshot becomes the cache under the calls that search it.
LEMMA ProceedKeeps ==
  ASSUME Inv, Types', NEW c \in Callers, call[c].pc = "refresh",
         NEW S, Snapshot(S), NEW left, NEW V, Proceed(c, S, left, V), Still
  PROVE  Inv'
  <1>1. CASE left = <<>>
    <2>1. /\ refresh' = NoRefresh /\ call' = [call EXCEPT ![c].pc = "search"]
          /\ nodeCache' = [nodes |-> {l \in S : VPCNames = <<>> \/ l \in V},
                           fresh |-> TRUE, asof |-> S]
      BY <1>1 DEF Proceed, Store
    <2>2. nodeCache'.asof = S /\ refresh'.by = None /\ refresh'.instances = {}
      BY <2>1, Nothing
    <2> QED
      BY <2>1, <2>2, SearchKeeps
  <1>2. CASE left # <<>>
    <2>1. /\ nodeCache' = nodeCache /\ call' = call
          /\ refresh'.by = c /\ refresh'.instances = S
      BY <1>2, SMT DEF Proceed
    <2>2. Listed'
      BY <2>1 DEF Inv, Listed, Snapshot, Unique, Still, Known
    <2>3. \A n \in Nodes :
            node[n] \in running => node[n] \in S /\ (nodeCache.fresh => node[n] \in nodeCache.asof)
      BY DEF Snapshot, Inv, Settled
    <2> QED
      BY <2>1, <2>2, <2>3, StillKeeps
  <1> QED
    BY <1>1, <1>2

\* The steps of a refresh go on with a snapshot or give up.
LEMMA RefreshKeeps ==
  ASSUME Inv, NEW c \in Callers, Refresh(c)
  PROVE  Inv'
  <1>0. Types' /\ c # None
    BY RefreshTypes, NoneAssumption DEF Inv
  <1>1. Still
    BY DEF Refresh, RefreshInstances, GetVPCIPAddresses, VPCNotFound,
           GetVPCIPAddressesFails, Still, cloud, objects
  <1>2. CASE Abandon(c)
    BY <1>0, <1>1, <1>2, AbandonKeeps
  <1>3. CASE RefreshInstances(c) /\ ~Abandon(c)
    <2>0. call[c].pc = "refresh" /\ refresh.by = None
      BY <1>3 DEF RefreshInstances
    <2>1. CASE nodeCache.fresh
      <3>1. call' = [call EXCEPT ![c].pc = "search"] /\ UNCHANGED <<nodeCache, refresh>>
        BY <1>3, <2>1 DEF RefreshInstances
      <3>2. Snapshot(nodeCache'.asof)
        BY <2>1, <3>1, Snapshots
      <3> QED
        BY <1>0, <1>1, <2>0, <3>1, <3>2, SearchKeeps
    <2>2. CASE Proceed(c, running, Listings, {})
      BY <1>0, <1>1, <2>0, <2>2, ProceedKeeps, Snapshots
    <2> QED
      BY <1>3, <2>1, <2>2 DEF RefreshInstances
  <1>4. CASE GetVPCIPAddresses(c)
    <2>1. refresh.by = c
      BY <1>4 DEF GetVPCIPAddresses
    <2>2. call[c].pc = "refresh" /\ Snapshot(refresh.instances)
      BY <1>0, <2>1, Snapshots DEF Inv, Types
    <2>3. PICK left, V : Proceed(c, refresh.instances, left, V)
      BY <1>4 DEF GetVPCIPAddresses
    <2> QED
      BY <1>0, <1>1, <2>2, <2>3, ProceedKeeps
  <1>5. VPCNotFound(c) \/ GetVPCIPAddressesFails(c) => Abandon(c)
    BY DEF VPCNotFound, GetVPCIPAddressesFails
  <1> QED
    BY <1>2, <1>3, <1>4, <1>5 DEF Refresh

\* What a search finds has been listed and is meant for the node.
LEMMA LookupFor ==
  ASSUME Inv, NEW c \in Callers, call[c].pc # "idle", NEW x \in LookupLinode(call[c])
  PROVE  /\ x \in nodeCache.asof /\ x \in Linodes /\ x \in Known /\ x # None
         /\ About[x].node = call[c].node
         /\ call[c].providerID # None => x = call[c].providerID
  <1> DEFINE k == call[c]
  <1>0. Asks(k, Known, running, nodeCache.asof) /\ k.pc # "idle"
    BY DEF Inv
  <1>1. /\ x \in nodeCache.nodes
        /\ \/ k.providerID # None /\ x = k.providerID
           \/ k.providerID = None /\ About[x].label = k.node
           \/ k.providerID = None /\ About[x].ip \in k.reports
    BY DEF LookupLinode, linodeByID, linodeByName, linodeByIP
  <1>2. x \in nodeCache.asof /\ x \in Linodes /\ x \in Known /\ x # None
    BY <1>1, NoneAssumption DEF Inv, Listed, Known, Types
  <1> HIDE DEF k
  <1>3. /\ \E m \in Linodes : About[m].node = k.node /\ k.reports = About[m].reports
        /\ x = k.providerID => About[x].node = k.node
    BY <1>0, <1>2 DEF Asks, For
  <1>4. About[x].node = k.node
    BY <1>1, <1>2, <1>3, IdentityAssumption, SMT
  <1> QED
    BY <1>1, <1>2, <1>4 DEF k

\* A new Linode is not yet known anywhere.
LEMMA CreateKeeps ==
  ASSUME Inv, Types', NEW l \in Linodes, CreateLinode(l)
  PROVE  Inv'
  <1>1. /\ running' = running \cup {l} /\ deleted' = deleted /\ l \notin Known
        /\ \A m \in running : About[m].node # About[l].node
        /\ UNCHANGED <<node, providerID, addresses, nodeCache, refresh, call>>
    BY DEF CreateLinode, objects, Known
  <1>2. Known \subseteq Known' /\ \A m \in Known : m \in running' => m \in running
    BY <1>1 DEF Known
  <1>3. Later(Known, running, nodeCache.asof, Known', running', nodeCache'.asof)
    BY <1>1, <1>2, NoneAssumption DEF Later, Types
  <1>4. Listed'
    BY <1>1, <1>2, SMT DEF Inv, Listed, Unique
  <1>5. ASSUME NEW n \in Nodes, node[n] \in running' PROVE node[n] \in running
    <2>1. Object(n, node[n], providerID[n], addresses[n], Known, running)
      BY DEF Inv
    <2> QED
      BY <1>2, <1>3, <1>5, <2>1 DEF Object, For, Later
  <1>6. Quiet
    BY <1>1, <1>3, <1>5 DEF Inv, Settled, Quiet
  <1> QED
    BY <1>4, <1>6, QuietKeeps

\* A Linode that is deleted stays known.
LEMMA DeleteKeeps ==
  ASSUME Inv, Types', NEW l \in Linodes, DeleteLinode(l)
  PROVE  Inv'
  <1>1. /\ running' = running \ {l} /\ deleted' = deleted \cup {l} /\ l \in running
        /\ UNCHANGED <<node, providerID, addresses, nodeCache, refresh, call>>
    BY DEF DeleteLinode, objects
  <1>2. Known' = Known /\ running' \subseteq running
    BY <1>1 DEF Known
  <1>3. Later(Known, running, nodeCache.asof, Known', running', nodeCache'.asof)
    BY <1>1, <1>2, NoneAssumption DEF Later, Types
  <1>4. Listed'
    BY <1>1, <1>2 DEF Inv, Listed, Unique
  <1>5. Quiet
    BY <1>1, <1>2, <1>3 DEF Inv, Settled, Quiet
  <1> QED
    BY <1>4, <1>5, QuietKeeps

\* The TTL is over, or the process starts anew: the cache has to be listed again.
LEMMA ForgetKeeps == ASSUME Inv, Types', Expire \/ Restart PROVE Inv'
  <1>1. CASE Expire
    <2>1. /\ Still /\ UNCHANGED <<refresh, call>>
          /\ nodeCache' = [nodeCache EXCEPT !.fresh = FALSE]
      BY <1>1 DEF Expire, Still, cloud, objects
    <2>2. nodeCache'.fresh = FALSE /\ nodeCache'.asof = nodeCache.asof
      BY <2>1 DEF Inv, Types, Caches
    <2>3. Listed'
      BY <2>1, <2>2 DEF Inv, Listed, Unique, Known, Still
    <2>4. \A n \in Nodes :
            node[n] \in running => (refresh.by # None => node[n] \in refresh.instances)
      BY DEF Inv, Settled
    <2> QED
      BY <2>1, <2>2, <2>3, <2>4, StillKeeps
  <1>2. CASE Restart
    <2>1. /\ Still /\ refresh' = NoRefresh /\ call' = [c \in Callers |-> Idle]
          /\ nodeCache' = [nodes |-> {}, fresh |-> FALSE, asof |-> {}]
      BY <1>2 DEF Restart, Still, cloud, objects
    <2>2. /\ nodeCache'.fresh = FALSE /\ nodeCache'.asof = {}
          /\ refresh'.by = None /\ refresh'.instances = {}
          /\ \A c \in Callers : call'[c].pc = "idle"
      BY <2>1, Nothing
    <2>3. Listed'
      BY <2>1, <2>2 DEF Inv, Listed, Unique, Known, Still
    <2>4. \A n \in Nodes : Object(n, node'[n], providerID'[n], addresses'[n], Known', running')
      BY <2>1 DEF Inv, Known, Still
    <2>5. \A c \in Callers : Asks(call'[c], Known', running', nodeCache'.asof)
      BY <2>2, AsksNothing
    <2>6. ASSUME NEW n \in Nodes PROVE Settled(n)'
      BY <2>1, <2>2 DEF Inv, Settled, Still
    <2>7. Current(call["node"])'
      BY <2>2 DEF Current, Callers
    <2> QED
      BY <2>3, <2>4, <2>5, <2>6, <2>7 DEF Inv
  <1> QED
    BY <1>1, <1>2

\* A kubelet registers its node when the cache has seen its Linode boot and no call for
\* the node is under way.
LEMMA JoinKeeps ==
  ASSUME ~QuickBoot, Inv, Types', NEW l \in Linodes, Join(l)
  PROVE  Inv'
  <1> DEFINE j == About[l].node
  <1>1. /\ j \in Nodes /\ l \in running /\ Booted(l)
        /\ node[j] = None \/ providerID[j] \in {None, l}
        /\ node' = [node EXCEPT ![j] = l]
        /\ UNCHANGED <<running, deleted, providerID, addresses, nodeCache, refresh, call>>
    BY DEF Join, Nodes, cloud
  <1>2. node'[j] = l /\ \A n \in Nodes \ {j} : node'[n] = node[n]
    BY <1>1 DEF Inv, Types
  <1> HIDE DEF j
  <1>3. About[l].node = j /\ Known' = Known /\ l \in Known /\ l # None
    BY <1>1, NoneAssumption DEF j, Known
  <1>4. Listed'
    BY <1>1, <1>3 DEF Inv, Listed, Unique
  <1>5. Object(j, node[j], providerID[j], addresses[j], Known, running)
    BY <1>1 DEF Inv
  <1>6. /\ Object(j, l, providerID[j], addresses[j], Known, running)
        /\ providerID[j] \in {None, l} /\ addresses[j] \in {None, l}
    BY <1>1, <1>3, <1>5 DEF Object, For
  <1>7. ASSUME NEW n \in Nodes
        PROVE  Object(n, node'[n], providerID'[n], addresses'[n], Known', running')
    BY <1>1, <1>2, <1>3, <1>6 DEF Inv
  <1>8. \A c \in Callers : Asks(call'[c], Known', running', nodeCache'.asof)
    BY <1>1, <1>3 DEF Inv
  <1>9. \A c \in Callers : call[c].pc = "idle" \/ call[c].node # j
    BY <1>1, <1>3 DEF Booted
  <1>10. ASSUME NEW n \in Nodes PROVE Settled(n)'
    <2>1. CASE n = j
      BY <1>1, <1>2, <1>6, <1>9, <2>1, SMT DEF Settled, Booted
    <2>2. CASE n # j
      BY <1>1, <1>2, <2>2, SMT DEF Inv, Settled
    <2> QED
      BY <2>1, <2>2
  <1>11. Current(call["node"])'
    <2>1. "node" \in Callers /\ Asks(call["node"], Known, running, nodeCache.asof)
      BY DEF Inv, Callers
    <2>2. call["node"].pc # "idle" => call["node"].node \in Nodes \ {j}
      BY <1>9, <2>1 DEF Asks
    <2> QED
      BY <1>1, <1>2, <2>2 DEF Inv, Current
  <1> QED
    BY <1>4, <1>7, <1>8, <1>10, <1>11 DEF Inv

\* A call begins with what the node is then.
LEMMA BeginKeeps ==
  ASSUME Inv, Types', NEW c \in Callers, NEW b \in Nodes, Begin(c, b)
  PROVE  Inv'
  <1> DEFINE m == node[b]
             k == [pc |-> "refresh", node |-> b, providerID |-> providerID[b],
                   reports |-> About[m].reports, linode |-> None, second |-> None]
  <1>1. /\ m # None /\ call' = [call EXCEPT ![c] = k]
        /\ UNCHANGED <<running, deleted, node, providerID, addresses, nodeCache, refresh>>
    BY DEF Begin, cloud, objects
  <1>2. /\ k.pc = "refresh" /\ k.node = b /\ k.providerID = providerID[b]
        /\ k.reports = About[m].reports /\ k.linode = None /\ k.second = None
    OBVIOUS
  <1> HIDE DEF k
  <1>3. call'[c] = k /\ \A d \in Callers \ {c} : call'[d] = call[d]
    BY <1>1 DEF Inv, Types
  <1>4. /\ m \in Linodes /\ About[m].node = b /\ None \notin running
        /\ For(Known, providerID[b], b)
    <2>1. Object(b, m, providerID[b], addresses[b], Known, running)
      BY DEF Inv
    <2> QED
      BY <1>1, <2>1, NoneAssumption DEF Inv, Types, Known, Object, For
  <1>5. Asks(k, Known, running, nodeCache.asof)
    BY <1>2, <1>4 DEF Asks, For
  <1>6. m \in running => Finds(k, m, nodeCache.asof)
    BY <1>2 DEF Inv, Settled, Finds
  <1> HIDE DEF m
  <1>7. Known' = Known /\ node[b] = m
    BY <1>1 DEF Known, m
  <1>8. Listed'
    BY <1>1, <1>7 DEF Inv, Listed, Unique
  <1>9. \A n \in Nodes : Object(n, node'[n], providerID'[n], addresses'[n], Known', running')
    BY <1>1, <1>7 DEF Inv
  <1>10. ASSUME NEW d \in Callers PROVE Asks(call'[d], Known', running', nodeCache'.asof)
    BY <1>1, <1>3, <1>5, <1>7 DEF Inv
  <1>11. ASSUME NEW n \in Nodes PROVE Settled(n)'
    <2> SUFFICES ASSUME node[n] \in running PROVE Settled(n)'
      BY <1>1 DEF Settled
    <2>1. ASSUME NEW d \in Callers, call'[d].pc # "idle", call'[d].node = n
          PROVE  Finds(call'[d], node[n], nodeCache.asof)
      BY <1>2, <1>3, <1>6, <1>7, <2>1, SMT DEF Inv, Settled
    <2> QED
      BY <1>1, <2>1 DEF Inv, Settled
  <1>12. Current(call["node"])'
    BY <1>1, <1>2, <1>3 DEF Inv, Current, Callers
  <1> QED
    BY <1>8, <1>9, <1>10, <1>11, <1>12 DEF Inv

\* The lifecycle controller's answer keeps the node or deletes all of it.
LEMMA ExistsKeeps == ASSUME Inv, Types', InstanceExists PROVE Inv'
  <1> DEFINE r == call["lifecycle"].node
  <1>0. "lifecycle" \in Callers /\ "node" \in Callers \ {"lifecycle"}
    BY DEF Callers
  <1>1. /\ call'["lifecycle"].pc = "idle" /\ call'["node"] = call["node"]
        /\ \A c \in Callers : call'[c].pc # "idle" => call'[c] = call[c]
    BY <1>0, CallReturns DEF Inv, InstanceExists
  <1>2. /\ UNCHANGED <<running, deleted, nodeCache, refresh>>
        /\ call["lifecycle"].pc = "search"
    BY DEF InstanceExists, cloud
  <1>3. r \in Nodes
    BY <1>0, <1>2 DEF Inv, Asks
  <1>4. \/ UNCHANGED <<node, providerID, addresses>>
        \/ /\ node' = [node EXCEPT ![r] = None]
           /\ providerID' = [providerID EXCEPT ![r] = None]
           /\ addresses' = [addresses EXCEPT ![r] = None]
    BY DEF InstanceExists, objects
  <1> HIDE DEF r
  <1>5. \A n \in Nodes :
          \/ node'[n] = node[n] /\ providerID'[n] = providerID[n] /\ addresses'[n] = addresses[n]
          \/ node'[n] = None /\ providerID'[n] = None /\ addresses'[n] = None
    BY <1>3, <1>4 DEF Inv, Types
  <1>6. None \notin running /\ Known' = Known
    BY <1>2, NoneAssumption DEF Inv, Types, Known
  <1>7. Listed'
    BY <1>2, <1>6 DEF Inv, Listed, Unique
  <1>8. ASSUME NEW n \in Nodes
        PROVE  Object(n, node'[n], providerID'[n], addresses'[n], Known', running')
    <2>1. Object(n, None, None, None, Known, running)
      BY <1>6 DEF Object, For
    <2> QED
      BY <1>2, <1>5, <1>6, <2>1 DEF Inv
  <1>9. ASSUME NEW c \in Callers PROVE Asks(call'[c], Known', running', nodeCache'.asof)
    BY <1>1, <1>2, <1>6, AsksNothing DEF Inv
  <1>10. ASSUME NEW n \in Nodes PROVE Settled(n)'
    BY <1>1, <1>2, <1>5, <1>6, SMT DEF Inv, Settled
  <1>11. Current(call["node"])'
    <2>1. call["node"].pc # "idle" => call["node"].node \in Nodes
      BY <1>0 DEF Inv, Asks
    <2> QED
      BY <1>1, <1>5, <2>1 DEF Inv, Current
  <1> QED
    BY <1>7, <1>8, <1>9, <1>10, <1>11 DEF Inv

\* The call k2 is k, which has found the Linode x.
Found(k, k2, x) ==
    /\ k2.node = k.node /\ k2.providerID = k.providerID /\ k2.reports = k.reports
    /\ \/ k.linode = None /\ k2.linode = x /\ k2.second = k.second /\ k2.pc = "refresh"
       \/ k.linode # None /\ k2.linode = k.linode /\ k2.second = x /\ k2.pc = "ips"

\* A Linode of the node found in the cache is the one found before, if that still runs.
LEMMA AsksFound ==
  ASSUME NEW k, NEW k2, NEW x, NEW K, NEW R, NEW A, Found(k, k2, x), k.pc = "search",
         Asks(k, K, R, A), Unique(A), x \in A, x \in K, x # None, About[x].node = k.node,
         k.providerID # None => x = k.providerID
  PROVE  Asks(k2, K, R, A)
  <1>1. For(K, x, k.node)
    BY DEF For
  <1>2. k.linode # None /\ k.linode \in R => x = k.linode
    BY DEF Asks, For, Unique
  <1>3. k.second = None \/ k.linode # None
    BY DEF Asks
  <1> QED
    BY <1>1, <1>2, <1>3, SMT DEF Asks, Found

\* The Linode of the node is found, if it runs.
LEMMA FindsFound ==
  ASSUME NEW k, NEW k2, NEW x, NEW l, NEW A, Found(k, k2, x), k.pc = "search",
         Finds(k, l, A), Unique(A), x \in A, About[x].node = About[l].node
  PROVE  Finds(k2, l, A)
  BY DEF Finds, Found, Unique

\* A search of InstanceMetadata finds what the one before it found, if that still runs,
\* and the Linode of the node, if it runs.
LEMMA LookupKeeps == ASSUME Inv, Types', LookupForMetadata PROVE Inv'
  <1> DEFINE k == call["node"]
  <1>0. "node" \in Callers /\ k.pc = "search" /\ k \in Calls
    BY DEF LookupForMetadata, Callers, Inv, Types
  <1>1. Still /\ UNCHANGED <<nodeCache, refresh>>
    BY DEF LookupForMetadata, Still, cloud, objects
  <1>2. Listed'
    BY <1>1 DEF Inv, Listed, Unique, Known, Still
  <1>3. \A n \in Nodes : node[n] \in running =>
          /\ nodeCache.fresh => node[n] \in nodeCache.asof
          /\ refresh.by # None => node[n] \in refresh.instances
    BY DEF Inv, Settled
  <1>4. CASE Return("node")
    <2>1. call'["node"].pc = "idle" /\ \A c \in Callers \ {"node"} : call'[c] = call[c]
      BY <1>0, <1>4, CallReturns DEF Inv
    <2> QED
      BY <1>1, <1>2, <1>3, <2>1, StillKeeps
  <1>5. CASE ~Return("node")
    <2>1. PICK x \in LookupLinode(k) :
            call' = [call EXCEPT !["node"] =
                       IF k.linode = None THEN [k EXCEPT !.linode = x, !.pc = "refresh"]
                       ELSE [k EXCEPT !.second = x, !.pc = "ips"]]
      BY <1>5 DEF LookupForMetadata
    <2>2. /\ x \in nodeCache.asof /\ x \in Known /\ x # None
          /\ About[x].node = k.node /\ (k.providerID # None => x = k.providerID)
      BY <1>0, LookupFor
    <2>3. Found(k, k', x)
      <3>1. CASE k.linode = None
        <4>1. k' = [[k EXCEPT !.linode = x] EXCEPT !.pc = "refresh"]
          BY <1>0, <2>1, <3>1 DEF Inv, Types
        <4> QED
          BY <1>0, <3>1, <4>1 DEF Calls, Found
      <3>2. CASE k.linode # None
        <4>1. k' = [[k EXCEPT !.second = x] EXCEPT !.pc = "ips"]
          BY <1>0, <2>1, <3>2 DEF Inv, Types
        <4> QED
          BY <1>0, <3>2, <4>1 DEF Calls, Found
      <3> QED
        BY <3>1, <3>2
    <2>4. \A c \in Callers \ {"node"} : call'[c] = call[c]
      BY <1>0, <2>1 DEF Inv, Types
    <2> HIDE DEF k
    <2>5. /\ call["node"] = k /\ call'["node"] = k' /\ Known' = Known
          /\ Asks(k, Known, running, nodeCache.asof) /\ Unique(nodeCache.asof)
      BY <1>0, <1>1 DEF k, Inv, Listed, Still, Known
    <2>6. Asks(k', Known, running, nodeCache.asof)
      BY <1>0, <2>2, <2>3, <2>5, AsksFound
    <2>7. ASSUME NEW n \in Nodes
          PROVE  Object(n, node'[n], providerID'[n], addresses'[n], Known', running')
      BY <1>1, <2>5 DEF Inv, Still
    <2>8. ASSUME NEW c \in Callers PROVE Asks(call'[c], Known', running', nodeCache'.asof)
      BY <1>1, <2>4, <2>5, <2>6 DEF Inv, Still
    <2>9. ASSUME NEW n \in Nodes PROVE Settled(n)'
      <3> SUFFICES ASSUME node[n] \in running PROVE Settled(n)'
        BY <1>1 DEF Settled, Still
      <3>1. About[node[n]].node = n
        <4>1. Object(n, node[n], providerID[n], addresses[n], Known, running)
          BY DEF Inv
        <4> QED
          BY <4>1, NoneAssumption, SMT DEF Object, For, Inv, Types
      <3>2. ASSUME NEW c \in Callers, call'[c].pc # "idle", call'[c].node = n
            PROVE  Finds(call'[c], node[n], nodeCache.asof)
        <4>1. CASE c = "node"
          <5>1. k.node = n /\ k.pc # "idle"
            BY <1>0, <2>3, <2>5, <3>2, <4>1 DEF Found
          <5>2. Finds(k, node[n], nodeCache.asof)
            BY <1>0, <2>5, <5>1 DEF Inv, Settled
          <5> QED
            BY <1>0, <2>2, <2>3, <2>5, <3>1, <4>1, <5>1, <5>2, FindsFound
        <4>2. CASE c # "node"
          BY <2>4, <3>2, <4>2 DEF Inv, Settled
        <4> QED
          BY <4>1, <4>2
      <3> QED
        BY <1>1, <3>2 DEF Inv, Settled, Still
    <2>10. Current(call["node"])'
      BY <1>0, <1>1, <2>3, <2>5 DEF Inv, Current, Still, Found
    <2> QED
      BY <1>2, <2>7, <2>8, <2>9, <2>10 DEF Inv
  <1> QED
    BY <1>4, <1>5

\* A node gets a provider ID and addresses of Linodes meant for it, of the same one
\* if that runs.
LEMMA ObjectNamed ==
  ASSUME NEW k, NEW l, NEW p, NEW K, NEW R, NEW A,
         Asks(k, K, R, A), k.pc = "ips", For(K, l, k.node), l # None,
         p = IF k.providerID = None THEN k.linode ELSE k.providerID
  PROVE  Object(k.node, l, p, k.second, K, R)
  <1>1. /\ k.linode # None /\ k.second # None
        /\ k.providerID # None => k.second = k.providerID
        /\ k.linode \in R => k.second = k.linode
        /\ For(K, k.providerID, k.node) /\ For(K, k.linode, k.node) /\ For(K, k.second, k.node)
    BY DEF Asks
  <1> QED
    BY <1>1 DEF Object

\* What InstanceMetadata leaves on the node is of one Linode, if that runs.
LEMMA MetadataKeeps == ASSUME Inv, Types', InstanceMetadata PROVE Inv'
  <1> DEFINE k == call["node"]
             r == k.node
  <1>0. /\ "node" \in Callers /\ k.pc = "ips" /\ Asks(k, Known, running, nodeCache.asof)
        /\ UNCHANGED <<running, deleted, node, nodeCache, refresh>>
    BY DEF InstanceMetadata, Callers, Inv, cloud
  <1>1. r \in Nodes /\ Known' = Known
    BY <1>0 DEF Asks, Known
  <1>2. /\ call'["node"].pc = "idle" /\ \A c \in Callers \ {"node"} : call'[c] = call[c]
        /\ \A c \in Callers : call'[c].pc # "idle" => call'[c] = call[c]
    <2>1. Return("node")
      BY DEF InstanceMetadata
    <2> QED
      BY <1>0, <2>1, CallReturns DEF Inv
  <1>3. Listed'
    BY <1>0, <1>1 DEF Inv, Listed, Unique
  <1>4. CASE k.second \in nodeCache.nodes /\ node[r] # None
    <2>1. /\ providerID' = [providerID EXCEPT ![r] = IF @ = None THEN k.linode ELSE @]
          /\ addresses' = [addresses EXCEPT ![r] = k.second]
      BY <1>4 DEF InstanceMetadata
    <2>2. providerID[r] = k.providerID
      BY <1>0, <1>4 DEF Inv, Current
    <2>3. /\ providerID'[r] = IF k.providerID = None THEN k.linode ELSE k.providerID
          /\ addresses'[r] = k.second
          /\ \A n \in Nodes \ {r} : providerID'[n] = providerID[n] /\ addresses'[n] = addresses[n]
      BY <1>1, <2>1, <2>2 DEF Inv, Types
    <2> HIDE DEF k, r
    <2>4. k.node = r /\ call["node"] = k
      BY DEF k, r
    <2>5. For(Known, node[r], r)
      BY <1>1 DEF Inv, Object
    <2>6. Object(r, node[r], providerID'[r], addresses'[r], Known, running)
      BY <1>0, <1>4, <2>3, <2>4, <2>5, ObjectNamed
    <2>7. ASSUME NEW n \in Nodes
          PROVE  Object(n, node'[n], providerID'[n], addresses'[n], Known', running')
      BY <1>0, <1>1, <2>3, <2>6 DEF Inv
    <2>8. ASSUME NEW c \in Callers PROVE Asks(call'[c], Known', running', nodeCache'.asof)
      BY <1>0, <1>1, <1>2, AsksNothing DEF Inv
    <2>9. ASSUME NEW n \in Nodes PROVE Settled(n)'
      <3> SUFFICES ASSUME node[n] \in running PROVE Settled(n)'
        BY <1>0 DEF Settled
      <3>1. providerID'[n] \in {None, node[n]} /\ addresses'[n] \in {None, node[n]}
        <4>1. CASE n = r
          <5>1. Finds(k, node[n], nodeCache.asof)
            BY <1>0, <2>4, <4>1 DEF Inv, Settled
          <5> QED
            BY <2>3, <4>1, <5>1 DEF Finds
        <4>2. CASE n # r
          BY <2>3, <4>2 DEF Inv, Settled
        <4> QED
          BY <4>1, <4>2
      <3> QED
        BY <1>0, <1>2, <3>1 DEF Inv, Settled
    <2>10. Current(call["node"])'
      BY <1>2 DEF Current
    <2> QED
      BY <1>3, <2>7, <2>8, <2>9, <2>10 DEF Inv
  <1>5. CASE ~(k.second \in nodeCache.nodes /\ node[r] # None)
    <2>1. UNCHANGED <<providerID, addresses>>
      BY <1>5 DEF InstanceMetadata
    <2>2. \A n \in Nodes : node[n] \in running =>
            /\ nodeCache.fresh => node[n] \in nodeCache.asof
            /\ refresh.by # None => node[n] \in refresh.instances
      BY DEF Inv, Settled
    <2> QED
      BY <1>0, <1>2, <1>3, <2>1, <2>2, StillKeeps DEF Still
  <1> QED
    BY <1>4, <1>5

\* Every step keeps the invariant, when a Linode does not boot faster than the cache.
LEMMA NextInv == ~QuickBoot /\ Inv /\ [Next]_vars => Inv'
  <1> SUFFICES ASSUME ~QuickBoot, Inv, [Next]_vars PROVE Inv'
    OBVIOUS
  <1>0. Types'
    BY NextTypes DEF Inv
  <1>1. ASSUME NEW l \in Linodes, CreateLinode(l) \/ DeleteLinode(l) \/ Join(l) PROVE Inv'
    BY <1>0, <1>1, CreateKeeps, DeleteKeeps, JoinKeeps
  <1>2. ASSUME NEW c \in Callers, Step(c) PROVE Inv'
    BY <1>0, <1>2, RefreshKeeps, ExistsKeeps, LookupKeeps, MetadataKeeps DEF Step, Answer
  <1>3. ASSUME NEW c \in Callers, NEW n \in Nodes, Begin(c, n) PROVE Inv'
    BY <1>0, <1>3, BeginKeeps
  <1>4. ASSUME UNCHANGED <<running, deleted, node, providerID, addresses, nodeCache, refresh, call>>
        PROVE  Inv'
    BY <1>0, <1>4 DEF Inv, Listed, Known, Settled, Current
  <1>5. ASSUME NEW v \in VPCs, ReplaceVPC(v) PROVE Inv'
    BY <1>4, <1>5 DEF ReplaceVPC, objects
  <1>6. CASE UNCHANGED vars
    BY <1>4, <1>6 DEF vars, cloud, objects
  <1>7. CASE Expire \/ Restart
    BY <1>0, <1>7, ForgetKeeps
  <1> QED
    BY <1>1, <1>2, <1>3, <1>5, <1>6, <1>7 DEF Next

\* A node gets the provider ID and the addresses of the Linode it runs on, although
\* InstanceMetadata searches a cache that changes between its searches, whatever
\* fails and however often the process restarts, when no Linode boots before the cache
\* can know it.
THEOREM MetadataIsRight == ASSUME ~QuickBoot PROVE Spec => []MetadataRight
  <1>1. Inv => MetadataRight
    BY DEF Inv, Settled, MetadataRight
  <1> QED
    BY <1>1, InitInv, NextInv, PTL DEF Spec

-----------------------------------------------------------------------------
\* The option subnet-names tells the subnets of the VPCs apart: each is in one VPC,
\* can be listed, and keeps its ID.
SubnetsClear ==
    /\ \A v, w \in VPCs : SubnetsOf[v] \cap SubnetsOf[w] # {} => v = w
    /\ "subnets" \notin Failing
    /\ ~StaleSubnets

\* A subnet ID in the cache is of a subnet with that label, in a VPC of now.
SubnetsNow ==
    subnetNames # {} =>
      \A s \in DOMAIN SubnetIDs : \E v \in VPCs :
        s \in SubnetsOf[v] /\ SubnetIDs[s] = SubnetID(VPCID(v), s)

\* A selected Linode of S is in V, or the listings left are about to find it.
Covered(S, V, left) ==
    \A l \in S :
      Selected(l) => l \in V \/ <<About[l].vpc, About[l].family>> \in Range(left)

\* A refresh finds every selected Linode that it has listed.
ToBeFound ==
    VPCNames # <<>> /\ refresh.by # None =>
      Covered(refresh.instances, refresh.vpcNodes, refresh.left)

\* The cache has every selected Linode its listing had.
Complete == \A l \in nodeCache.asof : Selected(l) => l \in nodeCache.nodes

FullInv == Inv /\ SubnetsNow /\ ToBeFound /\ Complete

\* Before the first listing there is nothing to find.
LEMMA InitFullInv == Init => FullInv
  BY InitInv, SMT DEF Init, FullInv, SubnetsNow, ToBeFound, Complete, NoRefresh, Empty

\* What is in a sequence is its head or in its tail.
LEMMA HeadOrTail ==
  ASSUME NEW T, NEW s \in Seq(T), s # <<>>, NEW x \in Range(s)
  PROVE  x = Head(s) \/ x \in Range(Tail(s))
  <1>1. PICK i \in 1 .. Len(s) : s[i] = x
    BY SMT DEF Range
  <1>2. CASE i = 1
    BY <1>1, <1>2, SMT
  <1>3. CASE i # 1
    <2>1. i - 1 \in 1 .. Len(Tail(s)) /\ Tail(s)[i - 1] = s[i]
      BY <1>1, <1>3, SMT
    <2>2. DOMAIN Tail(s) = 1 .. Len(Tail(s))
      BY SMT
    <2> QED
      BY <1>1, <2>1, <2>2 DEF Range
  <1> QED
    BY <1>2, <1>3

\* Every VPC is listed for both families.
LEMMA AllListed ==
  ASSUME NEW v \in VPCs, NEW f \in Families
  PROVE  <<v, f>> \in Range(Listings)
  <1> DEFINE L == Len(VPCNames)
  <1>1. L \in Nat /\ DOMAIN VPCNames = 1 .. L
    BY VPCNamesAssumption, SMT
  <1>2. PICK j \in 1 .. L : VPCNames[j] = v
    BY <1>1 DEF VPCs, Range
  <1>3. CASE f = "v4"
    <2>1. 2 * j - 1 \in 1 .. 2 * L /\ ((2 * j - 1) + 1) \div 2 = j /\ (2 * j - 1) % 2 = 1
      BY <1>1, SMT
    <2>2. Listings[2 * j - 1] = <<v, f>> /\ 2 * j - 1 \in DOMAIN Listings
      BY <1>2, <1>3, <2>1 DEF Listings
    <2> QED
      BY <2>2 DEF Range
  <1>4. CASE f = "v6"
    <2>1. 2 * j \in 1 .. 2 * L /\ (2 * j + 1) \div 2 = j /\ (2 * j) % 2 # 1
      BY <1>1, SMT
    <2>2. Listings[2 * j] = <<v, f>> /\ 2 * j \in DOMAIN Listings
      BY <1>2, <1>4, <2>1 DEF Listings
    <2> QED
      BY <2>2 DEF Range
  <1> QED
    BY <1>3, <1>4 DEF Families

\* A refresh that has covered what it listed leaves a complete cache.
LEMMA ProceedCovers ==
  ASSUME NEW c, NEW S, NEW left, NEW V, Proceed(c, S, left, V), Complete,
         VPCNames # <<>> => Covered(S, V, left),
         UNCHANGED <<running, subnetNames>>
  PROVE  (ToBeFound /\ Complete)'
  <1>0. \A l : Selected(l)' <=> Selected(l)
    BY DEF Selected
  <1>1. CASE left = <<>>
    <2>1. /\ refresh' = NoRefresh
          /\ nodeCache' = [nodes |-> {l \in S : VPCNames = <<>> \/ l \in V},
                           fresh |-> TRUE, asof |-> S]
      BY <1>1 DEF Proceed, Store
    <2>2. Range(left) = {}
      BY <1>1, SMT DEF Range
    <2>3. VPCNames # <<>> => \A l \in S : Selected(l) => l \in V
      BY <2>2 DEF Covered
    <2>4. Complete'
      BY <1>0, <2>1, <2>3 DEF Complete
    <2>5. refresh'.by = None
      BY <2>1 DEF NoRefresh
    <2> QED
      BY <2>4, <2>5 DEF ToBeFound
  <1>2. CASE left # <<>>
    <2>1. /\ refresh'.instances = S /\ refresh'.vpcNodes = V /\ refresh'.left = left
          /\ nodeCache' = nodeCache
      BY <1>2, SMT DEF Proceed
    <2>2. Complete'
      BY <1>0, <2>1 DEF Complete
    <2>3. ToBeFound'
      BY <1>0, <2>1 DEF ToBeFound, Covered
    <2> QED
      BY <2>2, <2>3
  <1> QED
    BY <1>1, <1>2

\* The listing of a VPC for a family finds the selected Linodes that have an address of
\* that family there, by the IDs that the cache of subnets has after it.
LEMMA ListingFinds ==
  ASSUME SubnetsClear, FullInv, NEW v \in VPCs, NEW f,
         SubnetIDs' = GetSubnetIDs(v, VPCID(v), Listable(v, VPCID(v))),
         NEW l \in Linodes, Selected(l), About[l].vpc = v, About[l].family = f
  PROVE  l \in ListVPCIPs(v, f, {SubnetIDs'[s] : s \in subnetNames \cap DOMAIN SubnetIDs'})
  <1> DEFINE s == About[l].subnet
  <1>1. l \in running /\ s \in SubnetsOf[v]
    BY PlacesAssumption DEF Selected
  <1>2. CASE subnetNames = {}
    BY <1>1, <1>2 DEF ListVPCIPs
  <1>3. CASE subnetNames # {}
    <2>1. s \in subnetNames
      <3>1. VPCNames # <<>>
        BY VPCNamesAssumption, SMT DEF VPCs, Range
      <3> QED
        BY <1>3, <3>1 DEF Selected
    <2>2. /\ DOMAIN SubnetIDs' = DOMAIN SubnetIDs \cup Listable(v, VPCID(v))
          /\ s \in DOMAIN SubnetIDs => SubnetIDs'[s] = SubnetIDs[s]
          /\ s \in Listable(v, VPCID(v)) \ DOMAIN SubnetIDs => SubnetIDs'[s] = SubnetID(VPCID(v), s)
      BY DEF GetSubnetIDs
    <2>3. s \in DOMAIN SubnetIDs \cup Listable(v, VPCID(v))
      BY <1>1, <2>1 DEF Listable
    <2>4. s \in DOMAIN SubnetIDs => SubnetIDs[s] = SubnetID(VPCID(v), s)
      BY <1>1, <1>3 DEF FullInv, SubnetsNow, SubnetsClear
    <2>5. SubnetIDs'[s] = SubnetID(VPCID(v), s) /\ s \in DOMAIN SubnetIDs'
      BY <2>2, <2>3, <2>4
    <2> QED
      BY <1>1, <2>1, <2>5 DEF ListVPCIPs
  <1> QED
    BY <1>2, <1>3

\* Looking subnets up in a VPC keeps their IDs right.
LEMMA LookupSubnets ==
  ASSUME SubnetsNow, NEW v \in VPCs, NEW id,
         SubnetIDs' = GetSubnetIDs(v, id, Listable(v, id)), UNCHANGED <<subnetNames, generation>>
  PROVE  SubnetsNow'
  <1> SUFFICES ASSUME subnetNames # {}, NEW s \in DOMAIN SubnetIDs'
               PROVE  \E w \in VPCs : s \in SubnetsOf[w] /\ SubnetIDs'[s] = SubnetID(VPCID(w), s)
    BY DEF SubnetsNow, VPCID
  <1>1. CASE s \in DOMAIN SubnetIDs
    BY <1>1 DEF SubnetsNow, GetSubnetIDs
  <1>2. CASE s \notin DOMAIN SubnetIDs
    <2>1. s \in Listable(v, id) /\ SubnetIDs'[s] = SubnetID(id, s)
      BY <1>2 DEF GetSubnetIDs
    <2>2. id = VPCID(v) /\ s \in SubnetsOf[v]
      BY <2>1 DEF Listable
    <2> QED
      BY <2>1, <2>2
  <1> QED
    BY <1>1, <1>2

\* After the listing of a VPC for a family the refresh still finds the rest.
LEMMA ListingCovers ==
  ASSUME SubnetsClear, FullInv, refresh.by # None, NEW v \in VPCs, NEW f,
         Head(refresh.left) = <<v, f>>, NEW ips,
         SubnetIDs' = GetSubnetIDs(v, VPCID(v), Listable(v, VPCID(v))),
         ips = ListVPCIPs(v, f, {SubnetIDs'[s] : s \in subnetNames \cap DOMAIN SubnetIDs'})
  PROVE  VPCNames # <<>> =>
           Covered(refresh.instances, refresh.vpcNodes \cup ips, Tail(refresh.left))
  <1> SUFFICES ASSUME VPCNames # <<>>, NEW l \in refresh.instances, Selected(l)
               PROVE  \/ l \in refresh.vpcNodes \cup ips
                      \/ <<About[l].vpc, About[l].family>> \in Range(Tail(refresh.left))
    BY DEF Covered
  <1>1. /\ refresh.left \in Seq(VPCs \X Families) /\ refresh.left # <<>>
        /\ l \in Linodes
    BY DEF FullInv, Inv, Types, Refreshes
  <1>2. \/ l \in refresh.vpcNodes
        \/ <<About[l].vpc, About[l].family>> \in Range(refresh.left)
    BY DEF FullInv, ToBeFound, Covered
  <1>3. CASE <<About[l].vpc, About[l].family>> = <<v, f>>
    <2>1. About[l].vpc = v /\ About[l].family = f
      BY <1>3
    <2> QED
      BY <1>1, <2>1, ListingFinds
  <1> QED
    BY <1>1, <1>2, <1>3, HeadOrTail

\* Every step of a refresh keeps the caches complete.
LEMMA RefreshFull ==
  ASSUME SubnetsClear, FullInv, NEW c \in Callers, Refresh(c)
  PROVE  (SubnetsNow /\ ToBeFound /\ Complete)'
  <1>0. /\ UNCHANGED <<running, subnetNames, generation>> /\ c # None
        /\ \A l : Selected(l)' <=> Selected(l)
    <2>1. UNCHANGED <<running, subnetNames, generation>>
      BY DEF Refresh, RefreshInstances, GetVPCIPAddresses, VPCNotFound, GetVPCIPAddressesFails, cloud
    <2> QED
      BY <2>1, NoneAssumption DEF Selected
  <1>1. ASSUME UNCHANGED nodeCache, refresh'.by = None PROVE (ToBeFound /\ Complete)'
    BY <1>0, <1>1 DEF FullInv, ToBeFound, Complete
  <1>2. ASSUME Abandon(c) PROVE (ToBeFound /\ Complete)'
    BY <1>1, <1>2, Nothing DEF Abandon
  <1>3. ASSUME UNCHANGED SubnetIDs PROVE SubnetsNow'
    BY <1>0, <1>3 DEF FullInv, SubnetsNow, VPCID
  <1>4. CASE RefreshInstances(c)
    <2>1. UNCHANGED SubnetIDs /\ refresh.by = None
      BY <1>4 DEF RefreshInstances, ids
    <2>2. CASE UNCHANGED <<nodeCache, refresh>>
      BY <1>1, <1>3, <2>1, <2>2
    <2>3. CASE Proceed(c, running, Listings, {})
      <3>1. VPCNames # <<>> => Covered(running, {}, Listings)
        BY AllListed, PlacesAssumption DEF Covered, Selected, FullInv, Inv, Types
      <3> QED
        BY <1>0, <1>3, <2>1, <2>3, <3>1, ProceedCovers DEF FullInv
    <2>4. CASE Abandon(c)
      BY <1>2, <1>3, <2>1, <2>4
    <2> QED
      BY <1>4, <2>2, <2>3, <2>4 DEF RefreshInstances
  <1>5. CASE refresh.by = c
    <2> DEFINE v == Head(refresh.left)[1]
               f == Head(refresh.left)[2]
    <2>1. v \in VPCs /\ Head(refresh.left) = <<v, f>>
      <3>1. Head(refresh.left) \in VPCs \X Families
        BY <1>0, <1>5, SMT DEF FullInv, Inv, Types, Refreshes
      <3> QED
        BY <3>1, SMT
    <2>2. CASE GetVPCIPAddresses(c)
      <3> DEFINE ips == ListVPCIPs(v, f, {SubnetIDs'[s] : s \in subnetNames \cap DOMAIN SubnetIDs'})
      <3>1. PICK missed \in SUBSET Listable(v, GetVPCID(v)) :
              /\ GetVPCID(v) = VPCID(v)
              /\ missed # {} => MayFail("subnets")
              /\ SubnetIDs' = GetSubnetIDs(v, GetVPCID(v), Listable(v, GetVPCID(v)) \ missed)
              /\ Proceed(c, refresh.instances, Tail(refresh.left), refresh.vpcNodes \cup ips)
        BY <2>2 DEF GetVPCIPAddresses
      <3> HIDE DEF v, f
      <3>2. Listable(v, GetVPCID(v)) \ missed = Listable(v, VPCID(v))
        BY <3>1 DEF MayFail, SubnetsClear
      <3>3. SubnetIDs' = GetSubnetIDs(v, VPCID(v), Listable(v, VPCID(v)))
        BY <3>1, <3>2
      <3>4. VPCNames # <<>> =>
              Covered(refresh.instances, refresh.vpcNodes \cup ips, Tail(refresh.left))
        BY <1>0, <1>5, <2>1, <3>3, ListingCovers
      <3> HIDE DEF ips
      <3>5. (ToBeFound /\ Complete)'
        BY <1>0, <3>1, <3>4, ProceedCovers DEF FullInv
      <3>6. SubnetsNow'
        BY <1>0, <2>1, <3>3, LookupSubnets DEF FullInv
      <3> QED
        BY <3>5, <3>6
    <2>3. CASE VPCNotFound(c)
      BY <1>2, <1>3, <2>3 DEF VPCNotFound
    <2>4. CASE GetVPCIPAddressesFails(c)
      <3>1. \/ UNCHANGED SubnetIDs
            \/ SubnetIDs' = GetSubnetIDs(v, GetVPCID(v), Listable(v, GetVPCID(v)))
        BY <2>4 DEF GetVPCIPAddressesFails, ids
      <3> HIDE DEF v, f
      <3>2. SubnetsNow'
        BY <1>0, <1>3, <2>1, <3>1, LookupSubnets DEF FullInv
      <3> QED
        BY <1>2, <2>4, <3>2 DEF GetVPCIPAddressesFails
    <2> QED
      BY <1>4, <2>2, <2>3, <2>4 DEF Refresh
  <1> QED
    BY <1>4, <1>5 DEF Refresh, GetVPCIPAddresses, VPCNotFound, GetVPCIPAddressesFails

\* Every step keeps the caches complete.
LEMMA NextFullInv == ~QuickBoot /\ SubnetsClear /\ FullInv /\ [Next]_vars => FullInv'
  <1> SUFFICES ASSUME ~QuickBoot, SubnetsClear, FullInv, [Next]_vars PROVE FullInv'
    OBVIOUS
  <1>1. Inv'
    BY NextInv DEF FullInv
  <1>2. ASSUME UNCHANGED <<subnetNames, SubnetIDs, nodeCache, refresh>>,
               \A l \in Known : l \in running' => l \in running,
               generation' = generation \/ subnetNames = {}
        PROVE  FullInv'
    <2>1. \A l \in Known : Selected(l)' => Selected(l)
      BY <1>2 DEF Selected
    <2>2. nodeCache.asof \subseteq Known /\ refresh.instances \subseteq Known
      BY DEF FullInv, Inv, Listed
    <2>3. SubnetsNow'
      BY <1>2 DEF FullInv, SubnetsNow, VPCID
    <2>4. Complete'
      BY <1>2, <2>1, <2>2 DEF FullInv, Complete
    <2>5. ToBeFound'
      BY <1>2, <2>1, <2>2 DEF FullInv, ToBeFound, Covered
    <2> QED
      BY <1>1, <2>3, <2>4, <2>5 DEF FullInv
  <1>3. ASSUME NEW l \in Linodes, CreateLinode(l) \/ DeleteLinode(l) \/ Join(l) PROVE FullInv'
    BY <1>2, <1>3 DEF CreateLinode, DeleteLinode, Join, Known, ids, cloud
  <1>4. ASSUME NEW v \in VPCs, ReplaceVPC(v) PROVE FullInv'
    BY <1>2, <1>4 DEF ReplaceVPC, SubnetsClear, ids
  <1>5. ASSUME NEW c \in Callers, Refresh(c) PROVE FullInv'
    BY <1>1, <1>5, RefreshFull DEF FullInv
  <1>6. ASSUME NEW c \in Callers, Answer(c) PROVE FullInv'
    BY <1>2, <1>6 DEF Answer, InstanceExists, LookupForMetadata, InstanceMetadata, cloud, ids
  <1>7. ASSUME NEW c \in Callers, NEW n \in Nodes, Begin(c, n) PROVE FullInv'
    BY <1>2, <1>7 DEF Begin, cloud, ids
  <1>8. CASE UNCHANGED vars
    BY <1>2, <1>8 DEF vars, cloud, ids
  <1>9. CASE Expire
    <2>1. /\ nodeCache'.nodes = nodeCache.nodes /\ nodeCache'.asof = nodeCache.asof
          /\ UNCHANGED <<running, generation, subnetNames, SubnetIDs, refresh>>
      BY <1>9 DEF Expire, cloud, ids, FullInv, Inv, Types, Caches
    <2> QED
      BY <1>1, <2>1 DEF FullInv, SubnetsNow, VPCID, ToBeFound, Covered, Complete, Selected
  <1>10. CASE Restart
    <2>1. /\ nodeCache'.asof = {} /\ refresh'.by = None /\ DOMAIN SubnetIDs' = {}
      BY <1>10 DEF Restart, NoRefresh, Empty
    <2> QED
      BY <1>1, <2>1 DEF FullInv, SubnetsNow, ToBeFound, Complete
  <1> QED
    BY <1>3, <1>4, <1>5, <1>6, <1>7, <1>8, <1>9, <1>10 DEF Next, Step

\* The search for a node whose Linode is selected is not in vain.
LEMMA SearchFinds ==
  ASSUME FullInv, NEW c \in Callers, call[c].pc = "search", Selected(node[call[c].node])
  PROVE  LookupLinode(call[c]) # {}
  <1> DEFINE k == call[c]
             l == node[k.node]
  <1>1. k.node \in Nodes /\ l \in running /\ l \in Linodes /\ l # None /\ About[l].node = k.node
    <2>1. /\ l \in running /\ l \in Linodes /\ l # None
          /\ Asks(k, Known, running, nodeCache.asof) /\ k.pc # "idle"
      BY NoneAssumption DEF FullInv, Inv, Selected, Types
    <2>2. k.node \in Nodes
      BY <2>1 DEF Asks
    <2>3. Object(k.node, l, providerID[k.node], addresses[k.node], Known, running)
      BY <2>2 DEF FullInv, Inv
    <2> QED
      BY <2>1, <2>2, <2>3 DEF Object, For
  <1>2. Finds(k, l, nodeCache.asof)
    BY <1>1 DEF FullInv, Inv, Settled
  <1>3. l \in nodeCache.nodes
    BY <1>2 DEF Finds, FullInv, Complete
  <1> HIDE DEF l
  <1>4. k.providerID \in {None, l} /\ k.reports = About[l].reports
    BY <1>2 DEF Finds
  <1>5. k.node = About[l].label \/ About[l].ip \in k.reports
    BY <1>1, <1>4, IdentityAssumption
  <1> QED
    BY <1>1, <1>3, <1>4, <1>5 DEF LookupLinode, linodeByID, linodeByName, linodeByIP

\* No node is deleted whose Linode is running in one of the VPCs and subnets of the
\* options, whatever calls fail, however old the cache is when a call begins, and
\* whatever IDs of replaced VPCs are cached.  Linodes are not to boot before the
\* cache can know them, and the option subnet-names is to tell the subnets apart.
THEOREM OnlyDeadAreRemoved ==
  ASSUME ~QuickBoot, SubnetsClear
  PROVE  Spec => OnlyDeadRemoved
  <1>1. FullInv /\ [Next]_vars =>
          [\A n \in Nodes : node[n] # None /\ node'[n] = None => ~Selected(node[n])]_vars
    <2> SUFFICES ASSUME FullInv, Next, NEW n \in Nodes, node[n] # None, node'[n] = None,
                        Selected(node[n])
                 PROVE  FALSE
      OBVIOUS
    <2>1. ASSUME NEW l \in Linodes, Join(l) PROVE FALSE
      <3>1. node' = [node EXCEPT ![About[l].node] = l] /\ node \in [Nodes -> MaybeLinode]
        BY <2>1 DEF Join, FullInv, Inv, Types
      <3> QED
        BY <3>1, NoneAssumption
    <2>2. CASE UNCHANGED node
      BY <2>2
    <2>3. CASE InstanceExists
      <3>1. /\ call["lifecycle"].pc = "search" /\ LookupLinode(call["lifecycle"]) = {}
            /\ node' = [node EXCEPT ![call["lifecycle"].node] = None]
        BY <2>3 DEF InstanceExists, objects
      <3>2. n = call["lifecycle"].node
        BY <3>1 DEF FullInv, Inv, Types
      <3> QED
        BY <3>1, <3>2, SearchFinds DEF Callers
    <2>4. ASSUME NEW c \in Callers, Refresh(c) PROVE UNCHANGED node
      BY <2>4 DEF Refresh, RefreshInstances, GetVPCIPAddresses, VPCNotFound,
                  GetVPCIPAddressesFails, objects
    <2> QED
      BY <2>1, <2>2, <2>3, <2>4 DEF Next, CreateLinode, DeleteLinode, ReplaceVPC, Step, Answer,
           LookupForMetadata, InstanceMetadata, Begin, Expire, Restart, objects
  <1>2. FullInv /\ [Next]_vars => FullInv'
    BY NextFullInv
  <1> QED
    BY <1>1, <1>2, InitFullInv, PTL DEF Spec, OnlyDeadRemoved
=============================================================================
