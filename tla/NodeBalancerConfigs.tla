------------------------- MODULE NodeBalancerConfigs -------------------------
(***************************************************************************)
(* The configs of one NodeBalancer, one for each port of the Service, and  *)
(* their backend nodes: updateNodeBalancer of loadbalancers.go, after the  *)
(* NodeBalancer was found.  It runs in the service controller's worker,    *)
(* for changes of the Service, and in its node synchronisation, for        *)
(* changes of the nodes; each works on what it read at its start.          *)
(***************************************************************************)
EXTENDS Integers, Sequences, FiniteSets, FiniteSetsExt

CONSTANTS
    Nodes,        \* the cluster's nodes
    PortLists,    \* Spec.Ports a Service may have: sequences of port, protocol
    Serial,       \* the two actors never run at the same time
    Failing,      \* calls that may fail
    MaxConfigs,   \* bound: configs made in a behaviour
    MaxFailures,  \* bound: calls that fail
    MaxEdits      \* bound: changes of the Service and of the nodes

Actors == {"sync", "node"}
Calls == {"list", "delete", "create", "rebuild"}

ASSUME FlagAssumption == Serial \in BOOLEAN /\ Failing \subseteq Calls
ASSUME BoundsAssumption == {MaxConfigs, MaxFailures, MaxEdits} \subseteq Nat
ASSUME PortListsAssumption ==
    \A sps \in PortLists : Len(sps) \in Nat /\ DOMAIN sps = 1 .. Len(sps)

VARIABLES
    ports, nodes,  \* the Service's ports, the nodes
    cached,        \* the ports the service controller last synchronised
    configs,       \* the NodeBalancer's configs
    nextId,        \* config IDs grow
    task,          \* updateNodeBalancer in each actor
    due,           \* the actors that have to run (again)
    failures, edits

vars == <<ports, nodes, cached, configs, nextId, task, due, failures, edits>>
bounds == <<failures, edits>>

Config(id, sp, ns) == [id |-> id, port |-> sp.port, protocol |-> sp.protocol, nodes |-> ns]
Idle == [pc |-> "idle", ports |-> <<>>, nodes |-> {}, listed |-> {}, at |-> 0, cfg |-> 0]

\* A handler has nodes to send, and rebuilds a config of a port of its Service.
TypeOK ==
    /\ {ports, cached} \subseteq PortLists
    /\ nodes \subseteq Nodes
    /\ \A c \in configs : c.id < nextId /\ c.nodes \subseteq Nodes
    /\ \A c, d \in configs : c.id = d.id => c = d
    /\ due \subseteq Actors
    /\ \A a \in Actors :
         task[a].pc # "idle" =>
           /\ task[a].ports \in PortLists /\ task[a].nodes # {}
           /\ task[a].pc = "rebuild" => task[a].at \in 1 .. Len(task[a].ports)
    /\ failures \in 0 .. MaxFailures
    /\ edits \in 0 .. MaxEdits

At(a, call) == task[a].pc = call
\* updateNodeBalancer returns; after an error the actor comes back.  The service
\* controller caches a Service only when its synchronisation succeeded.
Return(a, ok) ==
    /\ task' = [task EXCEPT ![a] = Idle]
    /\ due' = IF ok THEN due ELSE due \cup {a}
    /\ cached' = IF ok /\ a = "sync" THEN task[a].ports ELSE cached
\* The node synchronisation goes over the cached Services.
Start(a) == [Idle EXCEPT !.pc = "list",
                         !.ports = IF a = "sync" THEN ports ELSE cached,
                         !.nodes = nodes]
PortNumbers(sps) == {sps[i].port : i \in DOMAIN sps}

\* The API has one config for a port and protocol.
Taken(sp, id) ==
    \E c \in configs : c.port = sp.port /\ c.protocol = sp.protocol /\ c.id # id

-----------------------------------------------------------------------------
\* Mutant of Begin: an empty node list is not an error.
BeginWithoutNodes(a) ==
    /\ At(a, "idle")
    /\ a \in due
    /\ Serial => \A b \in Actors : At(b, "idle")
    /\ due' = due \ {a}
    /\ task' = [task EXCEPT ![a] = Start(a)]
    /\ UNCHANGED <<ports, nodes, cached, configs, nextId, bounds>>

\* Without nodes, errNoNodesAvailable: the actor stays due.
Begin(a) ==
    /\ At(a, "idle")
    /\ a \in due
    /\ Serial => \A b \in Actors : At(b, "idle")
    /\ nodes # {}
    /\ due' = due \ {a}
    /\ task' = [task EXCEPT ![a] = Start(a)]
    /\ UNCHANGED <<ports, nodes, cached, configs, nextId, bounds>>

ListConfigs(a) ==
    /\ At(a, "list")
    /\ task' = [task EXCEPT ![a].pc = "delete",
                            ![a].listed = {[id |-> c.id, port |-> c.port] : c \in configs}]
    /\ UNCHANGED <<ports, nodes, cached, configs, nextId, due, bounds>>

\* deleteUnusedConfigs: the listed configs without a port, in order of their IDs.
Unused(a) == {c.id : c \in {d \in task[a].listed : d.port \notin PortNumbers(task[a].ports)}}

\* Mutant of Advance: the last port is not reached.
AdvanceShort(a, i) ==
    IF i >= Len(task[a].ports) THEN Return(a, TRUE)
    ELSE LET same == {c.id : c \in {d \in task[a].listed : d.port = task[a].ports[i].port}} IN
         /\ task' = [task EXCEPT ![a].at = i,
                                 ![a].pc = IF same = {} THEN "create" ELSE "rebuild",
                                 ![a].cfg = IF same = {} THEN 0 ELSE Min(same)]
         /\ UNCHANGED <<due, cached>>

\* Go on with the Service's i-th port: the first listed config of that port
\* number is its current one.
Advance(a, i) ==
    IF i > Len(task[a].ports) THEN Return(a, TRUE)
    ELSE LET same == {c.id : c \in {d \in task[a].listed : d.port = task[a].ports[i].port}} IN
         /\ task' = [task EXCEPT ![a].at = i,
                                 ![a].pc = IF same = {} THEN "create" ELSE "rebuild",
                                 ![a].cfg = IF same = {} THEN 0 ELSE Min(same)]
         /\ UNCHANGED <<due, cached>>

DeleteUnusedConfig(a) ==
    /\ At(a, "delete")
    /\ IF Unused(a) = {} THEN Advance(a, 1) /\ UNCHANGED configs
       ELSE LET id == Min(Unused(a)) IN
            /\ configs' = {c \in configs : c.id # id}
            /\ IF configs' = configs THEN Return(a, FALSE)
               ELSE /\ task' = [task EXCEPT ![a].listed = {c \in @ : c.id # id}]
                    /\ UNCHANGED <<due, cached>>
    /\ UNCHANGED <<ports, nodes, nextId, bounds>>

\* CreateNodeBalancerConfig makes a config without nodes.
CreateConfig(a) ==
    LET sp == task[a].ports[task[a].at] IN
    /\ At(a, "create")
    /\ nextId <= MaxConfigs
    /\ IF Taken(sp, 0)
       THEN Return(a, FALSE) /\ UNCHANGED <<configs, nextId>>
       ELSE /\ configs' = configs \cup {Config(nextId, sp, {})}
            /\ nextId' = nextId + 1
            /\ task' = [task EXCEPT ![a].pc = "rebuild", ![a].cfg = nextId]
            /\ UNCHANGED <<due, cached>>
    /\ UNCHANGED <<ports, nodes, bounds>>

\* RebuildNodeBalancerConfig sends the config and all its nodes.
RebuildConfig(a) ==
    LET sp == task[a].ports[task[a].at]
        id == task[a].cfg
    IN
    /\ At(a, "rebuild")
    /\ IF Taken(sp, id) \/ \A c \in configs : c.id # id
       THEN Return(a, FALSE) /\ UNCHANGED configs
       ELSE /\ configs' = {c \in configs : c.id # id} \cup {Config(id, sp, task[a].nodes)}
            /\ Advance(a, task[a].at + 1)
    /\ UNCHANGED <<ports, nodes, nextId, bounds>>

\* A call fails; without an unused config there is none to delete.
CallFails(a) ==
    /\ task[a].pc \in Failing
    /\ At(a, "delete") => Unused(a) # {}
    /\ failures < MaxFailures
    /\ failures' = failures + 1
    /\ Return(a, FALSE)
    /\ UNCHANGED <<ports, nodes, configs, nextId, edits>>

-----------------------------------------------------------------------------
Edit ==
    /\ edits < MaxEdits
    /\ edits' = edits + 1
    /\ \/ /\ ports' \in PortLists \ {ports}
          /\ due' = due \cup {"sync"}
          /\ UNCHANGED nodes
       \/ /\ nodes' \in (SUBSET Nodes) \ {nodes}
          /\ due' = due \cup {"node"}
          /\ UNCHANGED ports
    /\ UNCHANGED <<cached, configs, nextId, task, failures>>

\* buildLoadBalancerRequest made the NodeBalancer with all configs and nodes.
Init ==
    /\ ports \in PortLists
    /\ cached = ports
    /\ nodes \in (SUBSET Nodes) \ {{}}
    /\ configs = {Config(i, ports[i], nodes) : i \in DOMAIN ports}
    /\ nextId = Len(ports) + 1
    /\ task = [a \in Actors |-> Idle]
    /\ due = {}
    /\ failures = 0
    /\ edits = 0

UpdateNodeBalancer(a) ==
    \/ Begin(a) \/ ListConfigs(a) \/ DeleteUnusedConfig(a)
    \/ CreateConfig(a) \/ RebuildConfig(a)

Next == Edit \/ \E a \in Actors : UpdateNodeBalancer(a) \/ CallFails(a)
Spec == Init /\ [][Next]_vars

\* An actor that is due gets to run, and its calls return.
Fairness == \A a \in Actors : SF_vars(UpdateNodeBalancer(a))
FairSpec == Spec /\ Fairness

-----------------------------------------------------------------------------
\* Properties.

\* The NodeBalancer has exactly a config for each port, with all the nodes.
Matches ==
    {[port |-> c.port, protocol |-> c.protocol, nodes |-> c.nodes] : c \in configs}
      = {[port |-> ports[i].port, protocol |-> ports[i].protocol, nodes |-> nodes] :
           i \in DOMAIN ports}

\* When no update is due or under way the NodeBalancer matches the Service and
\* the nodes, whatever failed before and whatever changed meanwhile.
QuiescentMatches == due = {} /\ (\A a \in Actors : At(a, "idle")) => Matches

\* A config that has backends is never left without any.
BackendsKept ==
    [][\A c \in configs, d \in configs' : c.id = d.id /\ c.nodes # {} => d.nodes # {}]_vars

\* Once changes and failures cease, and with nodes in the cluster, the
\* NodeBalancer matches the Service for good.
Synced == <>[](nodes = {} \/ Matches)
=============================================================================
