---------------------- MODULE NodeBalancerConfigsProofs ----------------------
(***************************************************************************)
(* Proofs about the configs of a NodeBalancer, for all nodes, port lists   *)
(* and bounds: no config loses its backends, and, if the two actors take   *)
(* turns and no Service uses a port number twice, a NodeBalancer that no   *)
(* update is due for matches its Service and the nodes.                    *)
(***************************************************************************)
EXTENDS NodeBalancerConfigs, TLAPS

\* Leaves are first-order, but those that cite SMT.
USE Zenon

-----------------------------------------------------------------------------
\* Types.

IsTask(t) ==
    t = [pc |-> t.pc, ports |-> t.ports, nodes |-> t.nodes, listed |-> t.listed,
         at |-> t.at, cfg |-> t.cfg]

\* updateNodeBalancer has a port to go on with.
Busy(t) ==
    /\ t.pc \in Calls
    /\ t.ports \in PortLists /\ t.nodes # {} /\ t.nodes \subseteq Nodes
    /\ t.pc \in {"create", "rebuild"} => t.at \in 1 .. Len(t.ports)
Handler(t) == IsTask(t) /\ (t.pc = "idle" \/ Busy(t))

IDsUnique(cs) == \A c, d \in cs : c.id = d.id => c = d
Made(cs, id) == \A c \in cs : c.id \in Nat /\ c.id < id /\ c.nodes \subseteq Nodes

Types ==
    /\ ports \in PortLists /\ cached \in PortLists /\ nodes \subseteq Nodes
    /\ nextId \in Nat /\ Made(configs, nextId) /\ IDsUnique(configs)
    /\ DOMAIN task = Actors /\ \A a \in Actors : Handler(task[a])
    /\ due \subseteq Actors
    /\ failures \in 0 .. MaxFailures /\ edits \in 0 .. MaxEdits

-----------------------------------------------------------------------------
\* How far an update has come.

PortsUnique(cs) == \A c, d \in cs : c.port = d.port => c = d

\* The configs are cs, and the update has the ports sps, the nodes ns and the list L:
\* every listed config is there, every config is one of a port, the first k ports have
\* theirs with all nodes, and what was not listed is of the first m ports.
Bound(cs, sps, ns, L, k, m) ==
    /\ \A l \in L : \E c \in cs : c.id = l.id /\ c.port = l.port
    /\ \A c \in cs : c.port \in PortNumbers(sps)
    /\ \A j \in 1 .. k : \E c \in cs :
         c.port = sps[j].port /\ c.protocol = sps[j].protocol /\ c.nodes = ns
    /\ \A c \in cs : \/ \E l \in L : l.id = c.id /\ l.port = c.port
                     \/ \E j \in 1 .. m : c.port = sps[j].port

Underway(cs, t) ==
    /\ t.pc = "delete" => t.listed = {[id |-> c.id, port |-> c.port] : c \in cs}
    /\ t.pc = "create" =>
         /\ Bound(cs, t.ports, t.nodes, t.listed, t.at - 1, t.at - 1)
         /\ \A l \in t.listed : l.port # t.ports[t.at].port
    /\ t.pc = "rebuild" =>
         /\ Bound(cs, t.ports, t.nodes, t.listed, t.at - 1, t.at)
         /\ \A c \in cs : c.id = t.cfg => c.port = t.ports[t.at].port

\* One actor at a time.
InTurns == \A a, b \in Actors : ~At(a, "idle") /\ ~At(b, "idle") => a = b

\* What an actor works with is what is there now, unless a change made one due.
UpToDate ==
    /\ At("sync", "idle") /\ "sync" \notin due => cached = ports
    /\ \A a \in Actors : ~At(a, "idle") =>
         /\ "sync" \notin due => task[a].ports = ports
         /\ "node" \notin due => task[a].nodes = nodes

Invariant ==
    /\ Types
    /\ InTurns
    /\ UpToDate
    /\ PortsUnique(configs)
    /\ \A a \in Actors : Underway(configs, task[a])
    /\ QuiescentMatches

\* No Service uses a port number twice.
Distinct ==
    \A sps \in PortLists : \A i, j \in DOMAIN sps : sps[i].port = sps[j].port => i = j

-----------------------------------------------------------------------------
\* What the actions do to the tasks.

Others(a) == DOMAIN task' = Actors /\ \A b \in Actors : b # a => task'[b] = task[b]

\* An actor's task is replaced.
LEMMA Replaced ==
    ASSUME Types, NEW a \in Actors, NEW t, task' = [task EXCEPT ![a] = t]
    PROVE  Others(a) /\ task'[a] = t
BY DEF Types, Others

\* The configs were listed.
LEMMA TaskListed ==
    ASSUME Types, NEW a \in Actors, NEW pc, NEW L,
           task' = [task EXCEPT ![a].pc = pc, ![a].listed = L]
    PROVE  /\ Others(a)
           /\ task'[a] = [pc |-> pc, ports |-> task[a].ports, nodes |-> task[a].nodes,
                           listed |-> L, at |-> task[a].at, cfg |-> task[a].cfg]
<1> DEFINE t == task[a]
<1>1. Others(a) /\ task'[a] = [t EXCEPT !.pc = pc, !.listed = L]
  BY DEF Types, Others
<1>2. IsTask(t)
  BY DEF Types, Handler
<1> HIDE DEF t
<1>3. ASSUME NEW s, s = [t EXCEPT !.pc = pc, !.listed = L]
      PROVE  s = [pc |-> pc, ports |-> t.ports, nodes |-> t.nodes, listed |-> L, at |-> t.at,
                cfg |-> t.cfg]
  BY <1>2, <1>3 DEF IsTask
<1> QED  BY <1>1, <1>3 DEF t

\* A config was taken off the list.
LEMMA TaskDeleted ==
    ASSUME Types, NEW a \in Actors, NEW L, task' = [task EXCEPT ![a].listed = L]
    PROVE  /\ Others(a)
           /\ task'[a] = [pc |-> task[a].pc, ports |-> task[a].ports, nodes |-> task[a].nodes,
                           listed |-> L, at |-> task[a].at, cfg |-> task[a].cfg]
<1> DEFINE t == task[a]
<1>1. Others(a) /\ task'[a] = [t EXCEPT !.listed = L]
  BY DEF Types, Others
<1>2. IsTask(t)
  BY DEF Types, Handler
<1> HIDE DEF t
<1>3. ASSUME NEW s, s = [t EXCEPT !.listed = L]
      PROVE  s = [pc |-> t.pc, ports |-> t.ports, nodes |-> t.nodes, listed |-> L, at |-> t.at,
                cfg |-> t.cfg]
  BY <1>2, <1>3 DEF IsTask
<1> QED  BY <1>1, <1>3 DEF t

\* A config was made for the port at hand.
Rebuilding(a, id) == [task EXCEPT ![a].pc = "rebuild", ![a].cfg = id]

\* The record of an actor that has made a config.
LEMMA TaskCreated ==
    ASSUME Types, NEW a \in Actors, NEW id, task' = Rebuilding(a, id)
    PROVE  /\ Others(a)
           /\ task'[a] = [pc |-> "rebuild", ports |-> task[a].ports, nodes |-> task[a].nodes,
                           listed |-> task[a].listed, at |-> task[a].at, cfg |-> id]
<1> DEFINE t == task[a]
<1>1. Others(a) /\ task'[a] = [t EXCEPT !.pc = "rebuild", !.cfg = id]
  BY DEF Types, Others, Rebuilding
<1>2. IsTask(t)
  BY DEF Types, Handler
<1> HIDE DEF t
<1>3. ASSUME NEW s, s = [t EXCEPT !.pc = "rebuild", !.cfg = id]
      PROVE  s = [pc |-> "rebuild", ports |-> t.ports, nodes |-> t.nodes, listed |-> t.listed,
                  at |-> t.at, cfg |-> id]
  BY <1>2, <1>3 DEF IsTask
<1> QED  BY <1>1, <1>3 DEF t

\* The update goes on with the i-th port.
Written(a, i, pc, id) == [task EXCEPT ![a].at = i, ![a].pc = pc, ![a].cfg = id]
Advancing(a, i, pc, id) ==
    [pc |-> pc, ports |-> task[a].ports, nodes |-> task[a].nodes,
     listed |-> task[a].listed, at |-> i, cfg |-> id]

\* The record of an actor that goes on to a port.
LEMMA TaskAdvanced ==
    ASSUME Types, NEW a \in Actors, NEW i, NEW pc, NEW id, task' = Written(a, i, pc, id)
    PROVE  Others(a) /\ task'[a] = Advancing(a, i, pc, id)
<1> USE DEF Written, Advancing
<1> DEFINE t == task[a]
<1>1. Others(a) /\ task'[a] = [t EXCEPT !.at = i, !.pc = pc, !.cfg = id]
  BY DEF Types, Others
<1>2. IsTask(t)
  BY DEF Types, Handler
<1> HIDE DEF t
<1>3. ASSUME NEW s, s = [t EXCEPT !.at = i, !.pc = pc, !.cfg = id]
      PROVE  s = [pc |-> pc, ports |-> t.ports, nodes |-> t.nodes, listed |-> t.listed, at |-> i,
                cfg |-> id]
  BY <1>2, <1>3 DEF IsTask
<1> QED  BY <1>1, <1>3 DEF t

-----------------------------------------------------------------------------
\* Configs and ports.

\* The least of a single number.
LEMMA MinOfOne ==
    ASSUME NEW x \in Int
    PROVE  Min({x}) = x
BY SMT DEF Min

\* With all ports handled the configs are those the Service asks for.
Exact(cs, sps, ns) ==
    {[port |-> c.port, protocol |-> c.protocol, nodes |-> c.nodes] : c \in cs}
      = {[port |-> sps[i].port, protocol |-> sps[i].protocol, nodes |-> ns] : i \in DOMAIN sps}

\* With every port handled, the NodeBalancer is as the Service asks for.
LEMMA AllHandled ==
    ASSUME NEW cs, NEW t, t.ports \in PortLists, PortsUnique(cs), NEW m,
           Bound(cs, t.ports, t.nodes, t.listed, Len(t.ports), m)
    PROVE  Exact(cs, t.ports, t.nodes)
<1> DEFINE sps == t.ports
           Of(c) == [port |-> c.port, protocol |-> c.protocol, nodes |-> c.nodes]
           For(i) == [port |-> sps[i].port, protocol |-> sps[i].protocol, nodes |-> t.nodes]
<1>1. DOMAIN sps = 1 .. Len(sps)
  BY PortListsAssumption
<1>2. \A i \in DOMAIN sps : \E c \in cs :
        c.port = sps[i].port /\ c.protocol = sps[i].protocol /\ c.nodes = t.nodes
  BY <1>1 DEF Bound
<1>3. \A c \in cs : \E i \in DOMAIN sps : c.port = sps[i].port
  BY DEF Bound, PortNumbers
<1>4. \A i \in DOMAIN sps : \E c \in cs : Of(c) = For(i)
  BY <1>2
<1>5. \A c \in cs : \E i \in DOMAIN sps : Of(c) = For(i)
  <2> SUFFICES ASSUME NEW c \in cs
               PROVE  \E i \in DOMAIN sps : Of(c) = For(i)
    OBVIOUS
  <2>1. PICK i \in DOMAIN sps : c.port = sps[i].port
    BY <1>3
  <2>2. PICK d \in cs :
          d.port = sps[i].port /\ d.protocol = sps[i].protocol /\ d.nodes = t.nodes
    BY <1>2
  <2>3. c = d
    BY <2>1, <2>2 DEF PortsUnique
  <2> QED  BY <2>2, <2>3
<1> HIDE DEF Of, For, sps
<1>6. {Of(c) : c \in cs} = {For(i) : i \in DOMAIN sps}
  BY <1>4, <1>5
<1> QED  BY <1>6 DEF Exact, Of, For, sps

\* With one more port to be of.
LEMMA BoundMore ==
    ASSUME NEW cs, NEW sps, NEW ns, NEW L, NEW i \in Nat, Bound(cs, sps, ns, L, i - 1, i - 1)
    PROVE  Bound(cs, sps, ns, L, i - 1, i)
<1>1. \A j \in 1 .. (i - 1) : j \in 1 .. i
  BY SMT
<1>2. \A c \in cs : \/ \E l \in L : l.id = c.id /\ l.port = c.port
                    \/ \E j \in 1 .. i : c.port = sps[j].port
  BY <1>1 DEF Bound
<1> QED  BY <1>2 DEF Bound

\* ds is cs and a config with the new ID id, for the port that t has come to.
Creating(cs, t, id, ds) ==
    /\ t.ports \in PortLists /\ t.at \in 1 .. Len(t.ports)
    /\ PortsUnique(cs) /\ Bound(cs, t.ports, t.nodes, t.listed, t.at - 1, t.at - 1)
    /\ \A l \in t.listed : l.port # t.ports[t.at].port
    /\ \A c \in cs : c.id # id
    /\ ds = cs \cup {Config(id, t.ports[t.at], {})}

\* A config is made: there was none with its port.
LEMMA CreateBound ==
    ASSUME Distinct, NEW cs, NEW t, NEW id, NEW ds, Creating(cs, t, id, ds)
    PROVE  PortsUnique(ds) /\ Bound(ds, t.ports, t.nodes, t.listed, t.at - 1, t.at)
<1> USE DEF Creating
<1> DEFINE new == Config(id, t.ports[t.at], {})
           i == t.at
           sps == t.ports
<1>0. /\ DOMAIN sps = 1 .. Len(sps) /\ Len(sps) \in Nat /\ i \in DOMAIN sps /\ i \in Nat
      /\ \A j, k \in DOMAIN sps : sps[j].port = sps[k].port => j = k
  BY PortListsAssumption, SMT DEF Distinct
<1>1. new.id = id /\ new.port = sps[i].port
  BY DEF Config
<1>2. \A c \in cs : c.port # sps[i].port
  <2> SUFFICES ASSUME NEW c \in cs, c.port = sps[i].port
               PROVE  FALSE
    OBVIOUS
  <2>1. ~\E l \in t.listed : l.id = c.id /\ l.port = c.port
    OBVIOUS
  <2>2. PICK j \in 1 .. (i - 1) : c.port = sps[j].port
    BY <2>1 DEF Bound
  <2>3. j \in DOMAIN sps /\ j # i
    BY <1>0, <2>2, SMT
  <2> QED  BY <1>0, <2>2, <2>3
<1> HIDE DEF new
<1>3. PortsUnique(ds)
  BY <1>1, <1>2 DEF PortsUnique, new
<1>4. /\ \A l \in t.listed : \E c \in ds : c.id = l.id /\ c.port = l.port
      /\ \A j \in 1 .. (i - 1) : \E c \in ds :
           c.port = sps[j].port /\ c.protocol = sps[j].protocol /\ c.nodes = t.nodes
  <2>1. \A c \in cs : c \in ds
    OBVIOUS
  <2>2. \A l \in t.listed : \E c \in cs : c.id = l.id /\ c.port = l.port
    BY DEF Bound
  <2>3. \A j \in 1 .. (i - 1) : \E c \in cs :
          c.port = sps[j].port /\ c.protocol = sps[j].protocol /\ c.nodes = t.nodes
    BY DEF Bound
  <2> HIDE DEF i, sps
  <2> QED  BY <2>1, <2>2, <2>3
<1>5. \A c \in ds : c.port \in PortNumbers(sps)
  <2>1. new.port \in PortNumbers(sps)
    BY <1>0, <1>1 DEF PortNumbers
  <2>2. \A c \in cs : c.port \in PortNumbers(sps)
    BY DEF Bound
  <2> QED  BY <2>1, <2>2 DEF new
<1>6. \A c \in ds : \/ \E l \in t.listed : l.id = c.id /\ l.port = c.port
                    \/ \E j \in 1 .. i : c.port = sps[j].port
  <2>1. i \in 1 .. i /\ \A j \in 1 .. (i - 1) : j \in 1 .. i
    BY <1>0, SMT
  <2>2. \A c \in cs : \/ \E l \in t.listed : l.id = c.id /\ l.port = c.port
                      \/ \E j \in 1 .. (i - 1) : c.port = sps[j].port
    BY DEF Bound
  <2>3. ds = cs \cup {new}
    BY DEF new
  <2> HIDE DEF i, sps
  <2> QED  BY <1>1, <2>1, <2>2, <2>3
<1> QED  BY <1>3, <1>4, <1>5, <1>6, ZenonT(30) DEF Bound

\* A config is rebuilt: it keeps its port, and gets the protocol and all nodes.
LEMMA RebuildBound ==
    ASSUME Distinct, NEW cs, NEW t, t.ports \in PortLists, t.at \in 1 .. Len(t.ports),
           PortsUnique(cs), Bound(cs, t.ports, t.nodes, t.listed, t.at - 1, t.at),
           \A c \in cs : c.id = t.cfg => c.port = t.ports[t.at].port,
           NEW c0 \in cs, c0.id = t.cfg,
           NEW ds, ds = {c \in cs : c.id # t.cfg} \cup {Config(t.cfg, t.ports[t.at], t.nodes)}
    PROVE  PortsUnique(ds) /\ Bound(ds, t.ports, t.nodes, t.listed, t.at, t.at)
<1> DEFINE new == Config(t.cfg, t.ports[t.at], t.nodes)
           i == t.at
           sps == t.ports
<1>0. /\ DOMAIN sps = 1 .. Len(sps) /\ Len(sps) \in Nat /\ i \in DOMAIN sps /\ i \in Nat
      /\ \A j, k \in DOMAIN sps : sps[j].port = sps[k].port => j = k
  BY PortListsAssumption, SMT DEF Distinct
<1>1. /\ new.id = t.cfg /\ new.port = sps[i].port /\ new.protocol = sps[i].protocol
      /\ new.nodes = t.nodes
  BY DEF Config
<1>2. c0.port = sps[i].port
  OBVIOUS
<1>3. \A c \in cs : c.port = sps[i].port <=> c.id = t.cfg
  BY <1>2 DEF PortsUnique
<1>4. ds = {c \in cs : c.id # t.cfg} \cup {new}
  OBVIOUS
<1> HIDE DEF new
<1>5. PortsUnique(ds)
  BY <1>1, <1>3, <1>4, ZenonT(30), SMT DEF PortsUnique
<1>6. \A l \in t.listed : \E c \in ds : c.id = l.id /\ c.port = l.port
  <2> SUFFICES ASSUME NEW l \in t.listed
               PROVE  \E c \in ds : c.id = l.id /\ c.port = l.port
    OBVIOUS
  <2>1. PICK c \in cs : c.id = l.id /\ c.port = l.port
    BY DEF Bound
  <2>2. CASE c.id = t.cfg
    BY <1>1, <1>3, <1>4, <2>1, <2>2
  <2>3. CASE c.id # t.cfg
    BY <1>4, <2>1, <2>3
  <2> QED  BY <2>2, <2>3
<1>7. \A c \in ds : c.port \in PortNumbers(sps)
  <2>1. new.port \in PortNumbers(sps)
    BY <1>0, <1>1 DEF PortNumbers
  <2>2. \A c \in cs : c.port \in PortNumbers(sps)
    BY DEF Bound
  <2> QED  BY <1>4, <2>1, <2>2
<1>8. \A j \in 1 .. i : \E c \in ds :
        c.port = sps[j].port /\ c.protocol = sps[j].protocol /\ c.nodes = t.nodes
  <2> SUFFICES ASSUME NEW j \in 1 .. i
               PROVE  \E c \in ds : c.port = sps[j].port /\ c.protocol = sps[j].protocol
                                    /\ c.nodes = t.nodes
    OBVIOUS
  <2>1. CASE j = i
    BY <1>1, <1>4, <2>1
  <2>2. CASE j # i
    <3>1. j \in 1 .. (i - 1) /\ j \in DOMAIN sps
      BY <1>0, <2>2, SMT
    <3>2. PICK c \in cs :
            c.port = sps[j].port /\ c.protocol = sps[j].protocol /\ c.nodes = t.nodes
      BY <3>1 DEF Bound
    <3>3. c.id # t.cfg
      BY <1>0, <1>3, <2>2, <3>1, <3>2
    <3> QED  BY <1>4, <3>2, <3>3
  <2> QED  BY <2>1, <2>2
<1>9. \A c \in ds : \/ \E l \in t.listed : l.id = c.id /\ l.port = c.port
                    \/ \E j \in 1 .. i : c.port = sps[j].port
  <2>1. i \in 1 .. i
    BY <1>0, SMT
  <2> QED  BY <1>1, <1>4, <2>1 DEF Bound
<1> QED  BY <1>5, <1>6, <1>7, <1>8, <1>9 DEF Bound

-----------------------------------------------------------------------------
\* Every step keeps the types.

\* The parts of the types that an actor's step is about.
TaskTypes ==
    /\ cached \in PortLists /\ due \subseteq Actors
    /\ DOMAIN task = Actors /\ \A a \in Actors : Handler(task[a])
ConfigTypes == nextId \in Nat /\ Made(configs, nextId) /\ IDsUnique(configs)

\* A new task is put in.
LEMMA TaskKept ==
    ASSUME Types, NEW a \in Actors, Others(a), Handler(task'[a]),
           cached' \in PortLists, due' \subseteq Actors
    PROVE  TaskTypes'
<1>1. \A b \in Actors : Handler(task'[b])
  BY DEF Types, Others
<1> QED  BY <1>1 DEF TaskTypes, Others

\* The actor's own task.
LEMMA Own ==
    ASSUME Types, NEW a \in Actors, ~At(a, "idle")
    PROVE  IsTask(task[a]) /\ Busy(task[a])
BY DEF Types, Handler, At

\* The actor returns.
LEMMA Returned ==
    ASSUME Types, NEW a \in Actors, ~At(a, "idle"), NEW ok \in BOOLEAN, Return(a, ok)
    PROVE  TaskTypes' /\ Others(a) /\ task'[a] = Idle
<1>1. Others(a) /\ task'[a] = Idle
  BY Replaced DEF Return
<1>2. Handler(Idle)
  BY DEF Handler, IsTask, Idle
<1>3. task[a].ports \in PortLists
  BY Own DEF Busy
<1>4. cached' \in PortLists
  BY <1>3 DEF Return, Types
<1>5. due' \subseteq Actors
  BY DEF Return, Types
<1> QED  BY <1>1, <1>2, <1>4, <1>5, TaskKept

\* The actor has no port left, or goes on with the i-th one.
GoesOn(a, i) ==
    LET same == {c.id : c \in {d \in task[a].listed : d.port = task[a].ports[i].port}}
    IN  /\ i \in 1 .. Len(task[a].ports)
        /\ due' = due /\ cached' = cached /\ Others(a)
        /\ \/ same = {} /\ task'[a] = Advancing(a, i, "create", 0)
           \/ same # {} /\ task'[a] = Advancing(a, i, "rebuild", Min(same))

\* An actor that goes on to a port.
LEMMA Advanced ==
    ASSUME Types, NEW a \in Actors, ~At(a, "idle"), NEW i \in Nat \ {0}, Advance(a, i)
    PROVE  (i > Len(task[a].ports) /\ Return(a, TRUE)) \/ GoesOn(a, i)
<1>1. Len(task[a].ports) \in Nat
  BY Own, PortListsAssumption DEF Busy
<1>2. CASE i > Len(task[a].ports)
  BY <1>2 DEF Advance
<1>3. CASE ~(i > Len(task[a].ports))
  <2> DEFINE same == {c.id : c \in {d \in task[a].listed : d.port = task[a].ports[i].port}}
             pc == IF same = {} THEN "create" ELSE "rebuild"
             id == IF same = {} THEN 0 ELSE Min(same)
  <2>1. /\ task' = Written(a, i, pc, id)
        /\ due' = due /\ cached' = cached
    BY <1>3 DEF Advance, Written
  <2>2. i \in 1 .. Len(task[a].ports)
    BY <1>1, <1>3, SMT
  <2>3. \/ same = {} /\ pc = "create" /\ id = 0
        \/ same # {} /\ pc = "rebuild" /\ id = Min(same)
    OBVIOUS
  <2> HIDE DEF pc, id
  <2>4. Others(a) /\ task'[a] = Advancing(a, i, pc, id)
    BY <2>1, TaskAdvanced
  <2> QED  BY <2>1, <2>2, <2>3, <2>4 DEF GoesOn
<1> QED  BY <1>2, <1>3

\* Either keeps the types.
LEMMA AdvanceTypes ==
    ASSUME Types, NEW a \in Actors, ~At(a, "idle"), NEW i \in Nat \ {0}, Advance(a, i)
    PROVE  TaskTypes'
<1>1. CASE i > Len(task[a].ports) /\ Return(a, TRUE)
  BY <1>1, Returned
<1>2. CASE GoesOn(a, i)
  <2>1. PICK pc, id :
          pc \in {"create", "rebuild"} /\ task'[a] = Advancing(a, i, pc, id)
    <3> DEFINE same == {c.id : c \in {d \in task[a].listed : d.port = task[a].ports[i].port}}
    <3>1. \/ task'[a] = Advancing(a, i, "create", 0)
          \/ task'[a] = Advancing(a, i, "rebuild", Min(same))
      BY <1>2 DEF GoesOn
    <3> HIDE DEF same
    <3> QED  BY <3>1, SMT
  <2>2. Busy(task[a])
    BY Own
  <2>3. /\ task'[a].pc = pc /\ task'[a].ports = task[a].ports /\ task'[a].at = i
        /\ task'[a].nodes = task[a].nodes /\ IsTask(task'[a])
    BY <2>1, SMT DEF IsTask, Advancing
  <2>4. pc \in Calls
    BY <2>1 DEF Calls
  <2>5. i \in 1 .. Len(task[a].ports)
    BY <1>2 DEF GoesOn
  <2>6. Handler(task'[a])
    BY <2>2, <2>3, <2>4, <2>5 DEF Handler, Busy
  <2> QED  BY <1>2, <2>6, TaskKept DEF GoesOn, Types
<1> QED  BY <1>1, <1>2, Advanced

\* updateNodeBalancer starts with nodes.
LEMMA BeginTypes ==
    ASSUME Types, NEW a \in Actors, Begin(a)
    PROVE  /\ TaskTypes' /\ Others(a)
           /\ task'[a] = [pc |-> "list", ports |-> IF a = "sync" THEN ports ELSE cached,
                           nodes |-> nodes, listed |-> {}, at |-> 0, cfg |-> 0]
<1> DEFINE t == [pc |-> "list", ports |-> IF a = "sync" THEN ports ELSE cached,
                 nodes |-> nodes, listed |-> {}, at |-> 0, cfg |-> 0]
<1>1. Start(a) = t
  <2> DEFINE p == IF a = "sync" THEN ports ELSE cached
  <2>1. Start(a) = [Idle EXCEPT !.pc = "list", !.ports = p, !.nodes = nodes]
    BY DEF Start
  <2> HIDE DEF p
  <2>2. ASSUME NEW s, s = [Idle EXCEPT !.pc = "list", !.ports = p, !.nodes = nodes]
        PROVE  s = [pc |-> "list", ports |-> p, nodes |-> nodes, listed |-> {}, at |-> 0,
                    cfg |-> 0]
    BY <2>2 DEF Idle
  <2> QED  BY <2>1, <2>2 DEF p
<1>2. Others(a) /\ task'[a] = Start(a)
  BY Replaced DEF Begin
<1>3. IsTask(t)
  BY DEF IsTask
<1>4. t.pc = "list" /\ t.ports \in PortLists /\ t.nodes = nodes
  BY DEF Types
<1> HIDE DEF t
<1>5. Handler(t)
  BY <1>3, <1>4 DEF Handler, Busy, Calls, Types, Begin
<1>6. cached' \in PortLists /\ due' \subseteq Actors
  BY DEF Types, Begin
<1>7. TaskTypes'
  BY <1>1, <1>2, <1>5, <1>6, TaskKept
<1> QED  BY <1>1, <1>2, <1>7 DEF t

\* The configs are listed.
LEMMA ListTypes ==
    ASSUME Types, NEW a \in Actors, ListConfigs(a)
    PROVE  /\ TaskTypes' /\ Others(a)
           /\ task'[a] = [pc |-> "delete", ports |-> task[a].ports, nodes |-> task[a].nodes,
                           listed |-> {[id |-> c.id, port |-> c.port] : c \in configs},
                           at |-> task[a].at, cfg |-> task[a].cfg]
<1> DEFINE L == {[id |-> c.id, port |-> c.port] : c \in configs}
           t == [pc |-> "delete", ports |-> task[a].ports, nodes |-> task[a].nodes,
                 listed |-> L, at |-> task[a].at, cfg |-> task[a].cfg]
<1>1. task' = [task EXCEPT ![a].pc = "delete", ![a].listed = L]
  BY DEF ListConfigs
<1> HIDE DEF L
<1>2. Others(a) /\ task'[a] = t
  BY <1>1, TaskListed, ZenonT(30), SMT
<1>3. Busy(task[a])
  BY Own DEF ListConfigs, At
<1>4. t.pc = "delete" /\ t.ports = task[a].ports /\ t.nodes = task[a].nodes /\ IsTask(t)
  BY DEF IsTask
<1> HIDE DEF t
<1>5. Handler(t)
  BY <1>3, <1>4 DEF Handler, Busy, Calls
<1>6. cached' \in PortLists /\ due' \subseteq Actors
  BY DEF Types, ListConfigs
<1>7. TaskTypes'
  BY <1>2, <1>5, <1>6, TaskKept
<1> QED  BY <1>2, <1>7 DEF t, L

\* An unused config is deleted, or there is none left.
LEMMA DeleteCases ==
    ASSUME Types, NEW a \in Actors, DeleteUnusedConfig(a)
    PROVE  /\ ~At(a, "idle")
           /\ \/ Unused(a) = {} /\ Advance(a, 1) /\ configs' = configs
              \/ Return(a, FALSE)
              \/ \E id :
                   /\ configs' = {c \in configs : c.id # id}
                   /\ due' = due /\ cached' = cached /\ Others(a)
                   /\ task'[a] = [pc |-> "delete", ports |-> task[a].ports,
                                   nodes |-> task[a].nodes,
                                   listed |-> {c \in task[a].listed : c.id # id},
                                   at |-> task[a].at, cfg |-> task[a].cfg]
<1>1. ~At(a, "idle") /\ task[a].pc = "delete"
  BY DEF DeleteUnusedConfig, At
<1>2. CASE Unused(a) = {}
  BY <1>1, <1>2 DEF DeleteUnusedConfig
<1>3. CASE Unused(a) # {}
  <2> DEFINE id == Min(Unused(a))
             L == {c \in task[a].listed : c.id # id}
  <2>1. configs' = {c \in configs : c.id # id}
    BY <1>3 DEF DeleteUnusedConfig
  <2>2. CASE configs' = configs
    BY <1>1, <1>3, <2>2 DEF DeleteUnusedConfig
  <2>3. CASE configs' # configs
    <3>1. task' = [task EXCEPT ![a].listed = L] /\ due' = due /\ cached' = cached
      BY <1>3, <2>3 DEF DeleteUnusedConfig
    <3>2. /\ Others(a)
          /\ task'[a] = [pc |-> task[a].pc, ports |-> task[a].ports, nodes |-> task[a].nodes,
                          listed |-> L, at |-> task[a].at, cfg |-> task[a].cfg]
      <4> HIDE DEF L
      <4> QED  BY <3>1, TaskDeleted
    <3> HIDE DEF id
    <3> QED  BY <1>1, <2>1, <3>1, <3>2
  <2> QED  BY <2>2, <2>3
<1> QED  BY <1>2, <1>3

\* The types after a deletion.
LEMMA DeleteTypes ==
    ASSUME Types, NEW a \in Actors, DeleteUnusedConfig(a)
    PROVE  TaskTypes' /\ configs' \subseteq configs
<1>1. ~At(a, "idle")
  BY DeleteCases
<1>2. configs' \subseteq configs
  BY DEF DeleteUnusedConfig
<1>3. CASE Advance(a, 1)
  BY <1>1, <1>2, <1>3, AdvanceTypes, SMT
<1>4. CASE Return(a, FALSE)
  BY <1>1, <1>2, <1>4, Returned
<1>5. ASSUME due' = due, cached' = cached, Others(a), NEW L,
             task'[a] = [pc |-> "delete", ports |-> task[a].ports, nodes |-> task[a].nodes,
                         listed |-> L, at |-> task[a].at, cfg |-> task[a].cfg]
      PROVE  TaskTypes'
  <2>1. Busy(task[a])
    BY <1>1, Own
  <2>2. /\ task'[a].pc = "delete" /\ task'[a].ports = task[a].ports
        /\ task'[a].nodes = task[a].nodes /\ IsTask(task'[a])
    BY <1>5, SMT DEF IsTask
  <2>3. Handler(task'[a])
    BY <2>1, <2>2 DEF Handler, Busy, Calls
  <2> QED  BY <1>5, <2>3, TaskKept DEF Types
<1>6. TaskTypes'
  BY <1>3, <1>4, <1>5, DeleteCases
<1> QED  BY <1>2, <1>6

\* A config without nodes is made, or there is one with the port and protocol.
LEMMA CreateCases ==
    ASSUME Types, NEW a \in Actors, CreateConfig(a)
    PROVE  /\ ~At(a, "idle") /\ task[a].pc = "create"
           /\ \/ Return(a, FALSE) /\ configs' = configs /\ nextId' = nextId
              \/ /\ configs' = configs \cup {Config(nextId, task[a].ports[task[a].at], {})}
                 /\ nextId' = nextId + 1
                 /\ due' = due /\ cached' = cached /\ Others(a)
                 /\ task'[a] = [pc |-> "rebuild", ports |-> task[a].ports,
                                 nodes |-> task[a].nodes, listed |-> task[a].listed,
                                 at |-> task[a].at, cfg |-> nextId]
<1>1. ~At(a, "idle") /\ task[a].pc = "create"
  BY DEF CreateConfig, At
<1> DEFINE sp == task[a].ports[task[a].at]
<1>2. CASE Taken(sp, 0)
  BY <1>1, <1>2 DEF CreateConfig
<1>3. CASE ~Taken(sp, 0)
  <2>1. /\ configs' = configs \cup {Config(nextId, sp, {})}
        /\ nextId' = nextId + 1 /\ due' = due /\ cached' = cached
    BY <1>3 DEF CreateConfig
  <2>2. task' = Rebuilding(a, nextId)
    BY <1>3 DEF CreateConfig, Rebuilding
  <2>3. /\ Others(a)
        /\ task'[a] = [pc |-> "rebuild", ports |-> task[a].ports, nodes |-> task[a].nodes,
                        listed |-> task[a].listed, at |-> task[a].at, cfg |-> nextId]
    BY <2>2, TaskCreated
  <2> QED  BY <1>1, <2>1, <2>3
<1> QED  BY <1>2, <1>3

\* The types after a creation.
LEMMA CreateTypes ==
    ASSUME Types, NEW a \in Actors, CreateConfig(a)
    PROVE  TaskTypes' /\ ConfigTypes'
<1> DEFINE sp == task[a].ports[task[a].at]
           new == Config(nextId, sp, {})
<1>1. ~At(a, "idle") /\ task[a].pc = "create"
  BY CreateCases
<1>2. ConfigTypes
  BY DEF Types, ConfigTypes
<1>3. CASE Return(a, FALSE) /\ configs' = configs /\ nextId' = nextId
  <2>1. TaskTypes'
    BY <1>1, <1>3, Returned
  <2> QED  BY <1>2, <1>3, <2>1 DEF ConfigTypes
<1>4. ASSUME configs' = configs \cup {new}, nextId' = nextId + 1,
             due' = due, cached' = cached, Others(a),
             task'[a] = [pc |-> "rebuild", ports |-> task[a].ports, nodes |-> task[a].nodes,
                         listed |-> task[a].listed, at |-> task[a].at, cfg |-> nextId]
      PROVE  TaskTypes' /\ ConfigTypes'
  <2>1. Busy(task[a])
    BY <1>1, Own
  <2>2. /\ task'[a].pc = "rebuild" /\ task'[a].ports = task[a].ports
        /\ task'[a].nodes = task[a].nodes /\ task'[a].at = task[a].at /\ IsTask(task'[a])
    BY <1>4, SMT DEF IsTask
  <2>3. Handler(task'[a])
    BY <1>1, <2>1, <2>2 DEF Handler, Busy, Calls
  <2>4. TaskTypes'
    BY <1>4, <2>3, TaskKept DEF Types
  <2>5. new.id = nextId /\ new.nodes = {}
    BY DEF Config
  <2> HIDE DEF new
  <2>6. nextId \in Nat /\ Made(configs, nextId) /\ IDsUnique(configs)
    BY <1>2 DEF ConfigTypes
  <2>7. Made(configs', nextId')
    BY <1>4, <2>5, <2>6, SMT DEF Made
  <2>8. \A c \in configs : c.id # nextId
    BY <2>6, SMT DEF Made
  <2>9. IDsUnique(configs')
    BY <1>4, <2>5, <2>6, <2>8 DEF IDsUnique
  <2>10. nextId' \in Nat
    BY <1>4, <2>6, SMT
  <2> QED  BY <2>4, <2>7, <2>9, <2>10 DEF ConfigTypes
<1> QED  BY <1>3, <1>4, CreateCases

\* A config is rebuilt with the nodes, or it is not there or in the way of another.
LEMMA RebuildCases ==
    ASSUME Types, NEW a \in Actors, RebuildConfig(a)
    PROVE  /\ ~At(a, "idle") /\ task[a].pc = "rebuild"
           /\ \/ Return(a, FALSE) /\ configs' = configs
              \/ /\ \E c \in configs : c.id = task[a].cfg
                 /\ configs' = {c \in configs : c.id # task[a].cfg}
                                 \cup {Config(task[a].cfg, task[a].ports[task[a].at], task[a].nodes)}
                 /\ Advance(a, task[a].at + 1)
<1>1. ~At(a, "idle") /\ task[a].pc = "rebuild"
  BY DEF RebuildConfig, At
<1> QED  BY <1>1 DEF RebuildConfig

\* The types after a rebuild.
LEMMA RebuildTypes ==
    ASSUME Types, NEW a \in Actors, RebuildConfig(a)
    PROVE  /\ TaskTypes' /\ Made(configs', nextId) /\ IDsUnique(configs')
           /\ \A c \in configs' : c \in configs \/ c.nodes # {}
<1>1. ~At(a, "idle") /\ task[a].pc = "rebuild"
  BY RebuildCases
<1>2. nextId \in Nat /\ Made(configs, nextId) /\ IDsUnique(configs)
  BY DEF Types
<1>3. CASE Return(a, FALSE) /\ configs' = configs
  <2>1. TaskTypes'
    BY <1>1, <1>3, Returned
  <2> QED  BY <1>2, <1>3, <2>1
<1> DEFINE id == task[a].cfg
           new == Config(id, task[a].ports[task[a].at], task[a].nodes)
<1>4. ASSUME NEW c0 \in configs, c0.id = id,
             configs' = {c \in configs : c.id # id} \cup {new},
             Advance(a, task[a].at + 1)
      PROVE  /\ TaskTypes' /\ Made(configs', nextId) /\ IDsUnique(configs')
             /\ \A c \in configs' : c \in configs \/ c.nodes # {}
  <2>1. Busy(task[a])
    BY <1>1, Own
  <2>2. /\ task[a].at + 1 \in Nat \ {0} /\ task[a].nodes # {} /\ task[a].nodes \subseteq Nodes
    BY <1>1, <2>1, PortListsAssumption, SMT DEF Busy
  <2>3. TaskTypes'
    BY <1>1, <1>4, <2>2, AdvanceTypes
  <2>4. new.id = id /\ new.nodes = task[a].nodes
    BY DEF Config
  <2> HIDE DEF new
  <2>5. Made(configs', nextId)
    BY <1>2, <1>4, <2>2, <2>4 DEF Made
  <2>6. IDsUnique(configs')
    BY <1>2, <1>4, <2>4 DEF IDsUnique
  <2>7. \A c \in configs' : c \in configs \/ c.nodes # {}
    BY <1>4, <2>2, <2>4
  <2> QED  BY <2>3, <2>5, <2>6, <2>7
<1> QED  BY <1>3, <1>4, RebuildCases

\* A failing call ends the update.
LEMMA FailTypes ==
    ASSUME Types, NEW a \in Actors, CallFails(a)
    PROVE  ~At(a, "idle") /\ TaskTypes'
<1>1. ~At(a, "idle")
  BY FlagAssumption DEF CallFails, Calls, At
<1> QED  BY <1>1, Returned DEF CallFails

\* The types hold at the start.
LEMMA TypesInit ==
    ASSUME Init
    PROVE  Types
<1>1. Len(ports) \in Nat /\ DOMAIN ports = 1 .. Len(ports)
  BY PortListsAssumption DEF Init
<1>2. ports \in PortLists /\ cached \in PortLists /\ nodes \subseteq Nodes /\ due \subseteq Actors
  BY DEF Init
<1>3. \A i \in DOMAIN ports : Config(i, ports[i], nodes).id = i
                              /\ Config(i, ports[i], nodes).nodes = nodes
  BY DEF Config
<1>4. \A c \in configs : \E i \in DOMAIN ports : c = Config(i, ports[i], nodes)
  BY DEF Init
<1>5. nextId = Len(ports) + 1
  BY DEF Init
<1>6. Made(configs, nextId)
  BY <1>1, <1>2, <1>3, <1>4, <1>5, SMT DEF Made
<1>7. IDsUnique(configs)
  <2> SUFFICES ASSUME NEW c \in configs, NEW d \in configs, c.id = d.id
               PROVE  c = d
    BY DEF IDsUnique
  <2>1. PICK i \in DOMAIN ports : c = Config(i, ports[i], nodes)
    BY <1>4
  <2>2. PICK j \in DOMAIN ports : d = Config(j, ports[j], nodes)
    BY <1>4
  <2>3. c.id = i /\ d.id = j
    BY <1>3, <2>1, <2>2
  <2> QED  BY <2>1, <2>2, <2>3
<1>8. Handler(Idle)
  BY DEF Handler, IsTask, Idle
<1>9. DOMAIN task = Actors /\ \A a \in Actors : task[a] = Idle
  BY DEF Init
<1>10. failures \in 0 .. MaxFailures /\ edits \in 0 .. MaxEdits
  BY BoundsAssumption, SMT DEF Init
<1>11. nextId \in Nat
  BY <1>1, <1>5, SMT
<1> QED  BY <1>2, <1>6, <1>7, <1>8, <1>9, <1>10, <1>11 DEF Types

\* No step breaks the types.
LEMMA TypesNext ==
    ASSUME Types, [Next]_vars
    PROVE  Types'
<1>0. TaskTypes /\ ConfigTypes
  BY DEF Types, TaskTypes, ConfigTypes
<1>1. ASSUME TaskTypes', ConfigTypes', ports' \in PortLists, nodes' \subseteq Nodes,
             failures' \in 0 .. MaxFailures, edits' \in 0 .. MaxEdits
      PROVE  Types'
  BY <1>1 DEF Types, TaskTypes, ConfigTypes
<1>2. /\ ports \in PortLists /\ nodes \subseteq Nodes
      /\ failures \in 0 .. MaxFailures /\ edits \in 0 .. MaxEdits
      /\ nextId \in Nat /\ Made(configs, nextId) /\ IDsUnique(configs)
  BY DEF Types
<1>3. CASE UNCHANGED vars
  BY <1>0, <1>1, <1>2, <1>3 DEF vars, TaskTypes, ConfigTypes
<1>4. CASE Edit
  <2>1. edits' \in 0 .. MaxEdits
    BY <1>2, <1>4, BoundsAssumption, SMT DEF Edit
  <2>2. ports' \in PortLists /\ nodes' \subseteq Nodes
    BY <1>2, <1>4 DEF Edit
  <2>3. due' \subseteq Actors
    BY <1>0, <1>4 DEF Edit, TaskTypes, Actors
  <2>4. UNCHANGED <<cached, configs, nextId, task, failures>>
    BY <1>4 DEF Edit
  <2>5. TaskTypes' /\ ConfigTypes'
    BY <1>0, <2>3, <2>4 DEF TaskTypes, ConfigTypes
  <2> QED  BY <1>1, <1>2, <2>1, <2>2, <2>4, <2>5
<1>5. ASSUME NEW a \in Actors, Begin(a)
      PROVE  Types'
  BY <1>0, <1>1, <1>2, <1>5, BeginTypes DEF Begin, bounds, ConfigTypes
<1>6. ASSUME NEW a \in Actors, ListConfigs(a)
      PROVE  Types'
  BY <1>0, <1>1, <1>2, <1>6, ListTypes DEF ListConfigs, bounds, ConfigTypes
<1>7. ASSUME NEW a \in Actors, DeleteUnusedConfig(a)
      PROVE  Types'
  <2>1. TaskTypes' /\ configs' \subseteq configs
    BY <1>7, DeleteTypes
  <2>2. UNCHANGED <<ports, nodes, nextId, failures, edits>>
    BY <1>7 DEF DeleteUnusedConfig, bounds
  <2>3. ConfigTypes'
    BY <1>2, <2>1, <2>2 DEF ConfigTypes, Made, IDsUnique
  <2> QED  BY <1>1, <1>2, <2>1, <2>2, <2>3
<1>8. ASSUME NEW a \in Actors, CreateConfig(a)
      PROVE  Types'
  BY <1>1, <1>2, <1>8, CreateTypes DEF CreateConfig, bounds
<1>9. ASSUME NEW a \in Actors, RebuildConfig(a)
      PROVE  Types'
  <2>1. TaskTypes' /\ Made(configs', nextId) /\ IDsUnique(configs')
    BY <1>9, RebuildTypes
  <2>2. UNCHANGED <<ports, nodes, nextId, failures, edits>>
    BY <1>9 DEF RebuildConfig, bounds
  <2>3. ConfigTypes'
    BY <1>2, <2>1, <2>2 DEF ConfigTypes
  <2> QED  BY <1>1, <1>2, <2>1, <2>2, <2>3
<1>10. ASSUME NEW a \in Actors, CallFails(a)
       PROVE  Types'
  <2>1. TaskTypes'
    BY <1>10, FailTypes
  <2>2. failures' \in 0 .. MaxFailures
    BY <1>2, <1>10, BoundsAssumption, SMT DEF CallFails
  <2>3. UNCHANGED <<ports, nodes, configs, nextId, edits>>
    BY <1>10 DEF CallFails
  <2> QED  BY <1>0, <1>1, <1>2, <2>1, <2>2, <2>3 DEF ConfigTypes
<1> QED  BY <1>3, <1>4, <1>5, <1>6, <1>7, <1>8, <1>9, <1>10 DEF Next, UpdateNodeBalancer

\* The types hold in every state.
THEOREM AllTypes == Spec => []Types
BY TypesInit, TypesNext, PTL DEF Spec

\* TypeOK: in particular an update always has nodes to send.
THEOREM TypeCorrect == Spec => []TypeOK
<1>1. Types => TypeOK
  BY DEF Types, TypeOK, Made, IDsUnique, Handler, Busy
<1> QED  BY <1>1, AllTypes, PTL

\* BackendsKept: no update leaves a config that has backends without any.
THEOREM BackendsKeptHolds == Spec => BackendsKept
<1> DEFINE Keeps == \A c \in configs, d \in configs' : c.id = d.id /\ c.nodes # {} => d.nodes # {}
<1>1. Types /\ [Next]_vars => [Keeps]_vars
  <2> SUFFICES ASSUME Types, Next
               PROVE  Keeps
    OBVIOUS
  <2>1. nextId \in Nat /\ Made(configs, nextId) /\ IDsUnique(configs)
    BY DEF Types
  <2>2. CASE configs' \subseteq configs
    BY <2>1, <2>2 DEF IDsUnique
  <2>3. CASE \A c \in configs' : c \in configs \/ c.nodes # {}
    BY <2>1, <2>3 DEF IDsUnique
  <2>4. ASSUME NEW sp, configs' = configs \cup {Config(nextId, sp, {})}
        PROVE  Keeps
    <3>1. Config(nextId, sp, {}).id = nextId /\ \A c \in configs : c.id # nextId
      BY <2>1, SMT DEF Config, Made
    <3> QED  BY <2>1, <2>4, <3>1 DEF IDsUnique
  <2>5. \/ configs' \subseteq configs
        \/ \A c \in configs' : c \in configs \/ c.nodes # {}
        \/ \E a \in Actors : CreateConfig(a)
    <3>1. CASE Edit
      BY <3>1 DEF Edit
    <3>2. CASE \E a \in Actors : Begin(a) \/ ListConfigs(a) \/ CallFails(a)
      BY <3>2 DEF Begin, ListConfigs, CallFails
    <3>3. CASE \E a \in Actors : DeleteUnusedConfig(a) \/ RebuildConfig(a)
      BY <3>3, DeleteTypes, RebuildTypes
    <3> QED  BY <3>1, <3>2, <3>3 DEF Next, UpdateNodeBalancer
  <2>6. ASSUME NEW a \in Actors, CreateConfig(a)
        PROVE  Keeps
    <3>1. configs' = configs \/ configs' = configs \cup {Config(nextId, task[a].ports[task[a].at], {})}
      BY <2>6, CreateCases
    <3> QED  BY <2>2, <2>4, <3>1
  <2> QED  BY <2>2, <2>3, <2>5, <2>6
<1> QED  BY <1>1, AllTypes, PTL DEF Spec, BackendsKept

-----------------------------------------------------------------------------
\* Taking turns.

\* The other actor does nothing.
Alone(a) == \A b \in Actors : b # a => At(b, "idle")

\* It has nothing under way.
LEMMA RestIdle ==
    ASSUME NEW a \in Actors, Others(a), Alone(a), Underway(configs', task'[a])
    PROVE  InTurns' /\ \A b \in Actors : Underway(configs', task'[b])
<1>1. \A b \in Actors : b # a => task'[b].pc = "idle"
  BY DEF Others, Alone, At
<1>2. InTurns'
  BY <1>1 DEF InTurns, At
<1>3. \A b \in Actors : task'[b].pc = "idle" => Underway(configs', task'[b])
  BY DEF Underway
<1> QED  BY <1>1, <1>2, <1>3

\* The update goes on with what it read.
LEMMA StillUpToDate ==
    ASSUME UpToDate, NEW a \in Actors, Others(a), Alone(a), ~At(a, "idle"),
           UNCHANGED <<ports, nodes, cached, due>>, task'[a].pc # "idle",
           task'[a].ports = task[a].ports, task'[a].nodes = task[a].nodes
    PROVE  UpToDate' /\ QuiescentMatches'
<1>1. \A b \in Actors : ~At(b, "idle")' => b = a
  BY DEF Others, Alone, At
<1>2. ~At(a, "idle")'
  BY DEF At
<1>3. ("sync" \notin due => task[a].ports = ports) /\ ("node" \notin due => task[a].nodes = nodes)
  BY DEF UpToDate
<1>4. At("sync", "idle")' => At("sync", "idle")
  BY <1>2 DEF Others, At, Actors
<1>5. UpToDate'
  BY <1>1, <1>3, <1>4 DEF UpToDate
<1> QED  BY <1>2, <1>5 DEF QuiescentMatches

\* After an error the actor is due again.
LEMMA FailedUpToDate ==
    ASSUME UpToDate, NEW a \in Actors, Others(a), Alone(a), task'[a] = Idle,
           Return(a, FALSE), UNCHANGED <<ports, nodes>>
    PROVE  UpToDate' /\ QuiescentMatches' /\ Underway(configs', task'[a])
<1>1. due' = due \cup {a} /\ cached' = cached
  BY DEF Return
<1>2. task'[a].pc = "idle"
  BY SMT DEF Idle
<1>3. \A b \in Actors : At(b, "idle")'
  BY <1>2 DEF Others, Alone, At
<1>4. "sync" \notin due' => At("sync", "idle") /\ "sync" \notin due
  BY <1>1 DEF Alone, Actors
<1>5. UpToDate'
  BY <1>1, <1>3, <1>4 DEF UpToDate
<1>6. due' # {}
  BY <1>1
<1>7. Underway(configs', task'[a])
  BY <1>2 DEF Underway
<1> QED  BY <1>5, <1>6, <1>7 DEF QuiescentMatches

\* After a success, with nothing due, the NodeBalancer has what the Service and the nodes
\* now are.
LEMMA DoneUpToDate ==
    ASSUME UpToDate, NEW a \in Actors, Others(a), Alone(a), ~At(a, "idle"), task'[a] = Idle,
           Return(a, TRUE), UNCHANGED <<ports, nodes>>,
           Exact(configs', task[a].ports, task[a].nodes)
    PROVE  UpToDate' /\ QuiescentMatches' /\ Underway(configs', task'[a])
<1>1. due' = due /\ cached' = IF a = "sync" THEN task[a].ports ELSE cached
  BY DEF Return
<1>2. task'[a].pc = "idle"
  BY SMT DEF Idle
<1>3. \A b \in Actors : At(b, "idle")'
  BY <1>2 DEF Others, Alone, At
<1>4. ("sync" \notin due => task[a].ports = ports) /\ ("node" \notin due => task[a].nodes = nodes)
  BY DEF UpToDate
<1>5. "sync" \notin due => cached' = ports
  <2>1. CASE a = "sync"
    BY <1>1, <1>4, <2>1
  <2>2. CASE a # "sync"
    <3>1. At("sync", "idle")
      BY <2>2 DEF Alone, Actors
    <3> QED  BY <1>1, <2>2, <3>1 DEF UpToDate
  <2> QED  BY <2>1, <2>2
<1>6. UpToDate'
  BY <1>1, <1>3, <1>5 DEF UpToDate
<1>7. due' = {} => Matches'
  BY <1>1, <1>4 DEF Exact, Matches
<1>8. Underway(configs', task'[a])
  BY <1>2 DEF Underway
<1> QED  BY <1>6, <1>7, <1>8 DEF QuiescentMatches

\* The update goes on with the i-th port, if there is one, or is done.
LEMMA AdvanceKeeps ==
    ASSUME Types, UpToDate, NEW a \in Actors, ~At(a, "idle"), Alone(a),
           NEW i \in Nat \ {0}, Advance(a, i), i <= Len(task[a].ports) + 1,
           UNCHANGED <<ports, nodes>>,
           PortsUnique(configs'), IDsUnique(configs'), \A c \in configs' : c.id \in Nat,
           Bound(configs', task[a].ports, task[a].nodes, task[a].listed, i - 1, i - 1)
    PROVE  UpToDate' /\ QuiescentMatches' /\ Others(a) /\ Underway(configs', task'[a])
<1> DEFINE sps == task[a].ports
           L == task[a].listed
<1>0. Busy(task[a])
  BY Own
<1>1. sps \in PortLists /\ Len(sps) \in Nat
  BY <1>0, PortListsAssumption DEF Busy
<1>2. CASE i > Len(sps) /\ Return(a, TRUE)
  <2>1. i - 1 = Len(sps)
    BY <1>1, <1>2, SMT
  <2>2. Bound(configs', task[a].ports, task[a].nodes, task[a].listed, Len(sps), i - 1)
    BY <2>1
  <2>3. Exact(configs', sps, task[a].nodes)
    BY <1>1, <2>2, AllHandled
  <2>4. Others(a) /\ task'[a] = Idle
    BY <1>2, Returned
  <2> QED  BY <1>2, <2>3, <2>4, DoneUpToDate
<1>3. CASE GoesOn(a, i)
  <2> DEFINE same == {c.id : c \in {d \in L : d.port = sps[i].port}}
  <2>1. /\ i \in 1 .. Len(sps) /\ due' = due /\ cached' = cached /\ Others(a)
        /\ \/ same = {} /\ task'[a] = Advancing(a, i, "create", 0)
           \/ same # {} /\ task'[a] = Advancing(a, i, "rebuild", Min(same))
    BY <1>3 DEF GoesOn
  <2>2. \A pc, id : LET t == Advancing(a, i, pc, id)
                    IN  /\ t.pc = pc /\ t.ports = sps /\ t.nodes = task[a].nodes
                        /\ t.listed = L /\ t.at = i /\ t.cfg = id
    BY DEF Advancing
  <2>3. task'[a].pc # "idle" /\ task'[a].ports = sps /\ task'[a].nodes = task[a].nodes
          /\ task'[a].listed = L /\ task'[a].at = i
    <3> HIDE DEF sps, L, same
    <3> QED  BY <2>1, <2>2, SMT
  <2>4. UpToDate' /\ QuiescentMatches'
    BY <2>1, <2>3, StillUpToDate
  <2>5. Bound(configs', task'[a].ports, task'[a].nodes, task'[a].listed, i - 1, i - 1)
    BY <2>3, ZenonT(30)
  <2>6. CASE same = {} /\ task'[a] = Advancing(a, i, "create", 0)
    <3>1. task'[a].pc = "create"
      BY <2>6, SMT DEF Advancing
    <3>2. \A l \in L : l.port # sps[i].port
      BY <2>6
    <3> QED  BY <2>1, <2>3, <2>4, <2>5, <3>1, <3>2 DEF Underway
  <2>7. CASE same # {} /\ task'[a] = Advancing(a, i, "rebuild", Min(same))
    <3>1. task'[a].pc = "rebuild" /\ task'[a].cfg = Min(same)
      BY <2>7, SMT DEF Advancing
    <3>2. PICK l \in L : l.port = sps[i].port
      BY <2>7
    <3>3. PICK c0 \in configs' : c0.id = l.id /\ c0.port = l.port
      BY DEF Bound
    <3>4. \A k \in L : k.port = sps[i].port => k.id = l.id
      <4> SUFFICES ASSUME NEW k \in L, k.port = sps[i].port
                   PROVE  k.id = l.id
        OBVIOUS
      <4>1. PICK c \in configs' : c.id = k.id /\ c.port = k.port
        BY DEF Bound
      <4> QED  BY <3>2, <3>3, <4>1 DEF PortsUnique
    <3>5. same = {l.id}
      BY <3>2, <3>4
    <3>6. Min(same) = l.id
      <4>1. l.id \in Int
        BY <3>3, SMT
      <4> QED  BY <3>5, <4>1, MinOfOne
    <3>7. \A c \in configs' : c.id = l.id => c.port = sps[i].port
      BY <3>2, <3>3 DEF IDsUnique
    <3>8. Bound(configs', sps, task[a].nodes, L, i - 1, i)
      BY BoundMore
    <3>9. Underway(configs', task'[a])
      <4> HIDE DEF same, sps, L
      <4> QED  BY <2>3, <3>1, <3>6, <3>7, <3>8 DEF Underway
    <3> QED  BY <2>1, <2>4, <3>9
  <2> QED  BY <2>1, <2>6, <2>7
<1> QED  BY <1>2, <1>3, Advanced

-----------------------------------------------------------------------------
\* Every step keeps the invariant.

\* What the actions below have to show.
Rest ==
    /\ InTurns /\ UpToDate /\ PortsUnique(configs) /\ QuiescentMatches
    /\ \A a \in Actors : Underway(configs, task[a])

\* The other actor waits its turn.
LEMMA AtWork ==
    ASSUME InTurns, NEW a \in Actors, ~At(a, "idle")
    PROVE  Alone(a)
BY DEF InTurns, Alone

\* The NodeBalancer starts as the Service asks for.
LEMMA InvariantInit ==
    ASSUME Distinct, Init
    PROVE  Invariant
<1>1. Types
  BY TypesInit
<1>2. \A a \in Actors : task[a] = Idle
  BY DEF Init
<1>3. \A a \in Actors : task[a].pc = "idle"
  BY <1>2, SMT DEF Idle
<1>4. InTurns /\ UpToDate
  BY <1>3 DEF Init, InTurns, UpToDate, At
<1>5. \A a \in Actors : Underway(configs, task[a])
  BY <1>3 DEF Underway
<1>6. \A i \in DOMAIN ports :
        /\ Config(i, ports[i], nodes).port = ports[i].port
        /\ Config(i, ports[i], nodes).protocol = ports[i].protocol
        /\ Config(i, ports[i], nodes).nodes = nodes
  BY DEF Config
<1>7. configs = {Config(i, ports[i], nodes) : i \in DOMAIN ports} /\ ports \in PortLists
  BY DEF Init
<1>8. PortsUnique(configs)
  <2> SUFFICES ASSUME NEW c \in configs, NEW d \in configs, c.port = d.port
               PROVE  c = d
    BY DEF PortsUnique
  <2>1. PICK i \in DOMAIN ports : c = Config(i, ports[i], nodes)
    BY <1>7
  <2>2. PICK j \in DOMAIN ports : d = Config(j, ports[j], nodes)
    BY <1>7
  <2>3. ports[i].port = ports[j].port
    BY <1>6, <2>1, <2>2
  <2>4. i = j
    BY <1>7, <2>3 DEF Distinct
  <2> QED  BY <2>1, <2>2, <2>4
<1>9. Matches
  <2> DEFINE Of(c) == [port |-> c.port, protocol |-> c.protocol, nodes |-> c.nodes]
             For(i) == [port |-> ports[i].port, protocol |-> ports[i].protocol, nodes |-> nodes]
  <2>1. \A i \in DOMAIN ports : Of(Config(i, ports[i], nodes)) = For(i)
    BY <1>6
  <2> HIDE DEF Of, For
  <2>2. {Of(c) : c \in configs} = {For(i) : i \in DOMAIN ports}
    BY <1>7, <2>1
  <2> QED  BY <2>2 DEF Matches, Of, For
<1> QED  BY <1>1, <1>4, <1>5, <1>8, <1>9 DEF Invariant, QuiescentMatches

\* An edit makes an update due.
LEMMA EditKeeps ==
    ASSUME Invariant, Edit
    PROVE  Rest'
<1>1. UNCHANGED <<cached, configs, task>>
  BY DEF Edit
<1>2. InTurns' /\ PortsUnique(configs)' /\ \A a \in Actors : Underway(configs', task'[a])
  BY <1>1 DEF Invariant, InTurns, At
<1>3. /\ due' # {} /\ due \subseteq due'
      /\ ports' # ports => "sync" \in due'
      /\ nodes' # nodes => "node" \in due'
  BY DEF Edit
<1>4. UpToDate'
  <2>1. At("sync", "idle")' /\ "sync" \notin due' => cached' = ports'
    BY <1>1, <1>3 DEF Invariant, UpToDate, At
  <2>2. ASSUME NEW a \in Actors, ~At(a, "idle")'
        PROVE  /\ "sync" \notin due' => task'[a].ports = ports'
               /\ "node" \notin due' => task'[a].nodes = nodes'
    <3>1. /\ "sync" \notin due => task[a].ports = ports
          /\ "node" \notin due => task[a].nodes = nodes
      BY <1>1, <2>2 DEF Invariant, UpToDate, At
    <3> QED  BY <1>1, <1>3, <3>1
  <2> QED  BY <2>1, <2>2 DEF UpToDate
<1> QED  BY <1>2, <1>3, <1>4 DEF Rest, QuiescentMatches

\* A worker takes the ports and nodes as they are now; the node synchronisation takes
\* the ports the last successful update saw, which are those of now unless one is due.
LEMMA BeginKeeps ==
    ASSUME Serial, Invariant, NEW a \in Actors, Begin(a)
    PROVE  Rest'
<1>1. \A b \in Actors : At(b, "idle")
  BY DEF Begin
<1>2. Others(a) /\ task'[a] = [pc |-> "list", ports |-> IF a = "sync" THEN ports ELSE cached,
                                nodes |-> nodes, listed |-> {}, at |-> 0, cfg |-> 0]
  BY BeginTypes DEF Invariant
<1>3. /\ task'[a].pc = "list" /\ task'[a].nodes = nodes
      /\ task'[a].ports = IF a = "sync" THEN ports ELSE cached
  BY <1>2, SMT
<1>4. Underway(configs', task'[a]) /\ Alone(a)
  BY <1>1, <1>3 DEF Underway, Alone
<1>5. InTurns' /\ \A b \in Actors : Underway(configs', task'[b])
  BY <1>2, <1>4, RestIdle
<1>6. UNCHANGED <<ports, nodes, cached, configs>> /\ due' = due \ {a}
  BY DEF Begin
<1>7. \A b \in Actors : ~At(b, "idle")' <=> b = a
  BY <1>1, <1>2, <1>3 DEF Others, At
<1>8. "sync" \notin due => cached = ports
  BY <1>1 DEF Invariant, UpToDate, Actors
<1>9. At("sync", "idle")' /\ "sync" \notin due' => cached' = ports'
  BY <1>6, <1>7, <1>8 DEF Actors
<1>10. "sync" \notin due' => task'[a].ports = ports'
  BY <1>3, <1>6, <1>8 DEF Actors
<1>11. "node" \notin due' => task'[a].nodes = nodes'
  BY <1>3, <1>6
<1>12. UpToDate'
  BY <1>7, <1>9, <1>10, <1>11 DEF UpToDate
<1>13. QuiescentMatches'
  BY <1>7 DEF QuiescentMatches
<1>14. PortsUnique(configs)'
  BY <1>6 DEF Invariant
<1> QED  BY <1>5, <1>12, <1>13, <1>14 DEF Rest

\* The list is of all configs.
LEMMA ListKeeps ==
    ASSUME Invariant, NEW a \in Actors, ListConfigs(a)
    PROVE  Rest'
<1>1. ~At(a, "idle")
  BY DEF ListConfigs, At
<1>2. Alone(a)
  BY <1>1, AtWork DEF Invariant
<1>3. /\ Others(a)
      /\ task'[a] = [pc |-> "delete", ports |-> task[a].ports, nodes |-> task[a].nodes,
                      listed |-> {[id |-> c.id, port |-> c.port] : c \in configs},
                      at |-> task[a].at, cfg |-> task[a].cfg]
  BY ListTypes DEF Invariant
<1>4. /\ task'[a].pc = "delete" /\ task'[a].ports = task[a].ports
      /\ task'[a].nodes = task[a].nodes
      /\ task'[a].listed = {[id |-> c.id, port |-> c.port] : c \in configs}
  BY <1>3, SMT
<1>5. UNCHANGED <<ports, nodes, cached, configs, due>>
  BY DEF ListConfigs
<1>6. Underway(configs', task'[a])
  BY <1>4, <1>5 DEF Underway
<1>7. InTurns' /\ \A b \in Actors : Underway(configs', task'[b])
  BY <1>2, <1>3, <1>6, RestIdle
<1>8. UpToDate' /\ QuiescentMatches'
  <2>1. task'[a].pc # "idle"
    BY <1>4
  <2>2. UpToDate
    BY DEF Invariant
  <2> QED  BY <1>1, <1>2, <1>3, <1>4, <1>5, <2>1, <2>2, StillUpToDate
<1>9. PortsUnique(configs)'
  BY <1>5 DEF Invariant
<1> QED  BY <1>7, <1>8, <1>9 DEF Rest

\* An error, wherever it comes from.
LEMMA FailureKeeps ==
    ASSUME Invariant, NEW a \in Actors, ~At(a, "idle"), Return(a, FALSE),
           UNCHANGED <<ports, nodes>>, configs' \subseteq configs
    PROVE  Rest'
<1>1. Alone(a)
  BY AtWork DEF Invariant
<1>2. Others(a) /\ task'[a] = Idle
  BY Returned DEF Invariant
<1>3. UpToDate
  BY DEF Invariant
<1>4. UpToDate' /\ QuiescentMatches' /\ Underway(configs', task'[a])
  BY <1>1, <1>2, <1>3, FailedUpToDate
<1>5. InTurns' /\ \A b \in Actors : Underway(configs', task'[b])
  BY <1>1, <1>2, <1>4, RestIdle
<1>6. PortsUnique(configs)'
  BY DEF Invariant, PortsUnique
<1> QED  BY <1>4, <1>5, <1>6 DEF Rest

\* A config of no port goes, on the NodeBalancer and on the list; with none left, the
\* ports are handled from the first.
LEMMA DeleteKeeps ==
    ASSUME Invariant, NEW a \in Actors, DeleteUnusedConfig(a)
    PROVE  Rest'
<1>0. Types /\ UpToDate /\ PortsUnique(configs) /\ Underway(configs, task[a])
  BY DEF Invariant
<1>1. ~At(a, "idle") /\ task[a].pc = "delete"
  BY DEF DeleteUnusedConfig, At
<1>2. Alone(a)
  BY <1>1, AtWork DEF Invariant
<1>3. UNCHANGED <<ports, nodes>> /\ configs' \subseteq configs
  BY DEF DeleteUnusedConfig
<1>4. PortsUnique(configs')
  BY <1>0, <1>3 DEF PortsUnique
<1> DEFINE sps == task[a].ports
           L == task[a].listed
<1>5. L = {[id |-> c.id, port |-> c.port] : c \in configs}
  BY <1>0, <1>1 DEF Underway
<1>6. CASE Return(a, FALSE)
  BY <1>1, <1>3, <1>6, FailureKeeps
<1>7. CASE Unused(a) = {} /\ Advance(a, 1) /\ configs' = configs
  <2>1. \A l \in L : l.port \in PortNumbers(sps)
    BY <1>7 DEF Unused
  <2>2. \A c \in configs : [id |-> c.id, port |-> c.port] \in L
    BY <1>5
  <2>3. \A c \in configs : [id |-> c.id, port |-> c.port].port = c.port
                           /\ [id |-> c.id, port |-> c.port].id = c.id
    OBVIOUS
  <2>4. \A c \in configs : c.port \in PortNumbers(sps)
    BY <2>1, <2>2, <2>3
  <2>5. \A l \in L : \E c \in configs : c.id = l.id /\ c.port = l.port
    BY <1>5, <2>3
  <2>6. \A c \in configs : \E l \in L : l.id = c.id /\ l.port = c.port
    BY <2>2, <2>3
  <2>7. 1 - 1 = 0 /\ 1 .. 0 = {} /\ 1 \in Nat \ {0}
    BY SMT
  <2>8. Bound(configs, sps, task[a].nodes, L, 1 - 1, 1 - 1)
    BY <2>4, <2>5, <2>6, <2>7 DEF Bound
  <2>9. Len(sps) \in Nat
    BY <1>0, <1>1, Own, PortListsAssumption DEF Busy
  <2>10. 1 <= Len(sps) + 1
    BY <2>9, SMT
  <2>11. IDsUnique(configs') /\ \A c \in configs' : c.id \in Nat
    BY <1>0, <1>7 DEF Types, Made
  <2>12. Bound(configs', sps, task[a].nodes, L, 1 - 1, 1 - 1)
    BY <1>7, <2>8
  <2>13. UpToDate' /\ QuiescentMatches' /\ Others(a) /\ Underway(configs', task'[a])
    BY <1>0, <1>1, <1>2, <1>3, <1>4, <1>7, <2>7, <2>10, <2>11, <2>12, AdvanceKeeps
  <2>14. InTurns' /\ \A b \in Actors : Underway(configs', task'[b])
    BY <1>2, <2>13, RestIdle
  <2> QED  BY <1>4, <2>13, <2>14 DEF Rest
<1>8. ASSUME NEW id, configs' = {c \in configs : c.id # id},
             due' = due, cached' = cached, Others(a),
             task'[a] = [pc |-> "delete", ports |-> task[a].ports, nodes |-> task[a].nodes,
                         listed |-> {c \in task[a].listed : c.id # id},
                         at |-> task[a].at, cfg |-> task[a].cfg]
      PROVE  Rest'
  <2>1. /\ task'[a].pc = "delete" /\ task'[a].ports = task[a].ports
        /\ task'[a].nodes = task[a].nodes /\ task'[a].listed = {c \in L : c.id # id}
    BY <1>8, SMT
  <2>2. {c \in L : c.id # id} = {[id |-> c.id, port |-> c.port] : c \in configs'}
    BY <1>5, <1>8, SMT
  <2>3. Underway(configs', task'[a])
    BY <2>1, <2>2 DEF Underway
  <2>4. task'[a].pc # "idle"
    BY <2>1
  <2>5. UpToDate' /\ QuiescentMatches'
    BY <1>0, <1>1, <1>2, <1>3, <1>8, <2>1, <2>4, StillUpToDate
  <2>6. InTurns' /\ \A b \in Actors : Underway(configs', task'[b])
    BY <1>2, <1>8, <2>3, RestIdle
  <2> QED  BY <1>4, <2>5, <2>6 DEF Rest
<1> QED  BY <1>0, <1>6, <1>7, <1>8, DeleteCases

\* A port that is not on the list has no config yet: the new one is its only.
LEMMA CreateKeeps ==
    ASSUME Distinct, Invariant, NEW a \in Actors, CreateConfig(a)
    PROVE  Rest'
<1>0. Types /\ UpToDate /\ PortsUnique(configs) /\ Underway(configs, task[a])
  BY DEF Invariant
<1>1. ~At(a, "idle") /\ task[a].pc = "create"
  BY DEF CreateConfig, At
<1>2. Alone(a)
  BY <1>1, AtWork DEF Invariant
<1>3. UNCHANGED <<ports, nodes>>
  BY DEF CreateConfig
<1> DEFINE t == task[a]
           sp == t.ports[t.at]
<1>4. CASE Return(a, FALSE) /\ configs' = configs
  BY <1>1, <1>3, <1>4, FailureKeeps
<1>5. ASSUME configs' = configs \cup {Config(nextId, sp, {})},
             due' = due, cached' = cached, Others(a),
             task'[a] = [pc |-> "rebuild", ports |-> task[a].ports, nodes |-> task[a].nodes,
                         listed |-> task[a].listed, at |-> task[a].at, cfg |-> nextId]
      PROVE  Rest'
  <2>1. /\ task'[a].pc = "rebuild" /\ task'[a].ports = t.ports /\ task'[a].nodes = t.nodes
        /\ task'[a].listed = t.listed /\ task'[a].at = t.at /\ task'[a].cfg = nextId
    BY <1>5, SMT
  <2>2. t.ports \in PortLists /\ t.at \in 1 .. Len(t.ports)
    BY <1>0, <1>1, Own DEF Busy
  <2>3. /\ Bound(configs, t.ports, t.nodes, t.listed, t.at - 1, t.at - 1)
        /\ \A l \in t.listed : l.port # t.ports[t.at].port
    BY <1>0, <1>1 DEF Underway
  <2>4. \A c \in configs : c.id # nextId
    BY <1>0, SMT DEF Types, Made
  <2> HIDE DEF t
  <2>5. configs' = configs \cup {Config(nextId, t.ports[t.at], {})}
    BY <1>5
  <2> HIDE DEF sp
  <2>10. /\ PortsUnique(configs')
         /\ Bound(configs', t.ports, t.nodes, t.listed, t.at - 1, t.at)
         /\ \A c \in configs' : c.id = nextId => c.port = t.ports[t.at].port
    <3>1. PortsUnique(configs)
      BY <1>0
    <3>2. Creating(configs, t, nextId, configs')
      BY <2>2, <2>3, <2>4, <2>5, <3>1 DEF Creating
    <3>3. PortsUnique(configs')
      BY <3>2, CreateBound
    <3>4. Bound(configs', t.ports, t.nodes, t.listed, t.at - 1, t.at)
      BY <3>2, CreateBound
    <3>5. \A c \in configs' : c.id = nextId => c.port = t.ports[t.at].port
      <4>1. Config(nextId, t.ports[t.at], {}).port = t.ports[t.at].port
        BY SMTT(30) DEF Config
      <4> QED  BY <2>4, <2>5, <4>1
    <3> QED  BY <3>3, <3>4, <3>5
  <2>6. Underway(configs', task'[a])
    BY <2>1, <2>10 DEF Underway
  <2>7. task'[a].pc # "idle"
    BY <2>1
  <2>8. UpToDate' /\ QuiescentMatches'
    BY <1>0, <1>1, <1>2, <1>3, <1>5, <2>1, <2>7, StillUpToDate DEF t
  <2>9. InTurns' /\ \A b \in Actors : Underway(configs', task'[b])
    BY <1>2, <1>5, <2>6, RestIdle
  <2> QED  BY <2>8, <2>9, <2>10 DEF Rest
<1> QED  BY <1>0, <1>4, <1>5, CreateCases

\* A port has its config, with all nodes, once it is rebuilt.
LEMMA RebuildKeeps ==
    ASSUME Distinct, Invariant, NEW a \in Actors, RebuildConfig(a)
    PROVE  Rest'
<1>0. Types /\ UpToDate /\ PortsUnique(configs) /\ Underway(configs, task[a])
  BY DEF Invariant
<1>1. ~At(a, "idle") /\ task[a].pc = "rebuild"
  BY DEF RebuildConfig, At
<1>2. Alone(a)
  BY <1>1, AtWork DEF Invariant
<1>3. UNCHANGED <<ports, nodes>>
  BY DEF RebuildConfig
<1> DEFINE t == task[a]
<1>4. CASE Return(a, FALSE) /\ configs' = configs
  BY <1>1, <1>3, <1>4, FailureKeeps
<1>5. ASSUME NEW c0 \in configs, c0.id = t.cfg,
             configs' = {c \in configs : c.id # t.cfg}
                          \cup {Config(t.cfg, t.ports[t.at], t.nodes)},
             Advance(a, t.at + 1)
      PROVE  Rest'
  <2>1. t.ports \in PortLists /\ t.at \in 1 .. Len(t.ports)
    BY <1>0, <1>1, Own DEF Busy
  <2>2. /\ Bound(configs, t.ports, t.nodes, t.listed, t.at - 1, t.at)
        /\ \A c \in configs : c.id = t.cfg => c.port = t.ports[t.at].port
    BY <1>0, <1>1 DEF Underway
  <2>3. IDsUnique(configs') /\ \A c \in configs' : c.id \in Nat
    BY <1>0, RebuildTypes DEF Made
  <2> HIDE DEF t
  <2>4. PortsUnique(configs') /\ Bound(configs', t.ports, t.nodes, t.listed, t.at, t.at)
    BY <1>0, <1>5, <2>1, <2>2, RebuildBound
  <2>5. Len(t.ports) \in Nat
    BY <2>1, PortListsAssumption
  <2>6. t.at + 1 \in Nat \ {0} /\ t.at + 1 <= Len(t.ports) + 1 /\ (t.at + 1) - 1 = t.at
    BY <2>1, <2>5, SMT
  <2>7. Bound(configs', t.ports, t.nodes, t.listed, (t.at + 1) - 1, (t.at + 1) - 1)
    BY <2>4, <2>6
  <2>8. UpToDate' /\ QuiescentMatches' /\ Others(a) /\ Underway(configs', task'[a])
    BY <1>0, <1>1, <1>2, <1>3, <1>5, <2>3, <2>4, <2>6, <2>7, AdvanceKeeps DEF t
  <2>9. InTurns' /\ \A b \in Actors : Underway(configs', task'[b])
    BY <1>2, <2>8, RestIdle
  <2> QED  BY <2>4, <2>8, <2>9 DEF Rest
<1> QED  BY <1>0, <1>4, <1>5, RebuildCases

\* No step breaks the invariant.
LEMMA InvariantNext ==
    ASSUME Serial, Distinct, Invariant, [Next]_vars
    PROVE  Invariant'
<1>1. Types'
  BY TypesNext DEF Invariant
<1>2. CASE UNCHANGED vars
  BY <1>1, <1>2 DEF vars, Invariant, InTurns, UpToDate, QuiescentMatches, Matches, At
<1>3. CASE Next
  <2>1. ASSUME NEW a \in Actors, CallFails(a)
        PROVE  Rest'
    <3>1. ~At(a, "idle")
      BY <2>1, FailTypes DEF Invariant
    <3> QED  BY <2>1, <3>1, FailureKeeps DEF CallFails
  <2>2. Rest'
    BY <1>3, <2>1, EditKeeps, BeginKeeps, ListKeeps, DeleteKeeps, CreateKeeps, RebuildKeeps,
       Zenon DEF Next, UpdateNodeBalancer
  <2> QED  BY <1>1, <2>2 DEF Rest, Invariant
<1> QED  BY <1>2, <1>3

\* QuiescentMatches: if the service worker and the node synchronisation take turns, and no
\* Service uses a port number with both protocols, a NodeBalancer that no update is due
\* for has a config for each port, with all nodes, and no other, whatever failed before.
THEOREM QuiescentMatchesHolds ==
    ASSUME Serial, Distinct
    PROVE  Spec => []QuiescentMatches
<1>1. Init => Invariant
  BY InvariantInit
<1>2. Invariant /\ [Next]_vars => Invariant'
  BY InvariantNext
<1>3. Invariant => QuiescentMatches
  BY DEF Invariant
<1> QED  BY <1>1, <1>2, <1>3, PTL DEF Spec
=============================================================================
