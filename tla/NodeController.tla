--------------------------- MODULE NodeController ---------------------------
(***************************************************************************)
(* The node controller of node_controller.go: it copies what the Linode    *)
(* API says of a node's Linode (the UUID of its host, its private and its  *)
(* IPv6 address) to the Node object, and keeps the cache of registered     *)
(* nodes that the route controller reads.                                  *)
(*                                                                         *)
(* Timestamps of requests are only compared with nodeLastAdded of their    *)
(* node: a request is the newest of its node or it is not.  The two TTLs   *)
(* are flags that time clears.                                             *)
(***************************************************************************)
EXTENDS Integers, Sequences

CONSTANTS
    Names,        \* names of nodes
    Addresses,    \* kinds of addresses: private IPv4, IPv6
    Values,       \* UUIDs and addresses
    None,         \* no label, no annotation, no address
    Steps,        \* attempts of RetryOnConflict
    Changing,        \* bound: the nodes that others change
    MaxDisruptions   \* bound: changes by others and calls that fail

Attributes == {"host"} \cup Addresses
Metadata == [Attributes -> Values \cup {None}]
LinodeData == {m \in Metadata : m["host"] # None}

ASSUME NoneAssumption == None \notin Values /\ Values # {}
ASSUME BoundsAssumption ==
    Changing \subseteq Names /\ Steps \in Nat \ {0} /\ MaxDisruptions \in Nat

VARIABLES
    linode,    \* what the Linode API says
    known,     \* the instance cache's copy of it
    api,       \* the Node objects
    informer,  \* the informer's copy of them
    queue,     \* requests to handle, in order
    waiting,   \* requests to try again later
    fresh,     \* nodes whose metadataLastUpdate is younger than the TTL
    registry,  \* the nodes in k8sNodeCache
    listed,    \* the age of k8sNodeCache, against its TTL
    task,      \* the worker
    seen,      \* history: the version of each node that was handled last
    disruptions

vars == <<linode, known, api, informer, queue, waiting, fresh, registry, listed, task, seen,
          disruptions>>
cloud == <<linode, known>>
caches == <<fresh, registry, listed>>

Phases == {"absent", "unnamed", "named"}  \* named: with a provider ID
\* other is what the kubelet and others write, version the resource version.
Objects == [phase : Phases, meta : Metadata, other : Nat, version : Nat]
Object(phase, meta, other, version) ==
    [phase |-> phase, meta |-> meta, other |-> other, version |-> version]
Requests == [node : Names, object : Objects, age : {"newest", "outdated"}]
Missing == [a \in Attributes |-> None]
There(n) == api[n].phase # "absent"
Range(s) == {s[i] : i \in DOMAIN s}

Idle == [pc |-> "idle"]
Listing == [pc |-> "list"]
Job(pc, request, want, got, tries) ==
    [pc |-> pc, request |-> request, want |-> want, got |-> got, tries |-> tries]
Busy == [pc : {"lookup", "get", "update"}, request : Requests, want : Metadata,
         got : Objects, tries : 0 .. Steps - 1]

\* The informer is never ahead of the API server, and the worker has a node to update.
TypeOK ==
    /\ linode \in [Names -> LinodeData]
    /\ known \in [Names -> LinodeData]
    /\ api \in [Names -> Objects]
    /\ informer \in [Names -> Objects]
    /\ \A n \in Names : informer[n].version <= api[n].version
    /\ queue \in Seq(Requests)
    /\ waiting \subseteq Requests
    /\ fresh \subseteq Names
    /\ registry \subseteq Names
    /\ listed \in {"young", "old"}
    /\ task \in Busy \cup {Idle, Listing}
    /\ task.pc = "update" => task.got.phase # "absent"
    /\ seen \in [Names -> Nat]
    /\ disruptions \in 0 .. MaxDisruptions

-----------------------------------------------------------------------------
Disrupt == disruptions < MaxDisruptions /\ disruptions' = disruptions + 1

\* The informer.

Outdated(r, n) == IF r.node = n THEN [node |-> n, object |-> r.object, age |-> "outdated"] ELSE r

\* addNodeToQueue: nodeLastAdded makes the earlier requests of the node outdated.
addNodeToQueue(n, object) ==
    /\ queue' = Append([i \in DOMAIN queue |-> Outdated(queue[i], n)],
                       [node |-> n, object |-> object, age |-> "newest"])
    /\ waiting' = {Outdated(r, n) : r \in waiting}
    /\ task' = IF task \in {Idle, Listing} THEN task
               ELSE Job(task.pc, Outdated(task.request, n), task.want, task.got, task.tries)

\* AddFunc and UpdateFunc; there is no DeleteFunc.
Observe(n) ==
    /\ informer[n] # api[n]
    /\ informer' = [informer EXCEPT ![n] = api[n]]
    /\ IF There(n) THEN addNodeToQueue(n, api[n]) ELSE UNCHANGED <<queue, waiting, task>>
    /\ UNCHANGED <<cloud, api, caches, seen, disruptions>>

\* UpdateFunc again, every informerResyncPeriod.  That is longer than a request
\* waits in the queue.
Resync(n) ==
    /\ informer[n].phase # "absent"
    /\ \A r \in Range(queue) : r.node = n => r.age = "outdated"
    /\ addNodeToQueue(n, informer[n])
    /\ UNCHANGED <<cloud, api, informer, caches, seen, disruptions>>

-----------------------------------------------------------------------------
\* The worker: processNext and handleNode.

At(pc) == task.pc = pc
HandleNode(r) == Job("lookup", r, Missing, r.object, 0)
Return == task' = Listing
Found(object) == \A a \in Attributes : object.meta[a] # None

\* Mutants of ProcessNext: no request is skipped; or the age of the metadata is
\* not looked at.
ProcessNextAny ==
    LET r == Head(queue) IN
    /\ task = Idle
    /\ queue # <<>>
    /\ queue' = Tail(queue)
    /\ task' = IF Found(r.object) /\ r.node \in fresh THEN Listing ELSE HandleNode(r)
    /\ seen' = [seen EXCEPT ![r.node] = r.object.version]
    /\ UNCHANGED <<cloud, api, informer, waiting, caches, disruptions>>

ProcessNextOnce ==
    LET r == Head(queue) IN
    /\ task = Idle
    /\ queue # <<>>
    /\ queue' = Tail(queue)
    /\ IF r.age = "newest"
       THEN /\ task' = IF Found(r.object) THEN Listing ELSE HandleNode(r)
            /\ seen' = [seen EXCEPT ![r.node] = r.object.version]
       ELSE UNCHANGED <<task, seen>>
    /\ UNCHANGED <<cloud, api, informer, waiting, caches, disruptions>>

\* An outdated request is skipped; the metadata of a node that has all of it is
\* left alone until the TTL is over.
ProcessNext ==
    LET r == Head(queue) IN
    /\ task = Idle
    /\ queue # <<>>
    /\ queue' = Tail(queue)
    /\ IF r.age = "newest"
       THEN /\ task' = IF Found(r.object) /\ r.node \in fresh THEN Listing ELSE HandleNode(r)
            /\ seen' = [seen EXCEPT ![r.node] = r.object.version]
       ELSE UNCHANGED <<task, seen>>
    /\ UNCHANGED <<cloud, api, informer, waiting, caches, disruptions>>

\* handleNode is done with a node that matches.
LookupLinode ==
    LET r == task.request IN
    /\ At("lookup")
    /\ IF r.object.phase = "named" /\ r.object.meta = known[r.node]
       THEN Return /\ fresh' = fresh \cup {r.node}
       ELSE /\ task' = Job("get", r, known[r.node], r.object, 0)
            /\ UNCHANGED fresh
    /\ UNCHANGED <<cloud, api, informer, queue, waiting, registry, listed, seen, disruptions>>

\* After a server error or too many requests the request is tried again later,
\* after another error it is not.
LookupFails ==
    /\ At("lookup")
    /\ Disrupt
    /\ waiting' \in {waiting, waiting \cup {task.request}}
    /\ Return
    /\ UNCHANGED <<cloud, api, informer, queue, caches, seen>>

\* The node is read again, by its name.
GetNode ==
    LET n == task.request.node IN
    /\ At("get")
    /\ IF There(n) THEN task' = Job("update", task.request, task.want, api[n], task.tries)
       ELSE Return
    /\ UNCHANGED <<cloud, api, informer, queue, waiting, caches, seen, disruptions>>

\* A provider ID stays what it is; an address the Linode does not have leaves the
\* annotation alone.
Updated(object, want) ==
    LET meta == [a \in Attributes |-> IF want[a] # None THEN want[a] ELSE object.meta[a]]
    IN  IF object.phase = "named" /\ object.meta = meta THEN object
        ELSE Object("named", meta, object.other, object.version + 1)

Written(n) ==
    /\ api' = [api EXCEPT ![n] = Updated(task.got, task.want)]
    /\ registry' = registry \cup {n}
    /\ fresh' = fresh \cup {n}
    /\ Return

\* Mutant of UpdateNode: the resource version is not compared.
UpdateNodeForced ==
    /\ At("update")
    /\ Written(task.request.node)
    /\ UNCHANGED <<cloud, informer, queue, waiting, listed, seen, disruptions>>

\* The API server refuses a copy that is not the latest; RetryOnConflict reads the
\* node again.  Other errors, and the last conflict, end handleNode.
UpdateNode ==
    LET n == task.request.node IN
    /\ At("update")
    /\ IF task.got = api[n] THEN Written(n)
       ELSE /\ IF There(n) /\ task.tries + 1 < Steps
               THEN task' = Job("get", task.request, task.want, task.request.object,
                                task.tries + 1)
               ELSE Return
            /\ UNCHANGED <<api, registry, fresh>>
    /\ UNCHANGED <<cloud, informer, queue, waiting, listed, seen, disruptions>>

\* Kubernetes' errors are not the Linode API's: the request is not tried again.
CallFails ==
    /\ At("get") \/ At("update")
    /\ Disrupt
    /\ Return
    /\ UNCHANGED <<cloud, api, informer, queue, waiting, caches, seen>>

\* Mutant of UpdateCache: the nodes are added to those of the cache.
UpdateCacheMerges ==
    /\ At("list")
    /\ task' = Idle
    /\ IF listed = "young" THEN UNCHANGED <<registry, listed>>
       ELSE registry' = registry \cup {n \in Names : api[n].phase = "named"} /\ listed' = "young"
    /\ UNCHANGED <<cloud, api, informer, queue, waiting, fresh, seen, disruptions>>

\* k8sNodeCache.updateCache, at the end of processNext.
UpdateCache ==
    /\ At("list")
    /\ task' = Idle
    /\ IF listed = "young" THEN UNCHANGED <<registry, listed>>
       ELSE registry' = {n \in Names : api[n].phase = "named"} /\ listed' = "young"
    /\ UNCHANGED <<cloud, api, informer, queue, waiting, fresh, seen, disruptions>>

UpdateCacheFails ==
    /\ At("list")
    /\ listed = "old"
    /\ Disrupt
    /\ task' = Idle
    /\ UNCHANGED <<cloud, api, informer, queue, waiting, caches, seen>>

Worker == ProcessNext \/ LookupLinode \/ GetNode \/ UpdateNode \/ UpdateCache

-----------------------------------------------------------------------------
\* Time, the cluster and the Linode API.

RetryLater ==
    /\ \E r \in waiting : waiting' = waiting \ {r} /\ queue' = Append(queue, r)
    /\ UNCHANGED <<cloud, api, informer, caches, task, seen, disruptions>>

Expire(n) ==
    /\ n \in fresh
    /\ fresh' = fresh \ {n}
    /\ UNCHANGED <<cloud, api, informer, queue, waiting, registry, listed, task, seen, disruptions>>

ExpireCache ==
    /\ listed = "young"
    /\ listed' = "old"
    /\ UNCHANGED <<cloud, api, informer, queue, waiting, fresh, registry, task, seen, disruptions>>

\* A Linode moves to another host, or an address of it changes or is removed.
ChangeLinode(n) ==
    /\ Disrupt
    /\ \E a \in Attributes, v \in Values \cup {None} :
         /\ v # linode[n][a]
         /\ a = "host" => v # None
         /\ linode' = [linode EXCEPT ![n][a] = v]
    /\ UNCHANGED <<known, api, informer, queue, waiting, caches, task, seen>>

RefreshInstances(n) ==
    /\ known[n] # linode[n]
    /\ known' = [known EXCEPT ![n] = linode[n]]
    /\ UNCHANGED <<linode, api, informer, queue, waiting, caches, task, seen, disruptions>>

\* The kubelet's status, the provider ID from Kubernetes' cloud node controller, a
\* deletion, and the registration of a node under the same name.
WriteNode(n) ==
    /\ Disrupt
    /\ LET o == api[n]
           Write(phase, meta, other) ==
             api' = [api EXCEPT ![n] = Object(phase, meta, other, o.version + 1)]
       IN  \/ There(n) /\ Write(o.phase, o.meta, o.other + 1)
           \/ o.phase = "unnamed" /\ Write("named", o.meta, o.other)
           \/ There(n) /\ Write("absent", Missing, o.other)
           \/ ~There(n) /\ Write("unnamed", Missing, o.other)
    /\ UNCHANGED <<cloud, informer, queue, waiting, caches, task, seen>>

\* The controller starts with nodes that are new and nodes it has handled before.
Init ==
    /\ linode \in [Names -> LinodeData]
    /\ known = linode
    /\ \E old \in SUBSET Names :
         api = [n \in Names |-> IF n \in old THEN Object("named", linode[n], 0, 1)
                                ELSE Object("unnamed", Missing, 0, 1)]
    /\ informer = [n \in Names |-> Object("absent", Missing, 0, 0)]
    /\ queue = <<>>
    /\ waiting = {}
    /\ fresh = {}
    /\ registry = {}
    /\ listed = "old"
    /\ task = Idle
    /\ seen = [n \in Names |-> 0]
    /\ disruptions = 0

Next ==
    \/ \E n \in Names : Observe(n) \/ Resync(n) \/ Expire(n) \/ RefreshInstances(n)
    \/ Worker \/ LookupFails \/ CallFails \/ UpdateCacheFails
    \/ RetryLater \/ ExpireCache
    \/ \E n \in Changing : ChangeLinode(n) \/ WriteNode(n)

Spec == Init /\ [][Next]_vars

\* Events arrive, the resync period and the TTLs pass, the worker goes on.
Fairness ==
    /\ \A n \in Names : WF_vars(Observe(n)) /\ WF_vars(Resync(n))
    /\ \A n \in Names : WF_vars(Expire(n)) /\ WF_vars(RefreshInstances(n))
    /\ WF_vars(Worker) /\ WF_vars(ExpireCache) /\ WF_vars(RetryLater)
FairSpec == Spec /\ Fairness

-----------------------------------------------------------------------------
\* Properties.

\* No request is handled with an older copy of a node than one handled before: a
\* request that waited for its retry does not come after a newer one.
NeverOlder == [][\A n \in Names : seen'[n] >= seen[n]]_vars

\* What others write to a node is never undone, whenever they do it.
NothingLost == [][\A n \in Names : api'[n].other >= api[n].other]_vars

\* In the end every node has a provider ID and the metadata of its Linode,
\* although requests are skipped, dropped and answered from a stale cache.
Accurate ==
    <>[](\A n \in Names : There(n) =>
           /\ api[n].phase = "named"
           /\ \A a \in Attributes : linode[n][a] # None => api[n].meta[a] = linode[n][a])

\* The cache of registered nodes comes to hold exactly the nodes there are, as long
\* as some node is left whose requests keep it up to date.
Registered == <>[](registry = {n \in Names : There(n)} \/ \A n \in Names : ~There(n))
=============================================================================
