---------------------------- MODULE LoadBalancers ----------------------------
(***************************************************************************)
(* Which NodeBalancer belongs to a Service: EnsureLoadBalancer,            *)
(* UpdateLoadBalancer and EnsureLoadBalancerDeleted of loadbalancers.go,   *)
(* called by the service controller of the Kubernetes cloud provider (its  *)
(* worker and its node synchronisation) and by the CCM's own controller    *)
(* for deleted Services, service_controller.go.                            *)
(*                                                                         *)
(* The status of a Service holds the address of its NodeBalancer; an       *)
(* address is never given to a second NodeBalancer, so the status is the   *)
(* NodeBalancer.  Firewalls and NodeBalancerConfigs model what is left out *)
(* of updateNodeBalancer and of the deletion here.                         *)
(***************************************************************************)
EXTENDS Integers, FiniteSets

CONSTANTS
    Names,        \* namespace and name of Services
    UserNBs,      \* NodeBalancers made by the user
    OwnNBs,       \* bound: NodeBalancers the CCM creates
    None,
    Anns,         \* the annotations each Service may have
    Reuse,        \* a name is used again, or the type is changed back
    NodeSync,     \* nodes come and go
    Failing,      \* calls that may fail
    MaxFailures,  \* bound: how often calls fail
    MaxEdits      \* bound: how often a user changes Services

NBs == UserNBs \cup OwnNBs

\* nodebalancer-id, preserve, and retain-reserved-ipv4 = false.
Annotations == [id : UserNBs \cup {None}, preserve : BOOLEAN, release : BOOLEAN]

Calls == {"lookup", "update", "create", "cleanup", "purge", "patch",
          "get", "delete", "address", "balancer", "finalizer"}

ASSUME NamesAssumption == Names # {}
ASSUME NBAssumption == None \notin NBs /\ UserNBs \cap OwnNBs = {}
ASSUME AnnsAssumption ==
    DOMAIN Anns = Names /\ \A n \in Names : Anns[n] \subseteq Annotations /\ Anns[n] # {}
ASSUME FlagAssumption == {Reuse, NodeSync} \subseteq BOOLEAN
ASSUME CallsAssumption == Failing \subseteq Calls
ASSUME BoundsAssumption == MaxFailures \in Nat /\ MaxEdits \in Nat

\* The service controller's worker and node synchronisation, for each name,
\* and the CCM's deletion worker.
Actors == ({"sync", "node"} \X Names) \cup {<<"ccm">>}

VARIABLES
    svc,        \* the Service objects
    balancers,  \* the NodeBalancers that exist
    reserved,   \* those with a reserved address
    created,    \* the NodeBalancers the CCM has made so far
    task,       \* what each actor is doing
    queue,      \* Services in the deletion queue, as they were when deleted
    failures, edits

vars == <<svc, balancers, reserved, created, task, queue, failures, edits>>
linode == <<balancers, reserved, created>>
bounds == <<failures, edits>>

\* A Service is wanted with type LoadBalancer, unwanted with another one.
Services == [name : Names, phase : {"absent", "wanted", "unwanted", "deleting"},
             ann : Annotations, status : NBs \cup {None}, finalizer : BOOLEAN]
Absent(n) == [name |-> n, phase |-> "absent", finalizer |-> FALSE, status |-> None,
              ann |-> [id |-> None, preserve |-> FALSE, release |-> FALSE]]
Tasks == [pc : Calls \cup {"idle"}, snap : Services,
          nb : NBs \cup {None}, old : NBs \cup {None}]
Task(pc, snap, nb) == [pc |-> pc, snap |-> snap, nb |-> nb, old |-> None]
Idle == Task("idle", Absent(CHOOSE n \in Names : TRUE), None)

\* A handler that goes on after its lookup has a NodeBalancer at hand.
TypeOK ==
    /\ svc \in [Names -> Services]
    /\ \A n \in Names : svc[n].name = n
    /\ balancers \subseteq UserNBs \cup created
    /\ reserved \subseteq created
    /\ created \subseteq OwnNBs
    /\ task \in [Actors -> Tasks]
    /\ \A a \in Actors :
         task[a].pc \in {"update", "cleanup", "purge", "patch", "address", "balancer"}
           => task[a].nb # None
    /\ queue \subseteq Services
    /\ failures \in 0 .. MaxFailures
    /\ edits \in 0 .. MaxEdits

-----------------------------------------------------------------------------
\* Looking up NodeBalancers.

\* getLatestServiceLoadBalancerStatus, by name; without a Service of that name
\* the status of the Service at hand is used.
LatestStatus(s) == IF svc[s.name].phase # "absent" THEN svc[s.name].status ELSE s.status
Found(nb) == IF nb \in balancers THEN nb ELSE None
getNodeBalancerByStatus(s) == Found(LatestStatus(s))
getNodeBalancerForService(s) ==
    IF s.ann.id # None THEN Found(s.ann.id) ELSE getNodeBalancerByStatus(s)

At(a, call) == task[a].pc = call
Goto(a, call) == task' = [task EXCEPT ![a].pc = call]
End(a) == task' = [task EXCEPT ![a] = Idle]

\* The CCM's worker tries again after a server error; the service controller
\* comes back to its Services anyway.
Error(a, retry) ==
    /\ End(a)
    /\ queue' = IF a[1] = "ccm" /\ retry THEN queue \cup {task[a].snap} ELSE queue

-----------------------------------------------------------------------------
\* The start of a handler, with the Service from the informer's cache.

BeginSync(n) ==
    /\ At(<<"sync", n>>, "idle")
    /\ svc[n].phase = "wanted" \/ svc[n].finalizer
    /\ svc' = IF svc[n].phase = "wanted"
              THEN [svc EXCEPT ![n].finalizer = TRUE] ELSE svc
    /\ task' = [task EXCEPT ![<<"sync", n>>] =
                  Task(IF svc[n].phase = "wanted" THEN "lookup" ELSE "get", svc[n], None)]
    /\ UNCHANGED <<linode, queue, bounds>>

BeginNodeSync(n) ==
    /\ NodeSync
    /\ At(<<"node", n>>, "idle")
    /\ svc[n].phase = "wanted"
    /\ task' = [task EXCEPT ![<<"node", n>>] = Task("lookup", svc[n], None)]
    /\ UNCHANGED <<svc, linode, queue, bounds>>

\* EnsureLoadBalancerDeleted of a Service without ingress has nothing to do.
BeginDeletion ==
    /\ At(<<"ccm">>, "idle")
    /\ \E s \in queue :
         /\ queue' = queue \ {s}
         /\ task' = IF s.status = None THEN task
                    ELSE [task EXCEPT ![<<"ccm">>] = Task("delete", s, None)]
    /\ UNCHANGED <<svc, linode, bounds>>

-----------------------------------------------------------------------------
\* EnsureLoadBalancer and UpdateLoadBalancer.  The latter cleans up first.

\* Mutant of Lookup: a NodeBalancer that is not found is an error.
LookupStrict(a) ==
    /\ At(a, "lookup")
    /\ LET nb == getNodeBalancerForService(task[a].snap) IN
         IF nb = None THEN End(a)
         ELSE task' = [task EXCEPT ![a].pc = IF a[1] = "sync" THEN "update" ELSE "cleanup",
                                   ![a].nb = nb]
    /\ UNCHANGED <<svc, linode, queue, bounds>>

\* A NodeBalancer that is named and not found is awaited.
Lookup(a) ==
    /\ At(a, "lookup")
    /\ LET nb == getNodeBalancerForService(task[a].snap)
           next == IF nb # None THEN IF a[1] = "sync" THEN "update" ELSE "cleanup"
                   ELSE IF a[1] = "sync" /\ task[a].snap.ann.id = None THEN "create"
                   ELSE "idle"
       IN  IF next = "idle" THEN End(a)
           ELSE task' = [task EXCEPT ![a].pc = next, ![a].nb = nb]
    /\ UNCHANGED <<svc, linode, queue, bounds>>

UpdateNodeBalancer(a) ==
    /\ At(a, "update")
    /\ IF task[a].nb \notin balancers \/ a[1] = "node" THEN End(a) ELSE Goto(a, "cleanup")
    /\ UNCHANGED <<svc, linode, queue, bounds>>

CreateNodeBalancer(a) ==
    /\ At(a, "create")
    /\ \E nb \in OwnNBs \ created :
         /\ created' = created \cup {nb}
         /\ balancers' = balancers \cup {nb}
         /\ reserved' = IF task[a].snap.ann.release THEN reserved \cup {nb} ELSE reserved
         /\ task' = [task EXCEPT ![a].pc = "cleanup", ![a].nb = nb]
    /\ UNCHANGED <<svc, queue, bounds>>

AfterCleanup(a) == IF a[1] = "sync" THEN "patch" ELSE "update"

\* Mutant of CleanupOld: the NodeBalancer of the annotation is not compared.
CleanupOldUncompared(a) ==
    /\ At(a, "cleanup")
    /\ LET s == task[a].snap
           previous == getNodeBalancerByStatus(s)
       IN  IF s.ann.preserve \/ s.ann.id = None \/ previous = None
           THEN Goto(a, AfterCleanup(a))
           ELSE task' = [task EXCEPT ![a].pc = "purge", ![a].old = previous]
    /\ UNCHANGED <<svc, linode, queue, bounds>>

\* cleanupOldNodeBalancer, up to the deletion.
CleanupOld(a) ==
    /\ At(a, "cleanup")
    /\ LET s == task[a].snap
           previous == getNodeBalancerByStatus(s)
           nb == getNodeBalancerForService(s)
       IN  IF s.ann.preserve \/ s.ann.id = None \/ previous = None \/ previous = nb
           THEN Goto(a, AfterCleanup(a))
           ELSE IF nb = None THEN End(a)
           ELSE task' = [task EXCEPT ![a].pc = "purge", ![a].old = previous]
    /\ UNCHANGED <<svc, linode, queue, bounds>>

Purge(a) ==
    /\ At(a, "purge")
    /\ balancers' = balancers \ {task[a].old}
    /\ reserved' = reserved \ {task[a].old}
    /\ IF task[a].old \in balancers THEN Goto(a, AfterCleanup(a)) ELSE End(a)
    /\ UNCHANGED <<svc, created, queue, bounds>>

\* The service controller writes the status that EnsureLoadBalancer returned.
PatchStatus(n) ==
    LET a == <<"sync", n>> IN
    /\ At(a, "patch")
    /\ svc' = [svc EXCEPT ![n].status = task[a].nb]
    /\ End(a)
    /\ UNCHANGED <<linode, queue, bounds>>

-----------------------------------------------------------------------------
\* The deletion: first GetLoadBalancer (the service controller only), then
\* EnsureLoadBalancerDeleted.

\* Mutants of GetLoadBalancer: a NodeBalancer is never looked for, or has to be
\* there.
GetLoadBalancerNever(n) ==
    LET a == <<"sync", n>> IN
    /\ At(a, "get")
    /\ Goto(a, "finalizer")
    /\ UNCHANGED <<svc, linode, queue, bounds>>

GetLoadBalancerStrict(n) ==
    LET a == <<"sync", n>> IN
    /\ At(a, "get")
    /\ IF getNodeBalancerForService(task[a].snap) = None THEN End(a)
       ELSE Goto(a, IF task[a].snap.status = None THEN "finalizer" ELSE "delete")
    /\ UNCHANGED <<svc, linode, queue, bounds>>

GetLoadBalancer(n) ==
    LET a == <<"sync", n>> IN
    /\ At(a, "get")
    /\ Goto(a, IF getNodeBalancerForService(task[a].snap) = None \/ task[a].snap.status = None
               THEN "finalizer" ELSE "delete")
    /\ UNCHANGED <<svc, linode, queue, bounds>>

AfterDeletion(a) ==
    IF a[1] = "sync" THEN Goto(a, "finalizer") ELSE End(a)

\* Mutant of FindDeleted: the preserve annotation is not looked at.
FindDeletedUnpreserved(a) ==
    /\ At(a, "delete")
    /\ LET nb == getNodeBalancerForService(task[a].snap) IN
         IF nb = None THEN AfterDeletion(a)
         ELSE task' = [task EXCEPT ![a].nb = nb, ![a].pc =
                         IF task[a].snap.ann.release THEN "address" ELSE "balancer"]
    /\ UNCHANGED <<svc, linode, queue, bounds>>

FindDeleted(a) ==
    /\ At(a, "delete")
    /\ LET nb == getNodeBalancerForService(task[a].snap) IN
         IF nb = None \/ task[a].snap.ann.preserve THEN AfterDeletion(a)
         ELSE task' = [task EXCEPT ![a].nb = nb, ![a].pc =
                         IF task[a].snap.ann.release THEN "address" ELSE "balancer"]
    /\ UNCHANGED <<svc, linode, queue, bounds>>

\* DeleteReservedIPAddress: an address that is not reserved is not found.
DeleteReservedIPAddress(a) ==
    /\ At(a, "address")
    /\ reserved' = reserved \ {task[a].nb}
    /\ IF task[a].nb \in reserved
       THEN Goto(a, "balancer") /\ UNCHANGED queue
       ELSE Error(a, FALSE)
    /\ UNCHANGED <<svc, balancers, created, bounds>>

DeleteNodeBalancer(a) ==
    /\ At(a, "balancer")
    /\ balancers' = balancers \ {task[a].nb}
    /\ IF task[a].nb \in balancers
       THEN AfterDeletion(a) /\ UNCHANGED queue
       ELSE Error(a, FALSE)
    /\ UNCHANGED <<svc, reserved, created, bounds>>

\* The service controller removes its finalizer.  A deleted Service goes away,
\* and DeleteFunc puts it into the CCM's queue; the status of one that has
\* another type now is cleared.
RemoveFinalizer(n) ==
    LET a == <<"sync", n>> IN
    /\ At(a, "finalizer")
    /\ IF svc[n].phase = "deleting"
       THEN svc' = [svc EXCEPT ![n] = Absent(n)] /\ queue' = queue \cup {svc[n]}
       ELSE /\ svc' = [svc EXCEPT ![n].finalizer = FALSE, ![n].status = None]
            /\ UNCHANGED queue
    /\ End(a)
    /\ UNCHANGED <<linode, bounds>>

\* A call fails: with an error the CCM's worker tries again after, or with
\* another one.  Without the annotation cleanupOldNodeBalancer makes no call.
CallFails(a) ==
    /\ task[a].pc \in Failing
    /\ At(a, "cleanup") => task[a].snap.ann.id # None /\ ~task[a].snap.ann.preserve
    /\ failures < MaxFailures
    /\ failures' = failures + 1
    /\ \E retry \in BOOLEAN : Error(a, retry)
    /\ UNCHANGED <<svc, linode, edits>>

-----------------------------------------------------------------------------
\* The user.

\* No two Services name the same NodeBalancer, it exists, and a Service does
\* not return to the NodeBalancer it is just leaving.
Admissible(n, ann) ==
    /\ ann \in Anns[n]
    /\ ann.id \in balancers \cup {None}
    /\ \/ svc[n].ann.id \in {None, svc[n].status, ann.id}
       \/ ann.id \notin {None, svc[n].status}
    /\ \A m \in Names \ {n} :
         ann.id = None \/ ann.id \notin {svc[m].ann.id, svc[m].status}

Create(n) ==
    /\ Reuse
    /\ svc[n].phase = "absent"
    /\ \E ann \in Anns[n] :
         /\ Admissible(n, ann)
         /\ svc' = [svc EXCEPT ![n] = [Absent(n) EXCEPT !.phase = "wanted", !.ann = ann]]
    /\ UNCHANGED queue

Annotate(n) ==
    /\ svc[n].phase = "wanted"
    /\ \E ann \in Anns[n] \ {svc[n].ann} :
         Admissible(n, ann) /\ svc' = [svc EXCEPT ![n].ann = ann]
    /\ UNCHANGED queue

\* UpdateFunc queues a Service that had the type LoadBalancer.
Retype(n) ==
    \/ /\ svc[n].phase = "wanted"
       /\ svc' = [svc EXCEPT ![n].phase = "unwanted"]
       /\ queue' = queue \cup {svc[n]}
    \/ /\ svc[n].phase = "unwanted"
       /\ Reuse
       /\ svc' = [svc EXCEPT ![n].phase = "wanted"]
       /\ UNCHANGED queue

\* A Service with a finalizer waits for its removal.
Delete(n) ==
    /\ svc[n].phase = "wanted"
    /\ IF svc[n].finalizer
       THEN svc' = [svc EXCEPT ![n].phase = "deleting"] /\ UNCHANGED queue
       ELSE svc' = [svc EXCEPT ![n] = Absent(n)] /\ queue' = queue \cup {svc[n]}

User(n) ==
    /\ edits < MaxEdits
    /\ edits' = edits + 1
    /\ Create(n) \/ Annotate(n) \/ Retype(n) \/ Delete(n)
    /\ UNCHANGED <<linode, task, failures>>

Init ==
    /\ \E ann \in [Names -> Annotations] :
         /\ \A n \in Names : ann[n] \in Anns[n]
         /\ \A m, n \in Names : m = n \/ ann[m].id = None \/ ann[m].id # ann[n].id
         /\ svc = [n \in Names |-> [Absent(n) EXCEPT !.phase = "wanted", !.ann = ann[n]]]
    /\ balancers = UserNBs
    /\ reserved = {}
    /\ created = {}
    /\ task = [a \in Actors |-> Idle]
    /\ queue = {}
    /\ failures = 0
    /\ edits = 0

Handle(a) ==
    \/ Lookup(a) \/ UpdateNodeBalancer(a) \/ CreateNodeBalancer(a)
    \/ CleanupOld(a) \/ Purge(a)
    \/ FindDeleted(a) \/ DeleteReservedIPAddress(a) \/ DeleteNodeBalancer(a)

Sync(n) ==
    \/ BeginSync(n) \/ GetLoadBalancer(n) \/ PatchStatus(n) \/ RemoveFinalizer(n)
    \/ Handle(<<"sync", n>>)

Next ==
    \/ \E n \in Names : User(n) \/ Sync(n) \/ BeginNodeSync(n) \/ Handle(<<"node", n>>)
    \/ BeginDeletion \/ Handle(<<"ccm">>)
    \/ \E a \in Actors : CallFails(a)

Spec == Init /\ [][Next]_vars

\* Calls return, and the service controller comes back to every Service.
Fairness ==
    /\ \A n \in Names : WF_vars(Sync(n)) /\ WF_vars(Handle(<<"node", n>>))
    /\ WF_vars(BeginDeletion) /\ WF_vars(Handle(<<"ccm">>))
FairSpec == Spec /\ Fairness

-----------------------------------------------------------------------------
\* Properties.

\* The NodeBalancer a Service has: the one it names, else the one in its status.
Current(n) == IF svc[n].ann.id # None THEN svc[n].ann.id ELSE svc[n].status

\* No handler, of this or of another Service, of its present or of an earlier
\* state, deletes the NodeBalancer that a Service of type LoadBalancer has.
CurrentKept ==
    [][\A n \in Names : svc[n].phase = "wanted" => Current(n) \notin balancers \ balancers']_vars

\* A Service annotated with preserve does not lose its NodeBalancer when it is
\* deleted or given another type.
PreservedKept ==
    [][\A n \in Names :
         svc[n].phase \in {"unwanted", "deleting"} /\ svc[n].ann.preserve
           => Current(n) \notin balancers \ balancers']_vars

\* Every NodeBalancer the CCM made is in the status of its Service or in the
\* hands of the handler that is to write it there, until it is deleted: none
\* is left behind that nothing refers to.
Owned(n) == {task[<<"sync", n>>].nb, svc[n].status} \cap OwnNBs \cap balancers
NoneForgotten ==
    balancers \cap OwnNBs \subseteq UNION {Owned(n) : n \in Names}

\* A Service of type LoadBalancer gets a NodeBalancer that exists, its own.
Ensured ==
    \A n \in Names :
      <>[](svc[n].phase = "wanted" => svc[n].status = Current(n) /\ Current(n) \in balancers)

\* The deletion of a Service comes to its end: no failure along it makes the
\* next attempt fail as well.
Deleted ==
    \A n \in Names : svc[n].phase = "deleting" ~> svc[n].phase # "deleting"
=============================================================================
