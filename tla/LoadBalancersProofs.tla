------------------------- MODULE LoadBalancersProofs -------------------------
(***************************************************************************)
(* What LoadBalancers promises, proved for every set of Services, of       *)
(* NodeBalancers and of annotations: the types; that no handler deletes    *)
(* the NodeBalancer a Service has (CurrentKept, PreservedKept, from        *)
(* Invariant); that no NodeBalancer is forgotten (NoneForgotten, from      *)
(* Memory).                                                                *)
(***************************************************************************)
EXTENDS LoadBalancers, TLAPS

\* Leaves are first-order, but those that cite SMT.
USE Zenon

\* The calls for which a handler has a NodeBalancer at hand.
Holding == {"update", "cleanup", "purge", "patch", "address", "balancer"}

\* The calls an actor makes: a node synchronisation deletes no Service's NodeBalancer,
\* and the CCM's worker does nothing else.
CallsOf(a) ==
    IF a[1] = "sync" THEN Calls
    ELSE IF a[1] = "node" THEN {"lookup", "update", "cleanup", "purge"}
    ELSE {"delete", "address", "balancer"}

\* The forms of actors.
LEMMA Forms ==
  /\ \A n \in Names : <<"sync", n>> \in Actors /\ <<"node", n>> \in Actors
  /\ <<"ccm">> \in Actors
  /\ \A a \in Actors : \/ a[1] = "ccm" /\ a = <<"ccm">>
                       \/ a[1] = "sync" /\ a[2] \in Names /\ a = <<"sync", a[2]>>
                       \/ a[1] = "node" /\ a[2] \in Names /\ a = <<"node", a[2]>>
BY SMT DEF Actors

\* What an idle actor has.
LEMMA IdleTyped ==
  Idle \in Tasks /\ Idle.pc = "idle" /\ Idle.nb = None /\ Idle.old = None
BY NamesAssumption DEF Idle, Task, Absent, Tasks, Services, Annotations

\* One actor's task changes.
LEMMA TaskTyped ==
  ASSUME TypeOK, NEW a \in Actors, NEW t \in Tasks, t.pc \in Holding => t.nb # None,
         task' = [task EXCEPT ![a] = t]
  PROVE  /\ task' \in [Actors -> Tasks]
         /\ \A b \in Actors : task'[b].pc \in Holding => task'[b].nb # None
         /\ task'[a] = t /\ \A b \in Actors \ {a} : task'[b] = task[b]
BY DEF TypeOK, Holding

\* One Service changes.
LEMMA ServiceTyped ==
  ASSUME TypeOK, NEW n \in Names, NEW s \in Services, s.name = n, svc' = [svc EXCEPT ![n] = s]
  PROVE  /\ svc' \in [Names -> Services] /\ \A m \in Names : svc'[m].name = m
         /\ svc'[n] = s /\ \A m \in Names \ {n} : svc'[m] = svc[m]
BY SMTT(30) DEF TypeOK

\* An actor goes on to a call.
LEMMA GotoTyped ==
  ASSUME TypeOK, NEW a \in Actors, NEW call \in Calls, Goto(a, call), call \in Holding => task[a].nb # None
  PROVE  /\ task' \in [Actors -> Tasks]
         /\ \A b \in Actors : task'[b].pc \in Holding => task'[b].nb # None
         /\ task'[a] = [task[a] EXCEPT !.pc = call] /\ \A b \in Actors \ {a} : task'[b] = task[b]
BY SMT DEF TypeOK, Holding, Goto, Tasks

\* An actor comes to its end.
LEMMA EndTyped ==
  ASSUME TypeOK, NEW a \in Actors, End(a)
  PROVE  /\ task' \in [Actors -> Tasks]
         /\ \A b \in Actors : task'[b].pc \in Holding => task'[b].nb # None
         /\ task'[a] = Idle /\ \A b \in Actors \ {a} : task'[b] = task[b]
BY IdleTyped DEF TypeOK, Holding, End

\* What is looked up.
LEMMA FoundTyped ==
  ASSUME TypeOK, NEW s \in Services
  PROVE  /\ LatestStatus(s) \in NBs \cup {None}
         /\ getNodeBalancerByStatus(s) \in balancers \cup {None}
         /\ getNodeBalancerForService(s) \in balancers \cup {None}
         /\ balancers \subseteq NBs
BY DEF TypeOK, LatestStatus, getNodeBalancerByStatus, getNodeBalancerForService, Found, Services, NBs

\* The calls of a deletion.
Closing == {"get", "delete", "address", "balancer", "finalizer"}

\* A handler is about to remove the finalizer: no NodeBalancer is to be deleted, or
\* it just was.
Finishing(a) ==
    LET s == task[a].snap IN
    \/ getNodeBalancerForService(s) = None
    \/ s.ann.preserve \/ s.status = None
    \/ task[a].pc = "balancer" /\ task[a].nb \notin balancers'

\* What a handler has after one of its steps, if it goes on.
Goes(a) ==
    LET s == task[a].snap IN
    /\ task[a].pc # "idle" /\ task'[a].pc # "idle"
    /\ task'[a].snap = s
    /\ task'[a].nb \in {None, task[a].nb, getNodeBalancerForService(s)}
    /\ task'[a].pc = "purge" =>
         /\ task'[a].old = getNodeBalancerByStatus(s) /\ task'[a].old # None
         /\ s.ann.id # None /\ task'[a].old # s.ann.id
    /\ task'[a].pc # "purge" => task'[a].old = task[a].old
    /\ task'[a].pc \in {"address", "balancer"} =>
         ~s.ann.preserve \/ task[a].pc \in {"address", "balancer"}
    /\ task'[a].pc \in Closing => task[a].pc \in Closing
    /\ task'[a].pc \in CallsOf(a)
    /\ task'[a].pc = "create" => getNodeBalancerForService(s) = None
    /\ task'[a].pc = "finalizer" => Finishing(a)

\* The steps of handlers that change no Service and make no NodeBalancer.
Working(a) ==
    \/ Lookup(a) \/ UpdateNodeBalancer(a) \/ CleanupOld(a) \/ Purge(a)
    \/ FindDeleted(a) \/ DeleteReservedIPAddress(a) \/ DeleteNodeBalancer(a) \/ CallFails(a)
    \/ \E n \in Names : a = <<"sync", n>> /\ GetLoadBalancer(n)

\* They go on or come to an end.
LEMMA WorkingSteps ==
  ASSUME TypeOK, NEW a \in Actors, Working(a),
         task[a].pc # "idle" => task[a].pc \in CallsOf(a)
  PROVE  /\ UNCHANGED <<svc, created, edits>>
         /\ balancers' \subseteq balancers /\ reserved' \subseteq reserved
         /\ failures' \in 0 .. MaxFailures
         /\ \/ queue' = queue
            \/ a[1] = "ccm" /\ task[a].pc # "idle" /\ queue' = queue \cup {task[a].snap}
         /\ task' \in [Actors -> Tasks]
         /\ \A b \in Actors : task'[b].pc \in Holding => task'[b].nb # None
         /\ \A b \in Actors \ {a} : task'[b] = task[b]
         /\ task'[a] = Idle \/ Goes(a)
<1> DEFINE s == task[a].snap
<1>0. task[a] \in Tasks /\ s \in Services /\ (task[a].pc \in Holding => task[a].nb # None)
  BY DEF TypeOK, Tasks, Holding
<1> DEFINE Res == /\ task' \in [Actors -> Tasks]
                  /\ \A b \in Actors : task'[b].pc \in Holding => task'[b].nb # None
                  /\ \A b \in Actors \ {a} : task'[b] = task[b]
                  /\ task'[a] = Idle \/ Goes(a)
<1>1. End(a) => Res
  BY EndTyped
<1>2. ASSUME NEW call \in Calls, Goto(a, call), call \in Holding => task[a].nb # None,
             task[a].pc # "idle", call # "purge",
             call \in {"address", "balancer"} => task[a].pc \in {"address", "balancer"},
             call \in Closing => task[a].pc \in Closing,
             call \in CallsOf(a), call # "create", call = "finalizer" => Finishing(a)
      PROVE  Res
  <2>1. task'[a] = [task[a] EXCEPT !.pc = call]
    BY <1>2, GotoTyped
  <2>2. /\ task'[a].pc = call /\ task'[a].snap = s /\ task'[a].nb = task[a].nb
        /\ task'[a].old = task[a].old
    BY <1>0, <2>1 DEF Tasks
  <2>3. call # "idle"
    BY DEF Calls
  <2>4. Goes(a)
    BY <1>2, <2>2, <2>3 DEF Goes
  <2> QED BY <1>2, <2>4, GotoTyped
<1>3. CASE Lookup(a)
  <2> DEFINE nb == getNodeBalancerForService(s)
  <2>1. nb \in balancers \cup {None} /\ balancers \subseteq NBs
    BY <1>0, FoundTyped
  <2>2. CASE End(a)
    BY <1>1, <1>3, <2>2 DEF Lookup, linode, bounds, TypeOK
  <2>3. CASE ~End(a)
    <3>1. PICK next \in {"update", "cleanup", "create"} :
            /\ next # "create" <=> nb # None
            /\ next \in CallsOf(a)
            /\ task' = [task EXCEPT ![a].pc = next, ![a].nb = nb]
      BY <1>3, <2>3 DEF Lookup, CallsOf, Calls, At
    <3> DEFINE t == [task[a] EXCEPT !.pc = next, !.nb = nb]
    <3>2. task' = [task EXCEPT ![a] = t]
      BY <3>1
    <3>3. t \in Tasks /\ (t.pc \in Holding => t.nb # None)
      BY <1>0, <2>1, <3>1 DEF Tasks, Calls, Holding
    <3>4. t.pc = next /\ t.snap = s /\ t.nb = nb /\ t.old = task[a].old
      BY <1>0 DEF Tasks
    <3>5. Res
      <4>1. task'[a] = t
        BY <3>2, <3>3, TaskTyped
      <4>2. Goes(a)
        BY <1>3, <3>1, <3>4, <4>1 DEF Goes, Lookup, At, Closing
      <4> QED BY <3>2, <3>3, <4>2, TaskTyped
    <3> QED BY <1>3, <3>5 DEF Lookup, linode, bounds, TypeOK
  <2> QED BY <2>2, <2>3
<1>4. CASE UpdateNodeBalancer(a)
  <2>1. Res
    BY <1>0, <1>1, <1>2, <1>4 DEF UpdateNodeBalancer, At, Calls, CallsOf, Holding, Closing
  <2> QED BY <1>4, <2>1 DEF UpdateNodeBalancer, linode, bounds, TypeOK
<1>5. /\ AfterCleanup(a) \in {"patch", "update"}
      /\ task[a].pc \in {"cleanup", "purge"} => AfterCleanup(a) \in CallsOf(a)
  BY DEF AfterCleanup, CallsOf, Calls
<1>6. CASE CleanupOld(a)
  <2> DEFINE previous == getNodeBalancerByStatus(s)
             nb == getNodeBalancerForService(s)
  <2>1. previous \in balancers \cup {None} /\ nb \in balancers \cup {None} /\ balancers \subseteq NBs
    BY <1>0, FoundTyped
  <2>2. CASE End(a) \/ Goto(a, AfterCleanup(a))
    <3>1. Res
      BY <1>0, <1>1, <1>2, <1>5, <1>6, <2>2 DEF CleanupOld, At, Calls, Holding, Closing
    <3> QED BY <1>6, <3>1 DEF CleanupOld, linode, bounds, TypeOK
  <2>3. CASE ~(End(a) \/ Goto(a, AfterCleanup(a)))
    <3>1. /\ task' = [task EXCEPT ![a].pc = "purge", ![a].old = previous]
          /\ s.ann.id # None /\ previous # None /\ previous # nb /\ nb # None
      BY <1>6, <2>3 DEF CleanupOld
    <3> DEFINE t == [task[a] EXCEPT !.pc = "purge", !.old = previous]
    <3>2. task' = [task EXCEPT ![a] = t]
      BY <3>1
    <3>3. t \in Tasks /\ t.nb # None
      BY <1>0, <1>6, <2>1 DEF Tasks, Calls, Holding, CleanupOld, At
    <3>4. t.pc = "purge" /\ t.snap = s /\ t.nb = task[a].nb /\ t.old = previous
      BY <1>0 DEF Tasks
    <3>5. nb = s.ann.id
      BY <3>1 DEF getNodeBalancerForService, Found
    <3>6. Res
      <4>1. task'[a] = t
        BY <3>2, <3>3, TaskTyped
      <4>2. "purge" \in CallsOf(a)
        BY <1>6 DEF CleanupOld, At, CallsOf, Calls
      <4>3. Goes(a)
        BY <1>6, <3>1, <3>4, <3>5, <4>1, <4>2 DEF Goes, CleanupOld, At, Closing
      <4> QED BY <3>2, <3>3, <4>3, TaskTyped
    <3> QED BY <1>6, <3>6 DEF CleanupOld, linode, bounds, TypeOK
  <2> QED BY <2>2, <2>3
<1>7. CASE Purge(a)
  <2>1. Res
    BY <1>0, <1>1, <1>2, <1>5, <1>7 DEF Purge, At, Calls, Holding, Closing
  <2> QED BY <1>7, <2>1 DEF Purge, bounds, TypeOK
<1>8. AfterDeletion(a) /\ task[a].pc \in Closing /\ Finishing(a) => Res
  BY <1>1, <1>2 DEF AfterDeletion, Calls, CallsOf, Holding, Closing
<1>9. CASE FindDeleted(a)
  <2> DEFINE nb == getNodeBalancerForService(s)
  <2>1. nb \in balancers \cup {None} /\ balancers \subseteq NBs
    BY <1>0, FoundTyped
  <2>2. CASE nb = None \/ s.ann.preserve
    <3>1. AfterDeletion(a) /\ task[a].pc \in Closing /\ Finishing(a)
      BY <1>9, <2>2 DEF FindDeleted, At, Closing, Finishing
    <3> QED BY <1>8, <1>9, <3>1 DEF FindDeleted, linode, bounds, TypeOK
  <2>3. CASE ~(nb = None \/ s.ann.preserve)
    <3>1. PICK next \in {"address", "balancer"} :
            /\ task' = [task EXCEPT ![a].nb = nb, ![a].pc = next] /\ nb # None /\ ~s.ann.preserve
            /\ next \in CallsOf(a)
      BY <1>9, <2>3 DEF FindDeleted, At, CallsOf, Calls
    <3> DEFINE t == [task[a] EXCEPT !.nb = nb, !.pc = next]
    <3>2. task' = [task EXCEPT ![a] = t]
      BY <3>1
    <3>3. t \in Tasks /\ t.nb # None
      BY <1>0, <2>1, <3>1 DEF Tasks, Calls
    <3>4. t.pc = next /\ t.snap = s /\ t.nb = nb /\ t.old = task[a].old
      BY <1>0 DEF Tasks
    <3>5. Res
      <4>1. task'[a] = t
        BY <3>2, <3>3, TaskTyped
      <4>2. Goes(a)
        BY <1>9, <3>1, <3>4, <4>1 DEF Goes, FindDeleted, At, Closing
      <4> QED BY <3>2, <3>3, <4>2, TaskTyped
    <3> QED BY <1>9, <3>5 DEF FindDeleted, linode, bounds, TypeOK
  <2> QED BY <2>2, <2>3
<1>10. CASE DeleteReservedIPAddress(a)
  <2>1. queue' = queue /\ (Goto(a, "balancer") \/ End(a))
    BY <1>10 DEF DeleteReservedIPAddress, Error
  <2>2. Res
    BY <1>0, <1>1, <1>2, <1>10, <2>1 DEF DeleteReservedIPAddress, At, Calls, CallsOf, Holding, Closing
  <2> QED BY <1>10, <2>1, <2>2 DEF DeleteReservedIPAddress, bounds, TypeOK
<1>11. CASE DeleteNodeBalancer(a)
  <2>1. queue' = queue /\ (AfterDeletion(a) \/ End(a))
    BY <1>11 DEF DeleteNodeBalancer, Error
  <2>2. Res
    BY <1>1, <1>8, <1>11, <2>1 DEF DeleteNodeBalancer, At, Closing, Finishing
  <2> QED BY <1>11, <2>1, <2>2 DEF DeleteNodeBalancer, bounds, TypeOK
<1>12. CASE CallFails(a)
  <2>1. Res
    BY <1>1, <1>12 DEF CallFails, Error
  <2>2. task[a].pc # "idle"
    BY <1>12, CallsAssumption DEF CallFails, Calls
  <2>3. \/ queue' = queue
        \/ a[1] = "ccm" /\ queue' = queue \cup {task[a].snap}
    BY <1>12 DEF CallFails, Error
  <2>4. failures' \in 0 .. MaxFailures
    BY <1>12, BoundsAssumption, SMT DEF CallFails, TypeOK
  <2> QED BY <1>12, <2>1, <2>2, <2>3, <2>4 DEF CallFails, linode
<1>13. CASE \E n \in Names : a = <<"sync", n>> /\ GetLoadBalancer(n)
  <2>1. PICK n \in Names : a = <<"sync", n>> /\ GetLoadBalancer(n)
    BY <1>13
  <2>2. \E call \in {"finalizer", "delete"} :
          At(a, "get") /\ Goto(a, call) /\ (call = "finalizer" => Finishing(a))
    BY <2>1 DEF GetLoadBalancer, Finishing
  <2>3. Res
    BY <1>2, <2>1, <2>2 DEF At, Calls, CallsOf, Holding, Closing
  <2> QED BY <2>1, <2>3 DEF GetLoadBalancer, linode, bounds, TypeOK
<1> QED BY <1>3, <1>4, <1>6, <1>7, <1>9, <1>10, <1>11, <1>12, <1>13 DEF Working

-----------------------------------------------------------------------------
\* The types.

\* A handler makes the calls of its actor, for the Service it is called for.
Roles ==
    \A a \in Actors : task[a].pc # "idle" =>
      task[a].pc \in CallsOf(a) /\ (a[1] # "ccm" => task[a].snap.name = a[2])

Types == TypeOK /\ Roles

\* The handlers that change no Service.
LEMMA WorkingTypes ==
  ASSUME Types, NEW a \in Actors, Working(a)
  PROVE  Types'
<1>0. TypeOK /\ Roles
  BY DEF Types
<1>1. task[a].pc # "idle" => task[a].pc \in CallsOf(a)
  BY <1>0 DEF Roles
<1>2. TypeOK'
  BY <1>0, <1>1, WorkingSteps, IdleTyped, SMT DEF TypeOK, Tasks, Holding
<1>3. Roles'
  BY <1>0, <1>1, WorkingSteps, IdleTyped, SMT DEF Roles, Goes
<1> QED BY <1>2, <1>3 DEF Types

\* The service controller's worker begins.
LEMMA BeginSyncTypes ==
  ASSUME Types, NEW n \in Names, BeginSync(n)
  PROVE  LET a == <<"sync", n>> IN
         /\ Types' /\ UNCHANGED <<linode, queue>>
         /\ task[a].pc = "idle" /\ task'[a].snap = svc[n]
         /\ task'[a].nb = None /\ task'[a].old = None
         /\ task'[a].pc = IF svc[n].phase = "wanted" THEN "lookup" ELSE "get"
         /\ \A b \in Actors \ {a} : task'[b] = task[b]
         /\ \A m \in Names : /\ svc'[m].phase = svc[m].phase /\ svc'[m].ann = svc[m].ann
                             /\ svc'[m].status = svc[m].status
         /\ \A m \in Names \ {n} : svc'[m] = svc[m]
         /\ svc'[n].finalizer /\ (svc[n].phase = "wanted" \/ svc[n].finalizer)
<1> DEFINE a == <<"sync", n>>
           t == Task(IF svc[n].phase = "wanted" THEN "lookup" ELSE "get", svc[n], None)
           s == [svc[n] EXCEPT !.finalizer = TRUE]
<1>0. TypeOK /\ Roles
  BY DEF Types
<1>1. /\ a \in Actors /\ a[1] = "sync" /\ a[2] = n /\ svc[n] \in Services
  BY <1>0, Forms DEF TypeOK
<1>2. /\ t \in Tasks /\ t.pc = (IF svc[n].phase = "wanted" THEN "lookup" ELSE "get") /\ t.snap = svc[n]
      /\ t.nb = None /\ t.old = None
  BY <1>1 DEF Tasks, Task, Calls
<1>3. task' = [task EXCEPT ![a] = t]
  BY DEF BeginSync
<1>4. /\ task' \in [Actors -> Tasks] /\ task'[a] = t /\ \A b \in Actors \ {a} : task'[b] = task[b]
      /\ \A b \in Actors : task'[b].pc \in Holding => task'[b].nb # None
  BY <1>0, <1>1, <1>2, <1>3, TaskTyped DEF Holding
<1>5. /\ s \in Services /\ s.name = n /\ s.phase = svc[n].phase /\ s.ann = svc[n].ann
      /\ s.status = svc[n].status /\ s.finalizer
  <2>1. svc[n].name = n
    BY <1>0 DEF TypeOK
  <2> QED BY <1>1, <2>1 DEF Services
<1>6. \/ svc' = svc /\ svc[n].finalizer
      \/ svc' = [svc EXCEPT ![n] = s]
  BY DEF BeginSync
<1>7. svc' \in [Names -> Services] /\ \A m \in Names : svc'[m].name = m
  BY <1>0, <1>5, <1>6, ServiceTyped DEF TypeOK
<1>8. /\ \A m \in Names : /\ svc'[m].phase = svc[m].phase /\ svc'[m].ann = svc[m].ann
                          /\ svc'[m].status = svc[m].status
      /\ \A m \in Names \ {n} : svc'[m] = svc[m]
      /\ svc'[n].finalizer
  <2>1. CASE svc' = svc /\ svc[n].finalizer
    BY <2>1
  <2>2. CASE svc' = [svc EXCEPT ![n] = s]
    <3>1. svc'[n] = s /\ \A m \in Names \ {n} : svc'[m] = svc[m]
      BY <1>0, <1>5, <2>2, ServiceTyped
    <3> HIDE DEF s
    <3> QED BY <1>5, <3>1
  <2> QED BY <1>6, <2>1, <2>2
<1>9. TypeOK'
  BY <1>0, <1>4, <1>7 DEF BeginSync, TypeOK, linode, bounds, Holding
<1>10. Roles'
  <2>1. svc[n].name = n
    BY <1>0 DEF TypeOK
  <2> QED BY <1>0, <1>1, <1>2, <1>4, <2>1, SMT DEF Roles, CallsOf, Calls
<1> QED BY <1>2, <1>4, <1>8, <1>9, <1>10, SMT DEF Types, BeginSync, At

\* The node synchronisation begins.
LEMMA BeginNodeTypes ==
  ASSUME Types, NEW n \in Names, BeginNodeSync(n)
  PROVE  LET a == <<"node", n>> IN
         /\ Types' /\ UNCHANGED <<svc, linode, queue>>
         /\ task[a].pc = "idle" /\ task'[a].snap = svc[n] /\ task'[a].pc = "lookup"
         /\ task'[a].nb = None /\ task'[a].old = None
         /\ \A b \in Actors \ {a} : task'[b] = task[b]
<1> DEFINE a == <<"node", n>>
           t == Task("lookup", svc[n], None)
<1>0. TypeOK /\ Roles
  BY DEF Types
<1>1. /\ a \in Actors /\ a[1] = "node" /\ a[2] = n /\ svc[n] \in Services /\ svc[n].name = n
  BY <1>0, Forms DEF TypeOK
<1>2. t \in Tasks /\ t.pc = "lookup" /\ t.snap = svc[n] /\ t.nb = None /\ t.old = None
  BY <1>1 DEF Tasks, Task, Calls
<1>3. task' = [task EXCEPT ![a] = t]
  BY DEF BeginNodeSync
<1>4. /\ task' \in [Actors -> Tasks] /\ task'[a] = t /\ \A b \in Actors \ {a} : task'[b] = task[b]
      /\ \A b \in Actors : task'[b].pc \in Holding => task'[b].nb # None
  BY <1>0, <1>1, <1>2, <1>3, TaskTyped DEF Holding
<1>5. TypeOK'
  BY <1>0, <1>4 DEF BeginNodeSync, TypeOK, linode, bounds, Holding
<1>6. Roles'
  BY <1>0, <1>1, <1>2, <1>4, SMT DEF Roles, CallsOf, Calls
<1> QED BY <1>2, <1>4, <1>5, <1>6 DEF Types, BeginNodeSync, At

\* The CCM's worker takes a Service from its queue.
LEMMA BeginDeletionTypes ==
  ASSUME Types, BeginDeletion
  PROVE  LET a == <<"ccm">> IN
         /\ Types' /\ UNCHANGED <<svc, linode>> /\ queue' \subseteq queue
         /\ \A b \in Actors \ {a} : task'[b] = task[b]
         /\ \/ task'[a] = task[a]
            \/ /\ task'[a].pc = "delete" /\ task'[a].snap \in queue
               /\ task'[a].nb = None /\ task'[a].old = None
<1> DEFINE a == <<"ccm">>
<1>0. TypeOK /\ Roles
  BY DEF Types
<1>1. PICK s \in queue : /\ queue' = queue \ {s}
                         /\ task' = IF s.status = None THEN task
                                    ELSE [task EXCEPT ![a] = Task("delete", s, None)]
  BY DEF BeginDeletion
<1> DEFINE t == Task("delete", s, None)
<1>2. /\ t \in Tasks /\ t.pc = "delete" /\ t.snap = s /\ t.nb = None /\ t.old = None
      /\ a \in Actors /\ a[1] = "ccm"
  BY <1>0, Forms DEF TypeOK, Tasks, Task, Calls
<1>3. CASE task' = task
  <2>1. TypeOK'
    BY <1>0, <1>1, <1>3 DEF BeginDeletion, TypeOK, linode, bounds
  <2>2. Roles'
    BY <1>0, <1>3 DEF Roles
  <2> QED BY <1>1, <1>3, <2>1, <2>2 DEF Types, BeginDeletion
<1>4. CASE task' = [task EXCEPT ![a] = t]
  <2>1. /\ task' \in [Actors -> Tasks] /\ task'[a] = t /\ \A b \in Actors \ {a} : task'[b] = task[b]
        /\ \A b \in Actors : task'[b].pc \in Holding => task'[b].nb # None
    BY <1>0, <1>2, <1>4, TaskTyped DEF Holding
  <2>2. TypeOK'
    BY <1>0, <1>1, <2>1 DEF BeginDeletion, TypeOK, linode, bounds, Holding
  <2>3. Roles'
    BY <1>0, <1>2, <2>1, SMT DEF Roles, CallsOf, Calls
  <2> QED BY <1>1, <1>2, <2>1, <2>2, <2>3 DEF Types, BeginDeletion
<1> QED BY <1>1, <1>3, <1>4

\* A NodeBalancer is made.
LEMMA CreateTypes ==
  ASSUME Types, NEW a \in Actors, CreateNodeBalancer(a)
  PROVE  /\ Types' /\ UNCHANGED <<svc, queue>>
         /\ a[1] = "sync" /\ task[a].pc = "create"
         /\ \A b \in Actors \ {a} : task'[b] = task[b]
         /\ \E nb \in OwnNBs \ created :
              /\ created' = created \cup {nb} /\ balancers' = balancers \cup {nb}
              /\ task'[a].pc = "cleanup" /\ task'[a].nb = nb
              /\ task'[a].snap = task[a].snap /\ task'[a].old = task[a].old
<1>0. TypeOK /\ Roles
  BY DEF Types
<1>1. PICK nb \in OwnNBs \ created :
         /\ created' = created \cup {nb}
         /\ balancers' = balancers \cup {nb}
         /\ reserved' = IF task[a].snap.ann.release THEN reserved \cup {nb} ELSE reserved
         /\ task' = [task EXCEPT ![a].pc = "cleanup", ![a].nb = nb]
  BY DEF CreateNodeBalancer
<1>2. a[1] = "sync" /\ task[a].pc = "create"
  BY <1>0, Forms DEF Roles, CallsOf, CreateNodeBalancer, At
<1> DEFINE t == [task[a] EXCEPT !.pc = "cleanup", !.nb = nb]
<1>3. task[a] \in Tasks /\ nb \in NBs /\ nb # None
  BY <1>0, NBAssumption DEF TypeOK, NBs
<1>4. /\ t \in Tasks /\ t.pc = "cleanup" /\ t.nb = nb
      /\ t.snap = task[a].snap /\ t.old = task[a].old
  BY <1>3 DEF Tasks, Calls
<1>5. task' = [task EXCEPT ![a] = t]
  BY <1>1
<1>6. /\ task' \in [Actors -> Tasks] /\ task'[a] = t /\ \A b \in Actors \ {a} : task'[b] = task[b]
      /\ \A b \in Actors : task'[b].pc \in Holding => task'[b].nb # None
  BY <1>0, <1>3, <1>4, <1>5, TaskTyped
<1>7. TypeOK'
  <2>1. reserved' \subseteq created' /\ balancers' \subseteq UserNBs \cup created' /\ created' \subseteq OwnNBs
    BY <1>0, <1>1 DEF TypeOK
  <2> QED BY <1>0, <1>6, <2>1 DEF TypeOK, CreateNodeBalancer, bounds, Holding
<1>8. Roles'
  <2>1. "cleanup" \in CallsOf(a) /\ (a[1] # "ccm" => task[a].snap.name = a[2])
    BY <1>0, <1>2 DEF Roles, CallsOf, Calls
  <2> SUFFICES ASSUME NEW b \in Actors, task'[b].pc # "idle"
               PROVE  task'[b].pc \in CallsOf(b) /\ (b[1] # "ccm" => task'[b].snap.name = b[2])
    BY DEF Roles, CallsOf
  <2>2. CASE b = a
    BY <1>4, <1>6, <2>1, <2>2
  <2>3. CASE b # a
    BY <1>0, <1>6, <2>3 DEF Roles
  <2> QED BY <2>2, <2>3
<1> QED BY <1>1, <1>2, <1>4, <1>6, <1>7, <1>8 DEF CreateNodeBalancer, Types

\* The status of a Service is written.
LEMMA PatchTypes ==
  ASSUME Types, NEW n \in Names, PatchStatus(n)
  PROVE  LET a == <<"sync", n>> IN
         /\ Types' /\ UNCHANGED <<linode, queue>>
         /\ task[a].pc = "patch" /\ task'[a] = Idle
         /\ \A b \in Actors \ {a} : task'[b] = task[b]
         /\ \A m \in Names \ {n} : svc'[m] = svc[m]
         /\ svc'[n].status = task[a].nb /\ svc'[n].phase = svc[n].phase
         /\ svc'[n].ann = svc[n].ann /\ svc'[n].finalizer = svc[n].finalizer
<1> DEFINE a == <<"sync", n>>
           s == [svc[n] EXCEPT !.status = task[a].nb]
<1>0. TypeOK /\ Roles
  BY DEF Types
<1>1. a \in Actors /\ task[a] \in Tasks /\ svc[n] \in Services /\ svc[n].name = n
  BY <1>0, Forms DEF TypeOK
<1>2. /\ s \in Services /\ s.name = n /\ s.phase = svc[n].phase /\ s.ann = svc[n].ann
      /\ s.status = task[a].nb /\ s.finalizer = svc[n].finalizer
  BY <1>1 DEF Services, Tasks
<1>3. svc' = [svc EXCEPT ![n] = s]
  BY DEF PatchStatus
<1>4. /\ svc' \in [Names -> Services] /\ \A m \in Names : svc'[m].name = m
      /\ svc'[n] = s /\ \A m \in Names \ {n} : svc'[m] = svc[m]
  BY <1>0, <1>2, <1>3, ServiceTyped
<1>5. End(a)
  BY DEF PatchStatus
<1>6. TypeOK'
  BY <1>0, <1>1, <1>4, <1>5, EndTyped DEF TypeOK, PatchStatus, linode, bounds, Holding
<1>7. Roles'
  BY <1>0, <1>1, <1>5, EndTyped, IdleTyped DEF Roles
<1>8. UNCHANGED <<linode, queue>> /\ task[a].pc = "patch"
  BY DEF PatchStatus, At
<1> QED BY <1>0, <1>1, <1>2, <1>4, <1>5, <1>6, <1>7, <1>8, EndTyped DEF Types

\* The finalizer is removed.
LEMMA FinalizerTypes ==
  ASSUME Types, NEW n \in Names, RemoveFinalizer(n)
  PROVE  LET a == <<"sync", n>> IN
         /\ Types' /\ UNCHANGED linode
         /\ task[a].pc = "finalizer" /\ task'[a] = Idle
         /\ \A b \in Actors \ {a} : task'[b] = task[b]
         /\ \A m \in Names \ {n} : svc'[m] = svc[m]
         /\ \/ svc[n].phase = "deleting" /\ svc'[n] = Absent(n) /\ queue' = queue \cup {svc[n]}
            \/ /\ svc[n].phase # "deleting" /\ queue' = queue
               /\ svc'[n].phase = svc[n].phase /\ svc'[n].ann = svc[n].ann
               /\ svc'[n].status = None /\ svc'[n].finalizer = FALSE
<1> DEFINE a == <<"sync", n>>
           s == [svc[n] EXCEPT !.finalizer = FALSE, !.status = None]
<1>0. TypeOK /\ Roles
  BY DEF Types
<1>1. a \in Actors /\ svc[n] \in Services /\ svc[n].name = n
  BY <1>0, Forms DEF TypeOK
<1>2. /\ s \in Services /\ s.name = n /\ s.phase = svc[n].phase /\ s.ann = svc[n].ann
      /\ s.status = None /\ s.finalizer = FALSE
  BY <1>1 DEF Services
<1>3. Absent(n) \in Services /\ Absent(n).name = n
  BY DEF Absent, Services, Annotations
<1>4. \/ svc[n].phase = "deleting" /\ svc' = [svc EXCEPT ![n] = Absent(n)] /\ queue' = queue \cup {svc[n]}
      \/ svc[n].phase # "deleting" /\ svc' = [svc EXCEPT ![n] = s] /\ queue' = queue
  BY DEF RemoveFinalizer
<1>5. End(a) /\ UNCHANGED <<linode, bounds>> /\ task[a].pc = "finalizer"
  BY DEF RemoveFinalizer, At
<1>6. /\ svc' \in [Names -> Services] /\ \A m \in Names : svc'[m].name = m
      /\ \A m \in Names \ {n} : svc'[m] = svc[m]
      /\ \/ svc[n].phase = "deleting" /\ svc'[n] = Absent(n) /\ queue' = queue \cup {svc[n]}
         \/ svc[n].phase # "deleting" /\ svc'[n] = s /\ queue' = queue
  BY <1>0, <1>2, <1>3, <1>4, ServiceTyped
<1>7. queue' \subseteq Services
  BY <1>0, <1>1, <1>6, SMT DEF TypeOK
<1>8. TypeOK'
  BY <1>0, <1>1, <1>5, <1>6, <1>7, EndTyped DEF TypeOK, linode, bounds, Holding
<1>9. Roles'
  BY <1>0, <1>1, <1>5, EndTyped, IdleTyped DEF Roles
<1> QED BY <1>0, <1>1, <1>2, <1>5, <1>6, <1>8, <1>9, EndTyped DEF Types

\* The user changes a Service.
LEMMA UserTypes ==
  ASSUME Types, NEW n \in Names, User(n)
  PROVE  /\ Types' /\ UNCHANGED <<linode, task>>
         /\ \A m \in Names \ {n} : svc'[m] = svc[m]
         /\ \/ /\ Reuse /\ svc[n].phase = "absent" /\ svc'[n].phase = "wanted"
               /\ svc'[n].ann \in Anns[n]
               /\ svc'[n].status = None /\ svc'[n].finalizer = FALSE /\ queue' = queue
            \/ /\ svc[n].phase = "wanted" /\ svc'[n].phase = "wanted"
               /\ Admissible(n, svc'[n].ann)
               /\ svc'[n].status = svc[n].status /\ svc'[n].finalizer = svc[n].finalizer
               /\ queue' = queue
            \/ /\ \/ svc[n].phase = "wanted" /\ svc'[n].phase = "unwanted" /\ queue' = queue \cup {svc[n]}
                  \/ Reuse /\ svc[n].phase = "unwanted" /\ svc'[n].phase = "wanted" /\ queue' = queue
                  \/ /\ svc[n].phase = "wanted" /\ svc[n].finalizer
                     /\ svc'[n].phase = "deleting" /\ queue' = queue
               /\ svc'[n].ann = svc[n].ann /\ svc'[n].status = svc[n].status
               /\ svc'[n].finalizer = svc[n].finalizer
            \/ /\ svc[n].phase = "wanted" /\ ~svc[n].finalizer
               /\ svc'[n] = Absent(n) /\ queue' = queue \cup {svc[n]}
<1>0. TypeOK /\ Roles
  BY DEF Types
<1>1. svc[n] \in Services /\ svc[n].name = n
  BY <1>0 DEF TypeOK
<1>2. Absent(n) \in Services /\ Absent(n).name = n /\ Absent(n).status = None /\ Absent(n).finalizer = FALSE
  BY DEF Absent, Services, Annotations
<1> DEFINE Kept(s) == s \in Services /\ s.name = n /\ svc' = [svc EXCEPT ![n] = s]
<1>3. ASSUME NEW s, Kept(s)
      PROVE  /\ svc' \in [Names -> Services] /\ \A m \in Names : svc'[m].name = m
             /\ svc'[n] = s /\ \A m \in Names \ {n} : svc'[m] = svc[m]
  BY <1>0, <1>3, ServiceTyped
<1>4. ASSUME NEW s, Kept(s), queue' \subseteq queue \cup {svc[n]}
      PROVE  Types' /\ UNCHANGED <<linode, task>>
  <2>1. queue' \subseteq Services /\ edits' \in 0 .. MaxEdits
    BY <1>0, <1>1, <1>4, BoundsAssumption, SMT DEF TypeOK, User
  <2>2. TypeOK'
    BY <1>0, <1>3, <1>4, <2>1 DEF User, TypeOK, linode
  <2>3. Roles'
    BY <1>0 DEF User, Roles
  <2> QED BY <2>2, <2>3 DEF User, Types
<1>5. CASE Create(n)
  <2>1. PICK ann \in Anns[n] :
          svc' = [svc EXCEPT ![n] = [Absent(n) EXCEPT !.phase = "wanted", !.ann = ann]]
    BY <1>5 DEF Create
  <2> DEFINE s == [Absent(n) EXCEPT !.phase = "wanted", !.ann = ann]
  <2>2. ann \in Annotations
    BY AnnsAssumption
  <2>3. /\ s \in Services /\ s.name = n /\ s.phase = "wanted" /\ s.ann = ann
        /\ s.status = None /\ s.finalizer = FALSE
    BY <1>2, <2>2 DEF Services
  <2>4. svc'[n] = s /\ (\A m \in Names \ {n} : svc'[m] = svc[m]) /\ Types' /\ UNCHANGED <<linode, task>>
    BY <1>3, <1>4, <1>5, <2>1, <2>3 DEF Create
  <2> QED BY <1>5, <2>3, <2>4 DEF Create
<1>6. CASE Annotate(n)
  <2>1. PICK ann \in Anns[n] : Admissible(n, ann) /\ svc' = [svc EXCEPT ![n].ann = ann]
    BY <1>6 DEF Annotate
  <2> DEFINE s == [svc[n] EXCEPT !.ann = ann]
  <2>2. ann \in Annotations
    BY AnnsAssumption
  <2>3. /\ s \in Services /\ s.name = n /\ s.phase = svc[n].phase /\ s.ann = ann
        /\ s.status = svc[n].status /\ s.finalizer = svc[n].finalizer
    BY <1>1, <2>2 DEF Services
  <2>4. svc' = [svc EXCEPT ![n] = s]
    BY <2>1
  <2>5. svc'[n] = s /\ (\A m \in Names \ {n} : svc'[m] = svc[m]) /\ Types' /\ UNCHANGED <<linode, task>>
    BY <1>3, <1>4, <1>6, <2>3, <2>4 DEF Annotate
  <2> QED BY <1>6, <2>1, <2>3, <2>5 DEF Annotate
<1>7. ASSUME NEW phase \in {"wanted", "unwanted", "deleting"}, svc' = [svc EXCEPT ![n].phase = phase],
             queue' \subseteq queue \cup {svc[n]}
      PROVE  /\ Types' /\ UNCHANGED <<linode, task>>
             /\ \A m \in Names \ {n} : svc'[m] = svc[m]
             /\ svc'[n].phase = phase
             /\ svc'[n].ann = svc[n].ann /\ svc'[n].status = svc[n].status
             /\ svc'[n].finalizer = svc[n].finalizer
  <2> DEFINE s == [svc[n] EXCEPT !.phase = phase]
  <2>1. /\ s \in Services /\ s.name = n /\ s.phase = phase /\ s.ann = svc[n].ann
        /\ s.status = svc[n].status /\ s.finalizer = svc[n].finalizer
    BY <1>1 DEF Services
  <2>2. svc' = [svc EXCEPT ![n] = s]
    BY <1>7
  <2> QED BY <1>3, <1>4, <1>7, <2>1, <2>2
<1>8. CASE Retype(n)
  <2>1. CASE svc[n].phase = "wanted"
    BY <1>7, <1>8, <2>1 DEF Retype
  <2>2. CASE svc[n].phase # "wanted"
    BY <1>7, <1>8, <2>2 DEF Retype
  <2> QED BY <2>1, <2>2
<1>9. CASE Delete(n)
  <2>1. CASE svc[n].finalizer
    BY <1>7, <1>9, <2>1 DEF Delete
  <2>2. CASE ~svc[n].finalizer
    BY <1>2, <1>3, <1>4, <1>9, <2>2 DEF Delete
  <2> QED BY <2>1, <2>2
<1> QED BY <1>5, <1>6, <1>8, <1>9 DEF User

\* The steps, sorted.
LEMMA Steps ==
  ASSUME Next
  PROVE  \/ \E a \in Actors : Working(a) \/ CreateNodeBalancer(a)
         \/ \E n \in Names : \/ BeginSync(n) \/ BeginNodeSync(n) \/ PatchStatus(n)
                            \/ RemoveFinalizer(n) \/ User(n)
         \/ BeginDeletion
<1>1. ASSUME NEW a \in Actors, Handle(a)
      PROVE  Working(a) \/ CreateNodeBalancer(a)
  BY <1>1 DEF Handle, Working
<1>2. ASSUME NEW n \in Names, GetLoadBalancer(n)
      PROVE  Working(<<"sync", n>>)
  BY <1>2 DEF Working
<1>3. ASSUME NEW a \in Actors, CallFails(a)
      PROVE  Working(a)
  BY <1>3 DEF Working
<1> QED BY <1>1, <1>2, <1>3, Forms DEF Next, Sync

\* Every step keeps the types and the roles.
LEMMA TypesKept ==
  Types /\ [Next]_vars => Types'
<1>1. ASSUME Types, Next
      PROVE  Types'
  BY <1>1, Steps, WorkingTypes, CreateTypes, BeginSyncTypes, BeginNodeTypes, PatchTypes,
     FinalizerTypes, UserTypes, BeginDeletionTypes
<1>2. ASSUME Types, UNCHANGED vars
      PROVE  Types'
  <2>1. TypeOK'
    BY <1>2 DEF Types, TypeOK, vars
  <2>2. Roles'
    BY <1>2 DEF Types, Roles, vars
  <2> QED BY <2>1, <2>2 DEF Types
<1> QED BY <1>1, <1>2

-----------------------------------------------------------------------------
\* What the deletions of NodeBalancers rest on.

\* The NodeBalancers that a Service may name.
Ids(n) == {ann.id : ann \in Anns[n]} \ {None}

\* Services are not made again, no two of them may name the same NodeBalancer, and
\* those that nodes are synchronised for name none.
Separate ==
    /\ ~Reuse
    /\ \A m, n \in Names : m = n \/ Ids(m) \cap Ids(n) = {}
    /\ NodeSync => \A n \in Names : Ids(n) = {}

\* A NodeBalancer that a handler for the name n may meet: one that n may name, or
\* one made for n.
Own(owner, n, nb) == nb = None \/ nb \in Ids(n) \/ (nb \in created /\ owner[nb] = n)
Owns(owner, s) == s.ann.id \in Ids(s.name) \cup {None} /\ Own(owner, s.name, s.status)
Ownership(owner) ==
    /\ \A n \in Names : Owns(owner, svc[n])
    /\ \A s \in queue : Owns(owner, s)
    /\ \A a \in Actors : task[a].pc # "idle" =>
         /\ Owns(owner, task[a].snap)
         /\ Own(owner, task[a].snap.name, task[a].nb)
         /\ Own(owner, task[a].snap.name, task[a].old)
Owners == \E owner \in [OwnNBs -> Names] : Ownership(owner)

\* A Service that leaves a NodeBalancer for another one does not return to it before
\* the handler has come to its end.
Moves(ann, n) == ann.id \notin {None, svc[n].status}
Leaving ==
    \A n \in Names :
      LET t == task[<<"sync", n>>] IN
      t.pc # "idle" /\ svc[n].phase # "absent" /\ Moves(t.snap.ann, n) => Moves(svc[n].ann, n)

\* What is purged is the NodeBalancer in the status, and not the one named.
Purging ==
    /\ \A a \in Actors : task[a].pc = "purge" => task[a].snap.ann.id \notin {None, task[a].old}
    /\ \A n \in Names :
         task[<<"sync", n>>].pc = "purge" /\ svc[n].phase # "absent"
           => task[<<"sync", n>>].old = svc[n].status
    /\ \A n \in Names : task[<<"node", n>>].pc # "idle" => NodeSync

\* A Service whose NodeBalancer is to be deleted is not wanted any more, and keeps
\* the annotations it was last seen with.
Ended(s) ==
    /\ svc[s.name].phase # "wanted"
    /\ svc[s.name].phase # "absent" => s.ann = svc[s.name].ann
Deleting ==
    /\ \A s \in queue : Ended(s)
    /\ \A a \in Actors : task[a].pc \in Closing => Ended(task[a].snap)
    /\ \A a \in Actors : task[a].pc \in {"address", "balancer"} => ~task[a].snap.ann.preserve

Invariant == Types /\ Owners /\ Leaving /\ Purging /\ Deleting

\* A NodeBalancer belongs to one name.
LEMMA Distinct ==
  ASSUME TypeOK, Separate, NEW owner, NEW m \in Names, NEW n \in Names, m # n,
         NEW nb, Own(owner, m, nb), Own(owner, n, nb)
  PROVE  nb = None
<1>1. Ids(m) \subseteq UserNBs /\ Ids(n) \subseteq UserNBs
  BY AnnsAssumption DEF Ids, Annotations
<1>2. created \cap UserNBs = {}
  BY NBAssumption DEF TypeOK
<1> QED BY <1>1, <1>2 DEF Own, Separate

\* What is found by a handler is its own.
LEMMA FoundOwn ==
  ASSUME TypeOK, NEW owner, Ownership(owner), NEW s \in Services, Owns(owner, s)
  PROVE  /\ Own(owner, s.name, getNodeBalancerForService(s))
         /\ Own(owner, s.name, getNodeBalancerByStatus(s))
<1>1. s.name \in Names /\ svc[s.name].name = s.name
  BY DEF TypeOK, Services
<1>2. Own(owner, s.name, svc[s.name].status)
  BY <1>1 DEF Ownership, Owns
<1>3. Own(owner, s.name, LatestStatus(s)) /\ Own(owner, s.name, s.ann.id) /\ Own(owner, s.name, None)
  BY <1>2 DEF LatestStatus, Owns, Own
<1> QED BY <1>3 DEF getNodeBalancerForService, getNodeBalancerByStatus, Found

\* What a handler meets stays its own: it is looked up in what belongs to its name, and
\* what is made is made for its name.
LEMMA OwnersKept ==
  ASSUME Types, Owners, Next
  PROVE  Owners'
<1>0. TypeOK
  BY DEF Types
<1>1. PICK owner \in [OwnNBs -> Names] : Ownership(owner)
  BY DEF Owners
<1>2. ASSUME NEW a \in Actors, Working(a)
      PROVE  Owners'
  <2> DEFINE s == task[a].snap
  <2>1. /\ UNCHANGED <<svc, created>> /\ \A b \in Actors \ {a} : task'[b] = task[b]
        /\ task'[a] = Idle \/ Goes(a)
        /\ queue' = queue \/ (task[a].pc # "idle" /\ queue' = queue \cup {s})
    BY <1>0, <1>2, WorkingSteps DEF Types, Roles
  <2>2. \A s1 \in queue' : Owns(owner, s1)
    BY <1>1, <2>1 DEF Ownership
  <2>3. ASSUME Goes(a)
        PROVE  /\ task'[a].snap = s /\ Owns(owner, s)
               /\ Own(owner, s.name, task'[a].nb) /\ Own(owner, s.name, task'[a].old)
    <3>1. s \in Services
      BY <1>0 DEF TypeOK, Tasks
    <3>2. task[a].pc # "idle" /\ task'[a].snap = s
      BY <2>3 DEF Goes
    <3>3. /\ Owns(owner, s) /\ Own(owner, s.name, task[a].nb) /\ Own(owner, s.name, task[a].old)
          /\ Own(owner, s.name, None)
      BY <1>1, <3>2 DEF Ownership, Own
    <3>4. /\ Own(owner, s.name, getNodeBalancerForService(s))
          /\ Own(owner, s.name, getNodeBalancerByStatus(s))
      BY <1>0, <1>1, <3>1, <3>3, FoundOwn
    <3>5. /\ task'[a].nb \in {None, task[a].nb, getNodeBalancerForService(s)}
          /\ task'[a].old = task[a].old \/ task'[a].old = getNodeBalancerByStatus(s)
      BY <2>3 DEF Goes
    <3> QED BY <3>2, <3>3, <3>4, <3>5
  <2>4. \A b \in Actors : task'[b].pc # "idle" =>
          /\ Owns(owner, task'[b].snap)
          /\ Own(owner, task'[b].snap.name, task'[b].nb)
          /\ Own(owner, task'[b].snap.name, task'[b].old)
    BY <1>1, <2>1, <2>3, IdleTyped DEF Ownership
  <2>5. \A n \in Names : Owns(owner, svc'[n])
    BY <1>1, <2>1 DEF Ownership
  <2>6. Ownership(owner)'
    BY <2>1, <2>2, <2>4, <2>5 DEF Ownership, Owns, Own
  <2> QED BY <2>6 DEF Owners
\* Steps that make no NodeBalancer and look for none.
<1> DEFINE
      Annotated == \A n \in Names : \/ svc'[n].ann.id \in Ids(n) \cup {None}
                                    \/ svc'[n].ann = svc[n].ann
      Patched == \A n \in Names : \/ svc'[n].status \in {None, svc[n].status}
                                  \/ /\ task[<<"sync", n>>].pc = "patch"
                                     /\ svc'[n].status = task[<<"sync", n>>].nb
      Queued == \A s \in queue' : s \in queue \/ \E n \in Names : s = svc[n]
      Begun == \A a \in Actors :
                 \/ task'[a] = task[a] \/ task'[a].pc = "idle"
                 \/ /\ task'[a].nb = None /\ task'[a].old = None
                    /\ \/ task'[a].snap \in queue
                       \/ \E n \in Names : task'[a].snap = svc[n]
<1>3. ASSUME created' = created, Annotated, Patched, Queued, Begun, Types'
      PROVE  Owners'
  <2>1. \A n \in Names : svc[n].name = n /\ svc'[n].name = n
    BY <1>0, <1>3 DEF Types, TypeOK
  <2>2. \A n \in Names : Owns(owner, svc[n])
    BY <1>1 DEF Ownership
  <2>3. ASSUME NEW n \in Names
        PROVE  Owns(owner, svc'[n])
    <3>1. task[<<"sync", n>>].pc = "patch" => Own(owner, n, task[<<"sync", n>>].nb)
      BY <1>1, Forms DEF Ownership, Types, Roles
    <3>2. Own(owner, n, svc'[n].status)
      BY <1>3, <2>1, <2>2, <3>1, SMT DEF Owns, Own
    <3> QED BY <1>3, <2>1, <2>2, <3>2, SMT DEF Owns
  <2>4. \A s \in queue' : Owns(owner, s)
    BY <1>1, <1>3, <2>2 DEF Ownership
  <2>5. \A a \in Actors : task'[a].pc # "idle" =>
          /\ Owns(owner, task'[a].snap)
          /\ Own(owner, task'[a].snap.name, task'[a].nb)
          /\ Own(owner, task'[a].snap.name, task'[a].old)
    BY <1>1, <1>3, <2>2, SMT DEF Ownership, Own
  <2>6. Ownership(owner)'
    BY <1>3, <2>3, <2>4, <2>5 DEF Ownership, Owns, Own
  <2> QED BY <2>6 DEF Owners
<1>4. ASSUME NEW n \in Names, BeginSync(n) \/ BeginNodeSync(n) \/ PatchStatus(n) \/ RemoveFinalizer(n)
      PROVE  Owners'
  <2>1. Absent(n).ann.id = None /\ Absent(n).status = None
    BY DEF Absent
  <2>3. CASE BeginSync(n)
    <3>1. Annotated /\ Patched /\ Queued
      <4>1. /\ \A m \in Names : svc'[m].ann = svc[m].ann /\ svc'[m].status = svc[m].status
            /\ queue' = queue
        BY <2>3, BeginSyncTypes
      <4> QED BY <4>1
    <3>2. Begun
      <4>1. LET a == <<"sync", n>> IN
            /\ task'[a].snap = svc[n] /\ task'[a].nb = None /\ task'[a].old = None
            /\ \A b \in Actors \ {a} : task'[b] = task[b]
        BY <2>3, BeginSyncTypes
      <4> QED BY <4>1
    <3>3. created' = created /\ Types'
      BY <2>3, BeginSyncTypes DEF linode
    <3> QED BY <1>3, <3>1, <3>2, <3>3
  <2>4. CASE BeginNodeSync(n)
    <3>1. Annotated /\ Patched /\ Queued
      BY <2>4, BeginNodeTypes
    <3>2. Begun
      BY <2>4, BeginNodeTypes
    <3>3. created' = created /\ Types'
      BY <2>4, BeginNodeTypes DEF linode
    <3> QED BY <1>3, <3>1, <3>2, <3>3
  <2>5. CASE PatchStatus(n)
    <3>1. Annotated
      BY <2>5, PatchTypes
    <3>2. Patched
      BY <2>5, PatchTypes
    <3>3. Begun
      BY <2>5, PatchTypes, IdleTyped
    <3>4. Queued /\ created' = created /\ Types'
      BY <2>5, PatchTypes DEF linode
    <3> QED BY <1>3, <3>1, <3>2, <3>3, <3>4
  <2>6. CASE RemoveFinalizer(n)
    <3>1. \A m \in Names \ {n} : svc'[m] = svc[m]
      BY <2>6, FinalizerTypes
    <3>2. \/ svc'[n] = Absent(n) /\ queue' = queue \cup {svc[n]}
          \/ svc'[n].ann = svc[n].ann /\ svc'[n].status = None /\ queue' = queue
      BY <2>6, FinalizerTypes
    <3>3. Annotated /\ Patched /\ Queued
      BY <2>1, <3>1, <3>2
    <3>4. Begun
      BY <2>6, FinalizerTypes, IdleTyped
    <3>5. created' = created /\ Types'
      BY <2>6, FinalizerTypes DEF linode
    <3> QED BY <1>3, <3>3, <3>4, <3>5
  <2> QED BY <1>4, <2>3, <2>4, <2>5, <2>6
<1>5. ASSUME NEW n \in Names, User(n)
      PROVE  Owners'
  <2>1. Absent(n).ann.id = None /\ Absent(n).status = None
    BY DEF Absent
  <2>2. ASSUME NEW ann \in Anns[n]
        PROVE  ann.id \in Ids(n) \cup {None}
    BY DEF Ids
  <2>3. svc'[n].ann.id \in Ids(n) \cup {None} \/ svc'[n].ann = svc[n].ann
    BY <1>5, <2>1, <2>2, UserTypes DEF Admissible
  <2>4. svc'[n].status \in {None, svc[n].status}
    BY <1>5, <2>1, UserTypes
  <2>5. queue' = queue \/ queue' = queue \cup {svc[n]}
    BY <1>5, UserTypes
  <2>6. Types' /\ UNCHANGED <<linode, task>> /\ \A m \in Names \ {n} : svc'[m] = svc[m]
    BY <1>5, UserTypes
  <2>7. Annotated /\ Patched /\ Queued /\ Begun
    BY <2>3, <2>4, <2>5, <2>6
  <2> QED BY <1>3, <2>6, <2>7 DEF linode
<1>6. CASE BeginDeletion
  <2>1. /\ Types' /\ UNCHANGED <<svc, linode>> /\ queue' \subseteq queue
        /\ \A b \in Actors \ {<<"ccm">>} : task'[b] = task[b]
        /\ LET a == <<"ccm">> IN
           \/ task'[a] = task[a]
           \/ task'[a].snap \in queue /\ task'[a].nb = None /\ task'[a].old = None
    BY <1>6, BeginDeletionTypes
  <2>2. Annotated /\ Patched /\ Queued
    BY <2>1
  <2>3. Begun
    BY <2>1
  <2> QED BY <1>3, <2>1, <2>2, <2>3 DEF linode
<1>7. ASSUME NEW a \in Actors, CreateNodeBalancer(a)
      PROVE  Owners'
  <2>1. /\ Types' /\ UNCHANGED <<svc, queue>> /\ a[1] = "sync" /\ task[a].pc = "create"
        /\ \A b \in Actors \ {a} : task'[b] = task[b]
    BY <1>7, CreateTypes
  <2>2. PICK nb \in OwnNBs \ created :
              /\ created' = created \cup {nb}
              /\ task'[a].nb = nb /\ task'[a].snap = task[a].snap /\ task'[a].old = task[a].old
    BY <1>7, CreateTypes
  <2> DEFINE n == a[2]
             made == [owner EXCEPT ![nb] = n]
  <2>3. n \in Names /\ task[a].snap.name = n
    BY <2>1, Forms DEF Types, Roles
  <2>4. made \in [OwnNBs -> Names] /\ made[nb] = n /\ \A x \in created : made[x] = owner[x]
    BY <1>0, <2>2, <2>3 DEF TypeOK
  <2>5. ASSUME NEW m, NEW x, Own(owner, m, x)
        PROVE  Own(made, m, x)'
    BY <2>2, <2>4, <2>5 DEF Own
  <2>6. ASSUME NEW s, Owns(owner, s)
        PROVE  Owns(made, s)'
    BY <2>5, <2>6 DEF Owns
  <2>7. Own(made, n, nb)'
    BY <2>2, <2>4 DEF Own
  <2>8. \A s \in queue' : Owns(made, s)'
    BY <1>1, <2>1, <2>6 DEF Ownership
  <2>9. \A m \in Names : Owns(made, svc[m])'
    BY <1>1, <2>1, <2>6 DEF Ownership
  <2>10. ASSUME NEW b \in Actors, task'[b].pc # "idle"
         PROVE  /\ Owns(made, task[b].snap)'
                /\ Own(made, task[b].snap.name, task[b].nb)'
                /\ Own(made, task[b].snap.name, task[b].old)'
    <3>1. task[b].pc # "idle" =>
                /\ Owns(owner, task[b].snap)
                /\ Own(owner, task[b].snap.name, task[b].nb)
                /\ Own(owner, task[b].snap.name, task[b].old)
      BY <1>1 DEF Ownership
    <3> QED BY <2>1, <2>2, <2>3, <2>5, <2>6, <2>7, <2>10, <3>1
  <2>11. Ownership(made)'
    BY <2>8, <2>9, <2>10 DEF Ownership
  <2> QED BY <2>4, <2>11 DEF Owners
<1> QED BY <1>2, <1>4, <1>5, <1>6, <1>7, Steps

\* A Service that is not wanted, and is not made again, only goes away.
LEMMA Settled ==
  ASSUME Types, ~Reuse, Next, NEW n \in Names
  PROVE  /\ svc[n].phase = "absent" => svc'[n].phase = "absent"
         /\ svc[n].phase # "wanted" =>
              /\ svc'[n].phase # "wanted"
              /\ svc'[n].phase # "absent" => svc'[n].ann = svc[n].ann
<1> DEFINE Res == /\ svc[n].phase = "absent" => svc'[n].phase = "absent"
                  /\ svc[n].phase # "wanted" =>
                       /\ svc'[n].phase # "wanted"
                       /\ svc'[n].phase # "absent" => svc'[n].ann = svc[n].ann
<1>1. Absent(n).phase = "absent"
  BY DEF Absent
<1>2. svc'[n].phase = svc[n].phase /\ svc'[n].ann = svc[n].ann => Res
  OBVIOUS
<1>3. ASSUME NEW a \in Actors, Working(a)
      PROVE  Res
  BY <1>2, <1>3, WorkingSteps DEF Types, Roles
<1>4. ASSUME NEW a \in Actors, CreateNodeBalancer(a)
      PROVE  Res
  BY <1>2, <1>4, CreateTypes
<1>5. ASSUME NEW m \in Names, BeginSync(m)
      PROVE  Res
  BY <1>2, <1>5, BeginSyncTypes
<1>6. ASSUME NEW m \in Names, BeginNodeSync(m)
      PROVE  Res
  BY <1>2, <1>6, BeginNodeTypes
<1>7. ASSUME NEW m \in Names, PatchStatus(m)
      PROVE  Res
  BY <1>2, <1>7, PatchTypes
<1>8. ASSUME NEW m \in Names, RemoveFinalizer(m)
      PROVE  Res
  <2>1. CASE m # n
    BY <1>2, <1>8, <2>1, FinalizerTypes
  <2>2. CASE m = n
    <3>1. \/ svc[n].phase = "deleting" /\ svc'[n].phase = "absent"
          \/ svc'[n].phase = svc[n].phase /\ svc'[n].ann = svc[n].ann
      BY <1>1, <1>8, <2>2, FinalizerTypes
    <3> QED BY <3>1
  <2> QED BY <2>1, <2>2
<1>9. ASSUME NEW m \in Names, User(m)
      PROVE  Res
  <2>1. CASE m # n
    BY <1>2, <1>9, <2>1, UserTypes
  <2>2. CASE m = n
    <3>1. svc[n].phase = "wanted" /\ svc'[n].phase \in {"wanted", "unwanted", "deleting", "absent"}
      BY <1>1, <1>9, <2>2, UserTypes
    <3> QED BY <3>1
  <2> QED BY <2>1, <2>2
<1>10. CASE BeginDeletion
  BY <1>2, <1>10, BeginDeletionTypes
<1> QED BY <1>3, <1>4, <1>5, <1>6, <1>7, <1>8, <1>9, <1>10, Steps

\* The Service at most goes away or is annotated, its status stays.
Stays(n) ==
    \/ svc'[n].phase = "absent"
    \/ /\ svc'[n].status = svc[n].status
       /\ svc'[n].ann = svc[n].ann \/ Admissible(n, svc'[n].ann)

\* What the handler of a Service does in a step, and what becomes of the Service.
SyncStep(n) ==
    LET a == <<"sync", n>> IN
    \/ task'[a].pc = "idle"
    \/ /\ task[a].pc = "idle" /\ task'[a].snap = svc[n] /\ task'[a].pc \in {"lookup", "get"}
       /\ task'[a].pc = "get" => svc[n].phase # "wanted"
       /\ svc'[n].ann = svc[n].ann /\ svc'[n].status = svc[n].status
       /\ svc'[n].phase = svc[n].phase
    \/ task[a].pc # "idle" /\ task'[a] = task[a] /\ Stays(n)
    \/ Goes(a) /\ svc'[n] = svc[n]
    \/ /\ task[a].pc = "create" /\ task'[a].pc = "cleanup" /\ task'[a].snap = task[a].snap
       /\ svc'[n] = svc[n]

\* These are all of its steps.
LEMMA SyncSteps ==
  ASSUME Types, ~Reuse, Next, NEW n \in Names
  PROVE  SyncStep(n)
<1> DEFINE a == <<"sync", n>>
<1>0. a \in Actors /\ \A m \in Names : m # n => <<"sync", m>> # a /\ <<"node", m>> # a
  BY Forms
<1>1. a # <<"ccm">> /\ \A m \in Names : <<"node", m>> # a
  OBVIOUS
<1>2. task'[a] = task[a] /\ Stays(n) => SyncStep(n)
  BY DEF SyncStep
<1>3. svc'[n] = svc[n] => Stays(n)
  BY DEF Stays
<1>4. ASSUME NEW b \in Actors, Working(b)
      PROVE  SyncStep(n)
  <2>1. /\ svc' = svc /\ \A c \in Actors \ {b} : task'[c] = task[c]
        /\ task'[b] = Idle \/ Goes(b)
    BY <1>4, WorkingSteps DEF Types, Roles
  <2>2. CASE b = a
    BY <2>1, <2>2, IdleTyped DEF SyncStep
  <2>3. CASE b # a
    BY <1>0, <1>2, <1>3, <2>1, <2>3
  <2> QED BY <2>2, <2>3
<1>5. ASSUME NEW b \in Actors, CreateNodeBalancer(b)
      PROVE  SyncStep(n)
  <2>1. /\ svc' = svc /\ (\A c \in Actors \ {b} : task'[c] = task[c]) /\ task[b].pc = "create"
        /\ task'[b].pc = "cleanup" /\ task'[b].snap = task[b].snap
    BY <1>5, CreateTypes
  <2>2. CASE b = a
    BY <2>1, <2>2 DEF SyncStep
  <2>3. CASE b # a
    BY <1>0, <1>2, <1>3, <2>1, <2>3
  <2> QED BY <2>2, <2>3
<1>6. ASSUME NEW m \in Names, BeginSync(m)
      PROVE  SyncStep(n)
  <2>1. /\ \A c \in Actors \ {<<"sync", m>>} : task'[c] = task[c]
        /\ svc'[n].ann = svc[n].ann /\ svc'[n].status = svc[n].status /\ svc'[n].phase = svc[n].phase
    BY <1>6, BeginSyncTypes
  <2>2. CASE m = n
    <3>1. /\ task[a].pc = "idle" /\ task'[a].snap = svc[n]
          /\ task'[a].pc = IF svc[n].phase = "wanted" THEN "lookup" ELSE "get"
      BY <1>6, <2>2, BeginSyncTypes
    <3> QED BY <2>1, <3>1 DEF SyncStep
  <2>3. CASE m # n
    BY <1>0, <1>2, <2>1, <2>3 DEF Stays
  <2> QED BY <2>2, <2>3
<1>7. ASSUME NEW m \in Names, BeginNodeSync(m)
      PROVE  SyncStep(n)
  BY <1>0, <1>1, <1>2, <1>3, <1>7, BeginNodeTypes
<1>8. ASSUME NEW m \in Names, PatchStatus(m)
      PROVE  SyncStep(n)
  <2>1. CASE m = n
    BY <1>8, <2>1, PatchTypes, IdleTyped DEF SyncStep
  <2>2. CASE m # n
    BY <1>0, <1>2, <1>3, <1>8, <2>2, PatchTypes
  <2> QED BY <2>1, <2>2
<1>9. ASSUME NEW m \in Names, RemoveFinalizer(m)
      PROVE  SyncStep(n)
  <2>1. CASE m = n
    BY <1>9, <2>1, FinalizerTypes, IdleTyped DEF SyncStep
  <2>2. CASE m # n
    BY <1>0, <1>2, <1>3, <1>9, <2>2, FinalizerTypes
  <2> QED BY <2>1, <2>2
<1>10. ASSUME NEW m \in Names, User(m)
       PROVE  SyncStep(n)
  <2>1. task' = task
    BY <1>10, UserTypes
  <2>2. CASE m = n
    <3>1. Absent(n).phase = "absent"
      BY DEF Absent
    <3>2. Stays(n)
      BY <1>10, <2>2, <3>1, UserTypes DEF Stays
    <3> QED BY <1>2, <2>1, <3>2
  <2>3. CASE m # n
    BY <1>2, <1>3, <1>10, <2>1, <2>3, UserTypes
  <2> QED BY <2>2, <2>3
<1>11. CASE BeginDeletion
  BY <1>0, <1>1, <1>2, <1>3, <1>11, BeginDeletionTypes
<1> QED BY <1>4, <1>5, <1>6, <1>7, <1>8, <1>9, <1>10, <1>11, Steps

\* The user does not lead a Service back to the NodeBalancer it is leaving.
LEMMA LeavingKept ==
  ASSUME Types, ~Reuse, Leaving, Next
  PROVE  Leaving'
<1> SUFFICES ASSUME NEW n \in Names, task'[<<"sync", n>>].pc # "idle", svc'[n].phase # "absent",
                    Moves(task[<<"sync", n>>].snap.ann, n)'
             PROVE  Moves(svc[n].ann, n)'
  BY DEF Leaving
<1> DEFINE a == <<"sync", n>>
<1>1. svc[n].phase # "absent" /\ SyncStep(n)
  BY Settled, SyncSteps
<1>2. CASE task[a].pc = "idle" /\ task'[a].snap = svc[n] /\ svc'[n].ann = svc[n].ann
  BY <1>2, SMTT(30) DEF Moves
<1>3. CASE task[a].pc # "idle" /\ task'[a].snap = task[a].snap /\ Stays(n)
  <2>1. svc'[n].status = svc[n].status /\ (svc'[n].ann = svc[n].ann \/ Admissible(n, svc'[n].ann))
    BY <1>3 DEF Stays
  <2>2. Moves(svc[n].ann, n)
    BY <1>1, <1>3, <2>1 DEF Leaving, Moves
  <2> QED BY <2>1, <2>2 DEF Moves, Admissible
<1> QED BY <1>1, <1>2, <1>3, SMTT(30) DEF SyncStep, Stays, Goes

\* What an actor does in a step.
ActorStep(a) ==
    \/ task'[a] = task[a] \/ task'[a].pc = "idle" \/ Goes(a)
    \/ task'[a].pc = "cleanup" /\ a[1] = "sync"
    \/ a[1] = "sync" /\ task'[a].pc \in {"lookup", "get"}
    \/ a[1] = "node" /\ task'[a].pc = "lookup" /\ NodeSync
    \/ a[1] = "ccm" /\ task'[a].pc = "delete" /\ task'[a].snap \in queue

\* These are all of its steps.
LEMMA ActorSteps ==
  ASSUME Types, Next, NEW a \in Actors
  PROVE  ActorStep(a)
<1>1. ASSUME NEW b \in Actors, Working(b)
      PROVE  ActorStep(a)
  <2>1. /\ \A c \in Actors \ {b} : task'[c] = task[c]
        /\ task'[b] = Idle \/ Goes(b)
    BY <1>1, WorkingSteps DEF Types, Roles
  <2> QED BY <2>1, IdleTyped DEF ActorStep
<1>2. ASSUME NEW b \in Actors, CreateNodeBalancer(b)
      PROVE  ActorStep(a)
  BY <1>2, CreateTypes DEF ActorStep
<1>3. ASSUME NEW m \in Names, BeginSync(m)
      PROVE  ActorStep(a)
  <2>1. LET b == <<"sync", m>> IN
        b[1] = "sync" /\ task'[b].pc \in {"lookup", "get"} /\ \A c \in Actors \ {b} : task'[c] = task[c]
    BY <1>3, BeginSyncTypes
  <2> QED BY <2>1 DEF ActorStep
<1>4. ASSUME NEW m \in Names, BeginNodeSync(m)
      PROVE  ActorStep(a)
  <2>1. LET b == <<"node", m>> IN
        b[1] = "node" /\ task'[b].pc = "lookup" /\ \A c \in Actors \ {b} : task'[c] = task[c]
    BY <1>4, BeginNodeTypes
  <2>2. NodeSync
    BY <1>4 DEF BeginNodeSync
  <2> QED BY <2>1, <2>2 DEF ActorStep
<1>5. ASSUME NEW m \in Names, PatchStatus(m)
      PROVE  ActorStep(a)
  BY <1>5, PatchTypes, IdleTyped DEF ActorStep
<1>6. ASSUME NEW m \in Names, RemoveFinalizer(m)
      PROVE  ActorStep(a)
  BY <1>6, FinalizerTypes, IdleTyped DEF ActorStep
<1>7. ASSUME NEW m \in Names, User(m)
      PROVE  ActorStep(a)
  BY <1>7, UserTypes DEF ActorStep
<1>8. CASE BeginDeletion
  <2>1. LET b == <<"ccm">> IN
        /\ b[1] = "ccm" /\ \A c \in Actors \ {b} : task'[c] = task[c]
        /\ task'[b] = task[b] \/ (task'[b].pc = "delete" /\ task'[b].snap \in queue)
    BY <1>8, BeginDeletionTypes
  <2> QED BY <2>1 DEF ActorStep
<1> QED BY <1>1, <1>2, <1>3, <1>4, <1>5, <1>6, <1>7, <1>8, Steps

\* A purge is decided on what is still true when it is carried out.
LEMMA PurgingKept ==
  ASSUME Types, ~Reuse, Purging, Next
  PROVE  Purging'
<1>1. ASSUME NEW a \in Actors, task'[a].pc = "purge"
      PROVE  task'[a].snap.ann.id \notin {None, task'[a].old}
  BY <1>1, ActorSteps DEF ActorStep, Goes, Purging
<1>2. ASSUME NEW n \in Names, task'[<<"sync", n>>].pc = "purge", svc'[n].phase # "absent"
      PROVE  task'[<<"sync", n>>].old = svc'[n].status
  <2> DEFINE a == <<"sync", n>>
             s == task[a].snap
  <2>1. svc[n].phase # "absent" /\ SyncStep(n)
    BY <1>2, Settled, SyncSteps
  <2>2. CASE task'[a] = task[a] /\ Stays(n)
    BY <1>2, <2>1, <2>2 DEF Purging, Stays
  <2>3. CASE Goes(a) /\ svc'[n] = svc[n]
    <3>1. task'[a].old = getNodeBalancerByStatus(s) /\ task'[a].old # None /\ task[a].pc # "idle"
      BY <1>2, <2>3 DEF Goes
    <3>2. s.name = n
      BY <3>1, Forms DEF Types, Roles
    <3> QED BY <2>1, <2>3, <3>1, <3>2 DEF getNodeBalancerByStatus, Found, LatestStatus
  <2> QED BY <1>2, <2>1, <2>2, <2>3 DEF SyncStep
<1>3. ASSUME NEW n \in Names, task'[<<"node", n>>].pc # "idle"
      PROVE  NodeSync
  <2>1. <<"node", n>> \in Actors /\ <<"node", n>>[1] = "node"
    BY Forms
  <2> QED BY <1>3, <2>1, ActorSteps, SMTT(30) DEF ActorStep, Goes, Purging
<1> QED BY <1>1, <1>2, <1>3 DEF Purging

\* Where the Services in the queue come from.
LEMMA QueueSteps ==
  ASSUME Types, Next, NEW s \in queue'
  PROVE  \/ s \in queue
         \/ \E a \in Actors : task[a].pc \in Closing /\ s = task[a].snap
         \/ \E n \in Names : /\ s = svc[n] /\ svc'[n].phase # "wanted"
                             /\ svc'[n].phase # "absent" => svc'[n].ann = svc[n].ann
<1> DEFINE Res == \/ s \in queue
                  \/ \E a \in Actors : task[a].pc \in Closing /\ s = task[a].snap
                  \/ \E n \in Names : /\ s = svc[n] /\ svc'[n].phase # "wanted"
                                      /\ svc'[n].phase # "absent" => svc'[n].ann = svc[n].ann
<1>1. ASSUME NEW b \in Actors, Working(b)
      PROVE  Res
  <2>1. queue' = queue \/ (b[1] = "ccm" /\ task[b].pc # "idle" /\ queue' = queue \cup {task[b].snap})
    BY <1>1, WorkingSteps DEF Types, Roles
  <2>2. b[1] = "ccm" /\ task[b].pc # "idle" => task[b].pc \in Closing
    BY DEF Types, Roles, CallsOf, Closing
  <2> QED BY <2>1, <2>2
<1>2. ASSUME NEW b \in Actors, CreateNodeBalancer(b)
      PROVE  Res
  BY <1>2, CreateTypes
<1>3. ASSUME NEW m \in Names, BeginSync(m) \/ BeginNodeSync(m) \/ PatchStatus(m)
      PROVE  Res
  BY <1>3, BeginSyncTypes, BeginNodeTypes, PatchTypes
<1>4. ASSUME NEW m \in Names, RemoveFinalizer(m)
      PROVE  Res
  <2>1. queue' = queue \/ (svc'[m] = Absent(m) /\ queue' = queue \cup {svc[m]})
    BY <1>4, FinalizerTypes
  <2> QED BY <2>1, SMT DEF Absent
<1>5. ASSUME NEW m \in Names, User(m)
      PROVE  Res
  <2>1. \/ queue' = queue
        \/ /\ queue' = queue \cup {svc[m]}
           /\ \/ svc'[m] = Absent(m)
              \/ svc'[m].phase = "unwanted" /\ svc'[m].ann = svc[m].ann
    BY <1>5, UserTypes
  <2> QED BY <2>1, SMT DEF Absent
<1>6. CASE BeginDeletion
  BY <1>6, BeginDeletionTypes
<1> QED BY <1>1, <1>2, <1>3, <1>4, <1>5, <1>6, Steps

\* What is queued or being deleted stays so, and as it was last seen.
LEMMA DeletingKept ==
  ASSUME Types, ~Reuse, Deleting, Next
  PROVE  Deleting'
<1>0. Types' /\ TypeOK
  BY TypesKept DEF Types
<1>1. ASSUME NEW s \in Services, Ended(s)
      PROVE  Ended(s)'
  <2>1. s.name \in Names
    BY DEF Services
  <2> QED BY <1>1, <2>1, Settled DEF Ended
<1>2. ASSUME NEW s \in queue'
      PROVE  Ended(s)'
  <2>1. CASE s \in queue \/ \E a \in Actors : task[a].pc \in Closing /\ s = task[a].snap
    <3>1. s \in Services /\ Ended(s)
      BY <1>0, <2>1 DEF TypeOK, Tasks, Deleting
    <3> QED BY <1>1, <3>1
  <2>2. CASE \E n \in Names : /\ s = svc[n] /\ svc'[n].phase # "wanted"
                              /\ svc'[n].phase # "absent" => svc'[n].ann = svc[n].ann
    BY <1>0, <2>2 DEF TypeOK, Ended
  <2> QED BY <2>1, <2>2, QueueSteps
<1>3. ASSUME NEW a \in Actors, task'[a].pc \in Closing
      PROVE  Ended(task[a].snap)'
  <2>1. task[a].snap \in Services
    BY <1>0 DEF TypeOK, Tasks
  <2>2. CASE task'[a] = task[a] \/ Goes(a)
    <3>1. task[a].pc \in Closing /\ task'[a].snap = task[a].snap
      BY <1>3, <2>2 DEF Goes
    <3>2. Ended(task[a].snap)
      BY <3>1 DEF Deleting
    <3> QED BY <1>1, <2>1, <3>1, <3>2 DEF Ended
  <2>3. CASE a[1] = "ccm" /\ task'[a].snap \in queue
    <3>1. task'[a].snap \in Services /\ Ended(task'[a].snap)
      BY <1>0, <2>3 DEF TypeOK, Deleting
    <3> QED BY <3>1, <1>0, Settled DEF Ended, Services
  <2>4. CASE a[1] = "sync" /\ ~(task'[a] = task[a] \/ Goes(a))
    <3>1. a[2] \in Names /\ a = <<"sync", a[2]>>
      BY <2>4, Forms
    <3>2. SyncStep(a[2])
      BY <3>1, SyncSteps
    <3>3. /\ task'[a].snap = svc[a[2]] /\ svc'[a[2]].phase # "wanted"
          /\ svc'[a[2]].ann = svc[a[2]].ann
      BY <1>3, <2>4, <3>1, <3>2 DEF SyncStep, Closing
    <3>4. svc[a[2]].name = a[2]
      BY <1>0, <3>1 DEF TypeOK
    <3> QED BY <3>3, <3>4 DEF Ended
  <2>5. ActorStep(a)
    BY ActorSteps
  <2> QED BY <1>3, <2>2, <2>3, <2>4, <2>5 DEF ActorStep, Closing
<1>4. ASSUME NEW a \in Actors, task'[a].pc \in {"address", "balancer"}
      PROVE  ~task'[a].snap.ann.preserve
  <2>1. task'[a] = task[a] \/ Goes(a)
    BY <1>4, ActorSteps DEF ActorStep
  <2> QED BY <1>4, <2>1 DEF Deleting, Goes
<1> QED BY <1>2, <1>3, <1>4 DEF Deleting

\* A fresh cluster: no handler has begun.
LEMMA Fresh ==
  ASSUME Init
  PROVE  /\ \A n \in Names : /\ svc[n].name = n /\ svc[n].phase = "wanted" /\ svc[n].ann \in Anns[n]
                             /\ svc[n].status = None /\ svc[n].finalizer = FALSE
         /\ \A a \in Actors : task[a] = Idle
         /\ Types /\ queue = {} /\ created = {} /\ balancers = UserNBs
<1>1. PICK ann \in [Names -> Annotations] :
         /\ \A n \in Names : ann[n] \in Anns[n]
         /\ svc = [n \in Names |-> [Absent(n) EXCEPT !.phase = "wanted", !.ann = ann[n]]]
  BY DEF Init
<1> DEFINE fresh(n) == [Absent(n) EXCEPT !.phase = "wanted", !.ann = ann[n]]
<1>2. ASSUME NEW n \in Names
      PROVE  /\ svc[n] = fresh(n) /\ fresh(n) \in Services /\ fresh(n).name = n
             /\ fresh(n).phase = "wanted" /\ fresh(n).ann \in Anns[n]
             /\ fresh(n).status = None /\ fresh(n).finalizer = FALSE
  <2>1. /\ Absent(n) \in Services /\ Absent(n).name = n
        /\ Absent(n).status = None /\ Absent(n).finalizer = FALSE
    BY DEF Absent, Services, Annotations
  <2>2. ann[n] \in Annotations
    BY <1>1
  <2>3. fresh(n) \in Services
    BY <2>1, <2>2 DEF Services
  <2> QED BY <1>1, <2>1, <2>3 DEF Services
<1>3. /\ task = [a \in Actors |-> Idle] /\ queue = {} /\ created = {} /\ balancers = UserNBs
      /\ reserved = {} /\ failures = 0 /\ edits = 0
  BY DEF Init
<1>4. svc \in [Names -> Services]
  BY <1>1, <1>2
<1> HIDE DEF fresh
<1>5. task \in [Actors -> Tasks] /\ \A a \in Actors : task[a] = Idle /\ task[a].pc = "idle"
  BY <1>3, IdleTyped
<1>6. failures \in 0 .. MaxFailures /\ edits \in 0 .. MaxEdits
  BY <1>3, BoundsAssumption, SMT
<1>7. TypeOK
  BY <1>2, <1>3, <1>4, <1>5, <1>6 DEF TypeOK
<1>8. Roles
  BY <1>5 DEF Roles
<1>9. ASSUME NEW n \in Names
      PROVE  /\ svc[n].name = n /\ svc[n].phase = "wanted" /\ svc[n].ann \in Anns[n]
             /\ svc[n].status = None /\ svc[n].finalizer = FALSE
  BY <1>2
<1> QED BY <1>3, <1>5, <1>7, <1>8, <1>9 DEF Types

\* The types hold of every state: a handler goes on with a NodeBalancer at hand, and
\* makes the calls of its kind for the Service it was called for.
THEOREM TypesHold ==
  Spec => []TypeOK
<1>1. Types => TypeOK
  BY DEF Types
<1> QED BY Fresh, TypesKept, <1>1, PTL DEF Spec

\* The invariant is inductive.
LEMMA InvariantHolds ==
  ASSUME Separate
  PROVE  Spec => []Invariant
<1>1. Init => Invariant
  <2> SUFFICES ASSUME Init
               PROVE  Invariant
    OBVIOUS
  <2>1. PICK n0 : n0 \in Names
    BY NamesAssumption
  <2> DEFINE owner == [nb \in OwnNBs |-> n0]
  <2>2. owner \in [OwnNBs -> Names]
    BY <2>1
  <2>3. \A a \in Actors : task[a].pc = "idle"
    BY Fresh, IdleTyped
  <2>4. \A n \in Names : Owns(owner, svc[n])
    BY Fresh DEF Owns, Own, Ids
  <2>5. Ownership(owner)
    BY <2>3, <2>4, Fresh DEF Ownership
  <2>6. Owners
    BY <2>2, <2>5 DEF Owners
  <2>7. Leaving /\ Purging /\ Deleting
    BY <2>3, Forms, Fresh DEF Leaving, Purging, Deleting, Closing
  <2> QED BY <2>6, <2>7, Fresh DEF Invariant
<1>2. Invariant /\ Next => Invariant'
  BY TypesKept, OwnersKept, LeavingKept, PurgingKept, DeletingKept DEF Invariant, Separate
<1>3. Invariant /\ UNCHANGED vars => Invariant'
  <2> SUFFICES ASSUME Invariant, UNCHANGED vars
               PROVE  Invariant'
    OBVIOUS
  <2>1. Types'
    BY TypesKept DEF Invariant
  <2>2. Owners'
    BY SMT DEF Invariant, Owners, Ownership, Owns, Own, vars
  <2>3. Leaving' /\ Purging' /\ Deleting'
    BY DEF Invariant, Leaving, Moves, Purging, Deleting, Ended, vars
  <2> QED BY <2>1, <2>2, <2>3 DEF Invariant
<1> QED BY <1>1, <1>2, <1>3, PTL DEF Spec

\* A NodeBalancer goes away in two places only.
LEMMA Losses ==
  ASSUME Types, Next, NEW nb \in balancers \ balancers'
  PROVE  /\ svc' = svc
         /\ \E a \in Actors : \/ task[a].pc = "purge" /\ nb = task[a].old
                              \/ task[a].pc = "balancer" /\ nb = task[a].nb
<1>1. ASSUME NEW a \in Actors, Working(a)
      PROVE  /\ svc' = svc
             /\ \/ task[a].pc = "purge" /\ nb = task[a].old
                \/ task[a].pc = "balancer" /\ nb = task[a].nb
  <2>1. Purge(a) \/ DeleteNodeBalancer(a)
    BY <1>1 DEF Working, Lookup, UpdateNodeBalancer, CleanupOld, FindDeleted,
       DeleteReservedIPAddress, CallFails, GetLoadBalancer, linode
  <2> QED BY <2>1 DEF Purge, DeleteNodeBalancer, At
<1>2. ASSUME balancers \subseteq balancers'
      PROVE  FALSE
  BY <1>2
<1>3. ASSUME NEW a \in Actors, CreateNodeBalancer(a)
      PROVE  FALSE
  BY <1>3 DEF CreateNodeBalancer
<1>4. ASSUME NEW n \in Names, \/ BeginSync(n) \/ BeginNodeSync(n) \/ PatchStatus(n)
                              \/ RemoveFinalizer(n) \/ User(n)
      PROVE  FALSE
  BY <1>2, <1>4, BeginSyncTypes, BeginNodeTypes, PatchTypes, FinalizerTypes, UserTypes DEF linode
<1>5. CASE BeginDeletion
  BY <1>2, <1>5, BeginDeletionTypes DEF linode
<1> QED BY <1>1, <1>3, <1>4, <1>5, Steps

\* Only a Service's own handlers delete the NodeBalancer it has.
LEMMA LossesOwn ==
  ASSUME Separate, Invariant, Next, NEW n \in Names, Current(n) \in balancers \ balancers'
  PROVE  /\ svc[n].phase # "wanted"
         /\ svc[n].phase # "absent" => ~svc[n].ann.preserve
<1>0. Types /\ TypeOK
  BY DEF Invariant, Types
<1>1. PICK a \in Actors : \/ task[a].pc = "purge" /\ Current(n) = task[a].old
                          \/ task[a].pc = "balancer" /\ Current(n) = task[a].nb
  BY <1>0, Losses
<1>2. PICK owner \in [OwnNBs -> Names] : Ownership(owner)
  BY DEF Invariant, Owners
<1>3. Current(n) # None
  BY <1>0, NBAssumption DEF TypeOK, NBs
<1> DEFINE s == task[a].snap
<1>4. s.name \in Names /\ Own(owner, s.name, Current(n)) /\ Owns(owner, s)
  BY <1>0, <1>1, <1>2, SMT DEF Ownership, TypeOK, Tasks, Services
<1>5. Own(owner, n, Current(n))
  BY <1>0, <1>2 DEF Ownership, Owns, Own, Current, TypeOK
<1>6. s.name = n
  BY <1>0, <1>2, <1>3, <1>4, <1>5, Distinct
<1>7. CASE task[a].pc = "purge"
  <2>1. s.ann.id \notin {None, task[a].old} /\ Current(n) = task[a].old
    BY <1>1, <1>7 DEF Invariant, Purging
  <2>2. a[1] # "node"
    <3> SUFFICES ASSUME a[1] = "node"
                 PROVE  FALSE
      OBVIOUS
    <3>1. NodeSync
      BY <1>7, Forms DEF Invariant, Purging
    <3> QED BY <1>4, <2>1, <3>1 DEF Owns, Separate
  <2>3. a = <<"sync", n>>
    BY <1>0, <1>6, <1>7, <2>2, Forms DEF Types, Roles, CallsOf
  <2>4. CASE svc[n].phase = "absent"
    BY <2>4
  <2>5. CASE svc[n].phase # "absent"
    <3>1. task[a].old = svc[n].status
      BY <1>7, <2>3, <2>5 DEF Invariant, Purging
    <3>2. Moves(svc[n].ann, n)
      BY <1>7, <2>1, <2>3, <2>5, <3>1 DEF Invariant, Leaving, Moves
    <3> QED BY <2>1, <3>1, <3>2 DEF Moves, Current
  <2> QED BY <2>4, <2>5
<1>8. CASE task[a].pc = "balancer"
  BY <1>6, <1>8 DEF Invariant, Deleting, Ended, Closing
<1> QED BY <1>1, <1>7, <1>8

\* No handler deletes the NodeBalancer that a Service of type LoadBalancer has, whatever
\* calls fail and whatever users do to any number of Services: as long as names are not
\* used again, no two Services may name the same NodeBalancer, and no node comes or goes
\* where Services name NodeBalancers.
THEOREM CurrentKeptHolds ==
  ASSUME Separate
  PROVE  Spec => CurrentKept
<1>1. Invariant /\ [Next]_vars =>
        [\A n \in Names : svc[n].phase = "wanted" => Current(n) \notin balancers \ balancers']_vars
  BY LossesOwn
<1> QED BY <1>1, InvariantHolds, PTL DEF Spec, CurrentKept

\* Under the same assumptions a Service with the annotation preserve does not lose its
\* NodeBalancer when it is deleted or given another type.
THEOREM PreservedKeptHolds ==
  ASSUME Separate
  PROVE  Spec => PreservedKept
<1>1. Invariant /\ [Next]_vars =>
        [\A n \in Names :
           svc[n].phase \in {"unwanted", "deleting"} /\ svc[n].ann.preserve
             => Current(n) \notin balancers \ balancers']_vars
  <2> SUFFICES ASSUME Invariant, Next, NEW n \in Names,
                      svc[n].phase \in {"unwanted", "deleting"}, svc[n].ann.preserve,
                      Current(n) \in balancers \ balancers'
               PROVE  FALSE
    OBVIOUS
  <2>1. svc[n].phase # "absent"
    OBVIOUS
  <2> QED BY <2>1, LossesOwn
<1> QED BY <1>1, InvariantHolds, PTL DEF Spec, PreservedKept

-----------------------------------------------------------------------------
\* What the memory of NodeBalancers rests on.

\* No Service names a NodeBalancer or preserves one, and the status is written.
Plain ==
    /\ \A n \in Names : \A ann \in Anns[n] : ann.id = None /\ ~ann.preserve
    /\ "patch" \notin Failing

\* A Service has a NodeBalancer only while it has the finalizer.
Guarded(n) ==
    LET s == svc[n] IN
    /\ s.phase = "absent" => ~s.finalizer
    /\ ~s.finalizer => s.status = None
    /\ s.ann.id = None /\ ~s.ann.preserve

\* The finalizer and the status stay while a handler is at work.
Watched(n) ==
    LET t == task[<<"sync", n>>] IN
    t.pc # "idle" => /\ svc[n].finalizer /\ t.snap.status = svc[n].status
                     /\ t.snap.ann.id = None /\ ~t.snap.ann.preserve

\* A handler has the NodeBalancer of the status, or a new one when there is none.
Held(n) ==
    LET t == task[<<"sync", n>>]
        status == svc[n].status
    IN  /\ {status, t.nb} \cap OwnNBs \subseteq created
        /\ t.pc = "idle" => t.nb = None
        /\ \/ t.nb \in {None, status}
           \/ t.pc \in {"cleanup", "patch"} /\ status \notin balancers
        /\ t.pc \in {"create", "finalizer"} => status \notin balancers

Remembered(n) == Guarded(n) /\ Watched(n) /\ Held(n)

Memory == Types /\ NoneForgotten /\ \A n \in Names : Remembered(n)

\* What a handler that synchronises a Service does, between its start and its end.
LEMMA Remembering ==
  ASSUME Plain, Types, NEW n \in Names, Remembered(n), Working(<<"sync", n>>)
  PROVE  LET a == <<"sync", n>> IN
         /\ task[a].pc \notin {"idle", "patch"}
         /\ task[a].pc = "cleanup" => task'[a].pc = "patch" /\ task'[a].nb = task[a].nb
         /\ task[a].pc # "cleanup" => task'[a].nb \in {None, svc[n].status}
         /\ task'[a].pc \in {"create", "finalizer"} => svc[n].status \notin balancers'
<1> DEFINE a == <<"sync", n>>
           s == task[a].snap
           found == Found(svc[n].status)
<1>0. TypeOK /\ Roles /\ a \in Actors /\ a[1] = "sync" /\ task[a] \in Tasks
  BY Forms DEF Types, TypeOK
<1>1. task[a].pc \notin {"idle", "patch"}
  BY CallsAssumption, ZenonT(30) DEF Working, Lookup, UpdateNodeBalancer, CleanupOld, Purge, FindDeleted,
     DeleteReservedIPAddress, DeleteNodeBalancer, CallFails, GetLoadBalancer, At, Plain, Calls
<1>2. /\ s.ann.id = None /\ ~s.ann.preserve /\ s.status = svc[n].status
      /\ svc[n].finalizer /\ svc[n].phase # "absent"
  BY <1>1 DEF Remembered, Guarded, Watched
<1>3. s.name = n
  BY <1>0, <1>1 DEF Roles
<1>4. getNodeBalancerForService(s) = found /\ found \in {None, svc[n].status}
  BY <1>2, <1>3 DEF getNodeBalancerForService, getNodeBalancerByStatus, LatestStatus, Found
<1>5. found = None => svc[n].status \notin balancers
  BY <1>0, NBAssumption DEF Found, TypeOK, NBs
<1>6. task'[a] = Idle \/ Goes(a)
  BY <1>0, <1>1, WorkingSteps DEF Roles
<1>7. balancers' \subseteq balancers
  BY <1>0, <1>1, WorkingSteps DEF Roles
<1>8. ASSUME NEW call \in Calls, Goto(a, call)
      PROVE  task'[a].pc = call /\ task'[a].nb = task[a].nb
  BY <1>0, <1>8 DEF Goto, TypeOK, Tasks
<1>9. ASSUME task[a].pc = "cleanup"
      PROVE  task'[a].pc = "patch" /\ task'[a].nb = task[a].nb
  <2>1. CleanupOld(a)
    BY <1>2, <1>9 DEF Working, Lookup, UpdateNodeBalancer, Purge, FindDeleted,
       DeleteReservedIPAddress, DeleteNodeBalancer, CallFails, GetLoadBalancer, At
  <2>2. Goto(a, "patch")
    BY <1>0, <1>2, <2>1 DEF CleanupOld, AfterCleanup
  <2> QED BY <1>8, <2>2 DEF Calls
<1>10. ASSUME task[a].pc # "cleanup"
       PROVE  task'[a].nb \in {None, svc[n].status}
  <2>1. task[a].nb \in {None, svc[n].status}
    BY <1>1, <1>10 DEF Remembered, Held
  <2> QED BY <1>4, <1>6, <2>1, IdleTyped DEF Goes
<1>11. ASSUME task'[a].pc \in {"create", "finalizer"}
       PROVE  svc[n].status \notin balancers'
  <2>1. Goes(a)
    BY <1>6, <1>11, IdleTyped
  <2>2. None \notin balancers
    BY <1>0, NBAssumption DEF TypeOK, NBs
  <2>3. CASE found = None \/ svc[n].status = None
    BY <1>5, <1>7, <2>2, <2>3
  <2>4. CASE task[a].pc = "balancer" /\ task[a].nb \notin balancers'
    <3>1. task[a].nb = svc[n].status
      BY <1>0, <2>4 DEF Remembered, Held, TypeOK
    <3> QED BY <2>4, <3>1
  <2> QED BY <1>2, <1>4, <1>11, <2>1, <2>3, <2>4 DEF Goes, Finishing
<1> QED BY <1>1, <1>9, <1>10, <1>11, SMTT(30)

\* The NodeBalancers that are known for a Service.
Known(n) == {task[<<"sync", n>>].nb, svc[n].status}

\* A step keeps what is remembered for a Service.
LEMMA RememberedKept ==
  ASSUME Plain, Types, NEW n \in Names, Remembered(n), Next
  PROVE  Remembered(n)' /\ Known(n) \cap balancers \cap balancers' \subseteq Known(n)'
<1> DEFINE a == <<"sync", n>>
           Res == Remembered(n)' /\ Known(n) \cap balancers \cap balancers' \subseteq Known(n)'
<1>0. TypeOK /\ Roles /\ a \in Actors /\ None \notin balancers /\ a # <<"ccm">>
  BY Forms, NBAssumption DEF Types, TypeOK, NBs
<1>1. \A m \in Names : <<"node", m>> # a /\ (m # n => <<"sync", m>> # a)
  OBVIOUS
<1>2. ASSUME svc'[n] = svc[n], task'[a] = task[a], created \subseteq created',
             svc[n].status \notin balancers => svc[n].status \notin balancers'
      PROVE  Res
  <2>1. Guarded(n)' /\ Watched(n)'
    BY <1>2 DEF Remembered, Guarded, Watched
  <2>2. Held(n)'
    BY <1>2 DEF Remembered, Held
  <2> QED BY <1>2, <2>1, <2>2 DEF Remembered, Known
<1>3. ASSUME NEW b \in Actors, Working(b)
      PROVE  Res
  <2>1. /\ svc' = svc /\ created' = created /\ balancers' \subseteq balancers
        /\ \A c \in Actors \ {b} : task'[c] = task[c]
        /\ task'[b] = Idle \/ Goes(b)
    BY <1>0, <1>3, WorkingSteps DEF Roles
  <2>2. CASE b # a
    BY <1>0, <1>2, <2>1, <2>2
  <2>3. CASE b = a
    <3>1. /\ task[a].pc \notin {"idle", "patch"}
          /\ task[a].pc = "cleanup" => task'[a].pc = "patch" /\ task'[a].nb = task[a].nb
          /\ task[a].pc # "cleanup" => task'[a].nb \in {None, svc[n].status}
          /\ task'[a].pc \in {"create", "finalizer"} => svc[n].status \notin balancers'
      BY <1>3, <2>3, Remembering
    <3>2. task'[a].pc # "idle" => task'[a].snap = task[a].snap
      BY <2>1, <2>3, IdleTyped DEF Goes
    <3>3. task'[a].pc = "idle" => task'[a].nb = None
      BY <2>1, <2>3, IdleTyped DEF Goes
    <3>4. Guarded(n)'
      BY <2>1 DEF Remembered, Guarded
    <3>5. Watched(n)'
      BY <2>1, <3>1, <3>2 DEF Remembered, Watched
    <3>6. Held(n)'
      BY <2>1, <3>1, <3>3, NBAssumption, SMTT(30) DEF Remembered, Held, NBs
    <3>7. Known(n) \cap balancers \subseteq Known(n)'
      BY <1>0, <2>1, <3>1 DEF Remembered, Held, Known
    <3> QED BY <3>4, <3>5, <3>6, <3>7 DEF Remembered
  <2> QED BY <2>2, <2>3
<1>4. ASSUME NEW b \in Actors, CreateNodeBalancer(b)
      PROVE  Res
  <2>1. /\ svc' = svc /\ task[b].pc = "create" /\ \A c \in Actors \ {b} : task'[c] = task[c]
    BY <1>4, CreateTypes
  <2>2. PICK nb \in OwnNBs \ created :
              /\ created' = created \cup {nb} /\ balancers' = balancers \cup {nb}
              /\ task'[b].pc = "cleanup" /\ task'[b].nb = nb
              /\ task'[b].snap = task[b].snap
    BY <1>4, CreateTypes
  <2>3. svc[n].status # nb
    BY <2>2 DEF Remembered, Held
  <2>4. CASE b # a
    BY <1>0, <1>2, <2>1, <2>2, <2>3, <2>4
  <2>5. CASE b = a
    <3>1. svc[n].status \notin balancers /\ task[a].nb \in {None, svc[n].status}
      BY <2>1, <2>5 DEF Remembered, Held
    <3>2. Guarded(n)' /\ Watched(n)'
      BY <2>1, <2>2, <2>5 DEF Remembered, Guarded, Watched
    <3>4. Held(n)'
      BY <2>1, <2>2, <2>3, <2>5, <3>1 DEF Remembered, Held
    <3>3. Known(n) \cap balancers \subseteq Known(n)'
      BY <1>0, <2>1, <3>1 DEF Known
    <3> QED BY <3>2, <3>3, <3>4 DEF Remembered
  <2> QED BY <2>4, <2>5
<1>5. ASSUME NEW m \in Names, BeginSync(m)
      PROVE  Res
  <2>1. CASE m # n
    <3>1. /\ svc'[n] = svc[n] /\ created' = created /\ balancers' = balancers
          /\ \A c \in Actors \ {<<"sync", m>>} : task'[c] = task[c]
      <4>1. /\ \A k \in Names \ {m} : svc'[k] = svc[k]
            /\ \A c \in Actors \ {<<"sync", m>>} : task'[c] = task[c]
        BY <1>5, BeginSyncTypes
      <4> QED BY <1>5, <2>1, <4>1 DEF BeginSync, linode
    <3> QED BY <1>0, <1>1, <1>2, <2>1, <3>1
  <2>2. CASE m = n
    <3>1. /\ created' = created /\ balancers' = balancers /\ task[a].pc = "idle"
          /\ task'[a].snap = svc[n] /\ task'[a].nb = None /\ task'[a].pc \in {"lookup", "get"}
          /\ svc'[n].phase = svc[n].phase /\ svc'[n].ann = svc[n].ann /\ svc'[n].status = svc[n].status
          /\ svc'[n].finalizer /\ (svc[n].phase = "wanted" \/ svc[n].finalizer)
      BY <1>5, <2>2, BeginSyncTypes DEF linode
    <3>2. Guarded(n)' /\ Watched(n)'
      BY <3>1 DEF Remembered, Guarded, Watched
    <3>3. Held(n)'
      BY <3>1, NBAssumption DEF Remembered, Held, NBs
    <3>4. Known(n) \cap balancers \subseteq Known(n)'
      BY <1>0, <3>1 DEF Known, Remembered, Held
    <3> QED BY <3>2, <3>3, <3>4 DEF Remembered
  <2> QED BY <2>1, <2>2
<1>6. ASSUME NEW m \in Names, BeginNodeSync(m)
      PROVE  Res
  BY <1>0, <1>1, <1>2, <1>6, BeginNodeTypes DEF linode
<1>7. ASSUME NEW m \in Names, PatchStatus(m)
      PROVE  Res
  <2>1. CASE m # n
    <3>1. /\ svc'[n] = svc[n] /\ created' = created /\ balancers' = balancers
          /\ \A c \in Actors \ {<<"sync", m>>} : task'[c] = task[c]
      BY <1>7, <2>1, PatchTypes DEF linode
    <3> QED BY <1>0, <1>1, <1>2, <2>1, <3>1
  <2>2. CASE m = n
    <3>1. /\ created' = created /\ balancers' = balancers /\ task[a].pc = "patch"
          /\ task'[a] = Idle /\ svc'[n].status = task[a].nb
          /\ svc'[n].phase = svc[n].phase /\ svc'[n].ann = svc[n].ann /\ svc'[n].finalizer = svc[n].finalizer
      BY <1>7, <2>2, PatchTypes DEF linode
    <3>2. Idle.pc = "idle" /\ Idle.nb = None /\ None \notin OwnNBs
      BY IdleTyped, NBAssumption DEF NBs
    <3>3. svc[n].finalizer
      BY <3>1 DEF Remembered, Watched
    <3>4. Guarded(n)' /\ Watched(n)'
      BY <3>1, <3>2, <3>3 DEF Remembered, Guarded, Watched
    <3>5. Held(n)'
      BY <3>1, <3>2 DEF Remembered, Held
    <3>6. Known(n) \cap balancers \subseteq Known(n)'
      BY <1>0, <3>1, <3>2 DEF Known, Remembered, Held, TypeOK
    <3> QED BY <3>4, <3>5, <3>6 DEF Remembered
  <2> QED BY <2>1, <2>2
<1>8. ASSUME NEW m \in Names, RemoveFinalizer(m)
      PROVE  Res
  <2>1. CASE m # n
    BY <1>0, <1>1, <1>2, <1>8, <2>1, FinalizerTypes DEF linode
  <2>2. CASE m = n
    <3>1. created' = created /\ balancers' = balancers /\ task[a].pc = "finalizer" /\ task'[a] = Idle
      BY <1>8, <2>2, FinalizerTypes DEF linode
    <3>2. svc'[n] = Absent(n) \/ /\ svc'[n].ann = svc[n].ann
                                 /\ svc'[n].status = None /\ svc'[n].finalizer = FALSE
      BY <1>8, <2>2, FinalizerTypes
    <3>3. /\ svc'[n].status = None /\ svc'[n].finalizer = FALSE
          /\ svc'[n].ann.id = None /\ ~svc'[n].ann.preserve
      <4>1. /\ Absent(n).status = None /\ Absent(n).finalizer = FALSE
            /\ Absent(n).ann.id = None /\ ~Absent(n).ann.preserve
        BY DEF Absent
      <4> QED BY <3>2, <4>1 DEF Remembered, Guarded
    <3>4. Idle.pc = "idle" /\ Idle.nb = None /\ None \notin OwnNBs
      BY IdleTyped, NBAssumption DEF NBs
    <3>5. Guarded(n)' /\ Watched(n)'
      BY <3>1, <3>3, <3>4 DEF Guarded, Watched
    <3>6. Held(n)'
      BY <3>1, <3>3, <3>4 DEF Held
    <3>7. Known(n) \cap balancers \subseteq Known(n)'
      BY <1>0, <3>1 DEF Known, Remembered, Held
    <3> QED BY <3>5, <3>6, <3>7 DEF Remembered
  <2> QED BY <2>1, <2>2
<1>9. ASSUME NEW m \in Names, User(m)
      PROVE  Res
  <2>1. task' = task /\ created' = created /\ balancers' = balancers
    BY <1>9, UserTypes DEF linode
  <2>2. CASE m # n
    BY <1>2, <1>9, <2>1, <2>2, UserTypes
  <2>3. CASE m = n
    <3>1. CASE /\ svc'[n].status = None /\ svc'[n].finalizer = FALSE /\ svc[n].finalizer = FALSE
               /\ svc'[n].ann.id = None /\ ~svc'[n].ann.preserve
      <4>1. task[a].pc = "idle" /\ svc[n].status = None
        BY <3>1 DEF Remembered, Guarded, Watched
      <4>2. Guarded(n)' /\ Watched(n)'
        BY <2>1, <3>1, <4>1 DEF Guarded, Watched
      <4>3. Held(n)' /\ Known(n) \subseteq Known(n)'
        BY <2>1, <3>1, <4>1 DEF Remembered, Held, Known
      <4> QED BY <4>2, <4>3 DEF Remembered
    <3>2. CASE /\ svc'[n].status = svc[n].status /\ svc'[n].finalizer = svc[n].finalizer
               /\ svc'[n].phase # "absent"
               /\ svc'[n].ann.id = None /\ ~svc'[n].ann.preserve
      <4>1. Guarded(n)' /\ Watched(n)'
        BY <2>1, <3>2 DEF Remembered, Guarded, Watched
      <4>2. Held(n)' /\ Known(n) \subseteq Known(n)'
        BY <2>1, <3>2 DEF Remembered, Held, Known
      <4> QED BY <4>1, <4>2 DEF Remembered
    <3>3. /\ svc[n].phase = "absent" => ~svc[n].finalizer
          /\ svc[n].ann.id = None /\ ~svc[n].ann.preserve
          /\ svc[n].finalizer \in BOOLEAN
      BY <1>0 DEF Remembered, Guarded, TypeOK, Services
    <3>4. \A ann \in Anns[n] : ann.id = None /\ ~ann.preserve
      BY DEF Plain
    <3>5. /\ Absent(n).status = None /\ Absent(n).finalizer = FALSE
          /\ Absent(n).ann.id = None /\ ~Absent(n).ann.preserve
      BY DEF Absent
    <3> QED BY <1>9, <2>3, <3>1, <3>2, <3>3, <3>4, <3>5, UserTypes DEF Admissible
  <2> QED BY <2>2, <2>3
<1>10. CASE BeginDeletion
  BY <1>0, <1>2, <1>10, BeginDeletionTypes DEF linode
<1> QED BY <1>3, <1>4, <1>5, <1>6, <1>7, <1>8, <1>9, <1>10, Steps

\* Every NodeBalancer that the CCM made is in the status of its Service, or in the hands
\* of the handler that is to write it there, until it is deleted: whatever calls fail,
\* other than the one that writes the status, and whatever users do, as long as Services
\* neither name NodeBalancers nor preserve them.
THEOREM NoneForgottenHolds ==
  ASSUME Plain
  PROVE  Spec => []NoneForgotten
<1>1. Init => Memory
  <2> SUFFICES ASSUME Init
               PROVE  Memory
    OBVIOUS
  <2>1. NoneForgotten
    BY Fresh, NBAssumption DEF NoneForgotten
  <2>2. ASSUME NEW n \in Names
        PROVE  Remembered(n)
    <3>1. task[<<"sync", n>>] = Idle
      BY Fresh, Forms
    <3>2. Guarded(n) /\ Watched(n)
      BY <3>1, Fresh, IdleTyped DEF Guarded, Watched, Plain
    <3>3. Held(n)
      <4>1. svc[n].status = None
        BY Fresh
      <4> QED BY <3>1, <4>1, IdleTyped, NBAssumption DEF Held, NBs
    <3> QED BY <3>2, <3>3 DEF Remembered
  <2> QED BY <2>1, <2>2, Fresh DEF Memory
<1>2. Memory /\ Next => Memory'
  <2> SUFFICES ASSUME Memory, Next
               PROVE  Memory'
    OBVIOUS
  <2>1. Types /\ Types' /\ NoneForgotten
    BY TypesKept DEF Memory
  <2>2. ASSUME NEW n \in Names
        PROVE  Remembered(n)' /\ Known(n) \cap balancers \cap balancers' \subseteq Known(n)'
    BY <2>1, RememberedKept DEF Memory
  <2>3. ASSUME NEW nb \in balancers' \cap OwnNBs
        PROVE  \E n \in Names : nb \in Known(n)'
    <3>1. CASE nb \in balancers
      <4>1. PICK n \in Names : nb \in Known(n)
        BY <2>1, <2>3, <3>1, SMT DEF NoneForgotten, Owned, Known
      <4> QED BY <2>2, <2>3, <3>1, <4>1
    <3>2. CASE nb \notin balancers
      <4>1. PICK a \in Actors : CreateNodeBalancer(a)
        <5>1. ASSUME balancers' \subseteq balancers
              PROVE  FALSE
          BY <2>3, <3>2, <5>1
        <5>2. \A a \in Actors : ~Working(a)
          BY <2>1, <5>1, WorkingSteps DEF Types, Roles
        <5>3. \A n \in Names : ~(BeginSync(n) \/ BeginNodeSync(n) \/ PatchStatus(n)
                                  \/ RemoveFinalizer(n) \/ User(n))
          BY <2>1, <5>1, BeginSyncTypes, BeginNodeTypes, PatchTypes, FinalizerTypes, UserTypes,
             Zenon DEF linode
        <5>4. ~BeginDeletion
          BY <2>1, <5>1, BeginDeletionTypes DEF linode
        <5> QED BY <5>2, <5>3, <5>4, Steps
      <4>2. a[1] = "sync" /\ task'[a].nb = nb
        BY <2>1, <2>3, <3>2, <4>1, CreateTypes
      <4>3. a[2] \in Names /\ a = <<"sync", a[2]>>
        BY <4>2, Forms
      <4> QED BY <4>2, <4>3 DEF Known
    <3> QED BY <3>1, <3>2
  <2>4. NoneForgotten'
    BY <2>3, SMTT(30) DEF NoneForgotten, Owned, Known
  <2> QED BY <2>1, <2>2, <2>4 DEF Memory
<1>3. Memory /\ UNCHANGED vars => Memory'
  <2> SUFFICES ASSUME Memory, UNCHANGED vars
               PROVE  Memory'
    OBVIOUS
  <2>1. Types'
    BY TypesKept DEF Memory
  <2>2. NoneForgotten'
    BY DEF Memory, NoneForgotten, Owned, vars
  <2>3. \A n \in Names : Remembered(n)'
    BY DEF Memory, Remembered, Guarded, Watched, Held, vars
  <2> QED BY <2>1, <2>2, <2>3 DEF Memory
<1>4. Memory => NoneForgotten
  BY DEF Memory
<1> QED BY <1>1, <1>2, <1>3, <1>4, PTL DEF Spec
=============================================================================
