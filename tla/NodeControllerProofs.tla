------------------------ MODULE NodeControllerProofs ------------------------
(***************************************************************************)
(* NodeController: the types, that no older copy of a node is handled      *)
(* after a newer one, and that nothing others write is undone, for every   *)
(* set of nodes and every bound.                                           *)
(***************************************************************************)
EXTENDS NodeController, TLAPS

\* Leaves are first-order, but those that cite SMT.
USE Zenon

\* The requests that have not been handled to the end.
Current == IF task \in {Idle, Listing} THEN {} ELSE {task.request}
Pending == Range(queue) \cup waiting \cup Current

\* The requests of a node carry copies the informer has had.
NotAhead ==
    /\ \A n \in Names : seen[n] <= informer[n].version
    /\ \A r \in Pending : r.object.version <= informer[r.node].version

\* The newest requests of a node carry one copy, no older than what was handled.
NewestAgree ==
    /\ \A r \in Pending : r.age = "newest" => seen[r.node] <= r.object.version
    /\ \A r, s \in Pending : r.age = "newest" /\ s.age = "newest" /\ r.node = s.node
                               => r.object.version = s.object.version

IInv == TypeOK /\ NotAhead /\ NewestAgree

-----------------------------------------------------------------------------
\* What the actions do to the pending requests.

\* The elements of a sequence after Tail and Append.
LEMMA Elements ==
    ASSUME NEW S, NEW s \in Seq(S)
    PROVE  /\ Range(s) \subseteq S
           /\ s # <<>> => /\ Head(s) \in Range(s)
                          /\ Tail(s) \in Seq(S)
                          /\ Range(Tail(s)) \subseteq Range(s)
           /\ \A e \in S : Append(s, e) \in Seq(S) /\ Range(Append(s, e)) = Range(s) \cup {e}
<1>1. Range(s) \subseteq S
  BY SMT DEF Range
<1>2. ASSUME s # <<>>
      PROVE  /\ Head(s) \in Range(s)
             /\ Tail(s) \in Seq(S)
             /\ Range(Tail(s)) \subseteq Range(s)
  <2>1. Len(s) \in Nat /\ Len(s) > 0 /\ DOMAIN s = 1 .. Len(s)
    BY <1>2, SMT
  <2>2. Head(s) \in Range(s)
    BY <2>1, SMT DEF Range
  <2>3. Tail(s) \in Seq(S) /\ Len(Tail(s)) = Len(s) - 1
    BY <1>2, SMT
  <2>4. \A i \in 1 .. Len(s) - 1 : Tail(s)[i] = s[i + 1] /\ i + 1 \in DOMAIN s
    BY <1>2, <2>1, SMT
  <2>5. DOMAIN Tail(s) = 1 .. Len(s) - 1
    BY <2>3, SMT
  <2> QED BY <2>2, <2>3, <2>4, <2>5 DEF Range
<1>3. ASSUME NEW e \in S
      PROVE  Append(s, e) \in Seq(S) /\ Range(Append(s, e)) = Range(s) \cup {e}
  <2>1. Append(s, e) \in Seq(S) /\ Len(Append(s, e)) = Len(s) + 1 /\ Len(s) \in Nat
    BY SMT
  <2>2. DOMAIN Append(s, e) = 1 .. Len(s) + 1 /\ DOMAIN s = 1 .. Len(s)
    BY <2>1, SMT
  <2>3. \A i \in 1 .. Len(s) : Append(s, e)[i] = s[i]
    BY SMT
  <2>4. Append(s, e)[Len(s) + 1] = e
    BY SMT
  <2>5. \A i \in DOMAIN Append(s, e) : i \in DOMAIN s \/ i = Len(s) + 1
    BY <2>1, <2>2, SMT
  <2>6. DOMAIN s \subseteq DOMAIN Append(s, e) /\ Len(s) + 1 \in DOMAIN Append(s, e)
    BY <2>1, <2>2, SMT
  <2> QED BY <2>1, <2>2, <2>3, <2>4, <2>5, <2>6 DEF Range
<1> QED BY <1>1, <1>2, <1>3

\* addNodeToQueue keeps the types; it adds one newest request and leaves the others
\* of its node outdated.
LEMMA Adding ==
    ASSUME TypeOK, NEW n \in Names, NEW object \in Objects, addNodeToQueue(n, object)
    PROVE  /\ queue' \in Seq(Requests)
           /\ waiting' \subseteq Requests
           /\ task' \in Busy \cup {Idle, Listing}
           /\ task'.pc = "update" => task'.got.phase # "absent"
           /\ \A r \in Pending' :
                \/ r = [node |-> n, object |-> object, age |-> "newest"]
                \/ \E s \in Pending : r = Outdated(s, n)
<1> DEFINE new == [node |-> n, object |-> object, age |-> "newest"]
           old == [i \in DOMAIN queue |-> Outdated(queue[i], n)]
<1>0. /\ queue \in Seq(Requests) /\ waiting \subseteq Requests
      /\ task \in Busy \cup {Idle, Listing}
      /\ task.pc = "update" => task.got.phase # "absent"
  BY DEF TypeOK
<1>1. new \in Requests
  BY DEF Requests
<1>2. \A r \in Requests : Outdated(r, n) \in Requests
  BY DEF Outdated, Requests
<1>3. old \in Seq(Requests)
  <2>1. Len(queue) \in Nat /\ DOMAIN queue = 1 .. Len(queue)
    BY <1>0, SMT
  <2>2. \A i \in 1 .. Len(queue) : queue[i] \in Requests
    BY <1>0, SMT
  <2>3. old \in [1 .. Len(queue) -> Requests]
    BY <2>1, <2>2, <1>2
  <2> QED BY <2>1, <2>3, SMT
<1>4. queue' = Append(old, new) /\ waiting' = {Outdated(r, n) : r \in waiting}
  BY DEF addNodeToQueue
<1>5. queue' \in Seq(Requests) /\ Range(queue)' = Range(old) \cup {new}
  <2> HIDE DEF new, old
  <2>1. Append(old, new) \in Seq(Requests) /\ Range(Append(old, new)) = Range(old) \cup {new}
    BY <1>1, <1>3, Elements
  <2>2. Range(queue)' = Range(queue')
    BY DEF Range
  <2> QED BY <2>1, <2>2, <1>4
<1>6. waiting' \subseteq Requests
  BY <1>0, <1>2, <1>4
<1>7. /\ task' \in Busy \cup {Idle, Listing}
      /\ task'.pc = "update" => task'.got.phase # "absent"
      /\ \A r \in Current' : \E s \in Current : r = Outdated(s, n)
  <2>1. CASE task \in {Idle, Listing}
    <3>1. task' = task
      BY <2>1 DEF addNodeToQueue
    <3> QED BY <2>1, <3>1, <1>0 DEF Current
  <2>2. CASE task \notin {Idle, Listing}
    <3>1. task \in Busy
      BY <2>2, <1>0
    <3>2. task' = Job(task.pc, Outdated(task.request, n), task.want, task.got, task.tries)
      BY <2>2 DEF addNodeToQueue
    <3>3. task' \in Busy
      BY <3>1, <3>2, <1>2 DEF Busy, Job
    <3>4. task'.pc = task.pc /\ task'.got = task.got /\ task'.request = Outdated(task.request, n)
      BY <3>2 DEF Job
    <3>5. task' \notin {Idle, Listing}
      BY <3>3, SMT DEF Busy, Idle, Listing
    <3> QED BY <2>2, <3>3, <3>4, <3>5, <1>0 DEF Current
  <2> QED BY <2>1, <2>2
<1>8. \A r \in Range(old) : \E s \in Range(queue) : r = Outdated(s, n)
  BY DEF Range
<1> QED BY <1>4, <1>5, <1>6, <1>7, <1>8 DEF Pending

\* The pending requests are requests.
LEMMA PendingTyped == TypeOK => Pending \subseteq Requests
<1> SUFFICES ASSUME TypeOK PROVE Pending \subseteq Requests
  OBVIOUS
<1>1. Range(queue) \subseteq Requests
  BY Elements DEF TypeOK
<1>2. Current \subseteq Requests
  BY DEF TypeOK, Current, Busy
<1> QED BY <1>1, <1>2 DEF Pending, TypeOK

\* A step that adds no request keeps both invariants.
LEMMA NoneAdded ==
    ASSUME IInv, TypeOK', Pending' \subseteq Pending, seen' = seen,
           \A n \in Names : informer[n].version <= informer'[n].version
    PROVE  NotAhead' /\ NewestAgree'
<1>1. /\ \A n \in Names : seen[n] \in Nat /\ informer[n].version \in Nat /\ informer'[n].version \in Nat
      /\ \A r \in Pending : r.node \in Names /\ r.object.version \in Nat
  <2>1. Pending \subseteq Requests
    BY PendingTyped DEF IInv
  <2> QED BY <2>1, SMTT(30) DEF IInv, TypeOK, Requests, Objects
<1>2. NotAhead'
  BY <1>1, SMT DEF IInv, NotAhead
<1>3. NewestAgree'
  BY DEF IInv, NewestAgree
<1> QED BY <1>2, <1>3

\* A request is added with the copy that the informer comes to have.
LEMMA OneAdded ==
    ASSUME IInv, TypeOK', seen' = seen, NEW n \in Names, NEW object \in Objects,
           \A m \in Names : informer[m].version <= informer'[m].version,
           object.version = informer'[n].version,
           addNodeToQueue(n, object)
    PROVE  NotAhead' /\ NewestAgree'
<1> DEFINE new == [node |-> n, object |-> object, age |-> "newest"]
<1>1. \A m \in Names : seen[m] \in Nat /\ informer[m].version \in Nat /\ informer'[m].version \in Nat
  BY DEF IInv, TypeOK, Objects
<1>2. \A r \in Pending : r.node \in Names /\ r.object.version \in Nat
  <2>1. Pending \subseteq Requests
    BY PendingTyped DEF IInv
  <2> QED BY <2>1 DEF Requests, Objects
<1>3. \A r \in Pending' : r = new \/ \E s \in Pending : r = Outdated(s, n)
  BY Adding DEF IInv
<1>4. \A r \in Pending' :
        \/ r = new
        \/ /\ \E s \in Pending : r.node = s.node /\ r.object = s.object
           /\ r.node = n => r.age = "outdated"
           /\ r.node # n => r \in Pending
  BY <1>3, SMT DEF Outdated
<1>5. NotAhead'
  <2>1. \A m \in Names : seen[m] <= informer'[m].version
    BY <1>1, SMT DEF IInv, NotAhead
  <2>2. ASSUME NEW r \in Pending'
        PROVE  r.object.version <= informer'[r.node].version
    <3>1. CASE r = new
      BY <3>1, <1>1, SMT
    <3>2. CASE r # new
      <4>1. PICK s \in Pending : r.node = s.node /\ r.object = s.object
        BY <3>2, <1>4
      <4>2. s.object.version <= informer[s.node].version
        BY DEF IInv, NotAhead
      <4> QED BY <4>1, <4>2, <1>1, <1>2, SMT
    <3> QED BY <3>1, <3>2
  <2> QED BY <2>1, <2>2 DEF NotAhead
<1>6. NewestAgree'
  <2>1. ASSUME NEW r \in Pending', r.age = "newest"
        PROVE  seen[r.node] <= r.object.version /\ (r = new \/ (r.node # n /\ r \in Pending))
    <3>1. CASE r = new
      BY <3>1, <1>1, SMT DEF IInv, NotAhead
    <3>2. CASE r # new
      <4>1. r.node # n /\ r \in Pending
        BY <2>1, <3>2, <1>4
      <4> QED BY <4>1, <2>1 DEF IInv, NewestAgree
    <3> QED BY <3>1, <3>2
  <2>2. ASSUME NEW r \in Pending', NEW s \in Pending', r.age = "newest", s.age = "newest",
               r.node = s.node
        PROVE  r.object.version = s.object.version
    <3>1. (r = new \/ (r.node # n /\ r \in Pending)) /\ (s = new \/ (s.node # n /\ s \in Pending))
      BY <2>1, <2>2
    <3> QED BY <3>1, <2>2, SMT DEF IInv, NewestAgree
  <2> QED BY <2>1, <2>2 DEF NewestAgree
<1> QED BY <1>5, <1>6

-----------------------------------------------------------------------------
\* Types.

\* The objects that are written are objects, and newer ones.
LEMMA UpdatedTyped ==
    ASSUME NEW object \in Objects, NEW want \in Metadata
    PROVE  /\ Updated(object, want) \in Objects
           /\ Updated(object, want).other = object.other
           /\ Updated(object, want).version >= object.version
<1> DEFINE meta == [a \in Attributes |-> IF want[a] # None THEN want[a] ELSE object.meta[a]]
<1>1. meta \in Metadata
  BY DEF Metadata, Objects
<1>2. object.other \in Nat /\ object.version \in Nat
  BY DEF Objects
<1> HIDE DEF meta
<1>3. Updated(object, want) = IF object.phase = "named" /\ object.meta = meta THEN object
                              ELSE Object("named", meta, object.other, object.version + 1)
  BY DEF Updated, meta
<1> QED BY <1>1, <1>2, <1>3, SMT DEF Object, Objects, Phases

\* Initially.
LEMMA InitIInv == Init => IInv
<1> SUFFICES ASSUME Init PROVE IInv
  OBVIOUS
<1>1. Missing \in Metadata /\ LinodeData \subseteq Metadata
  BY DEF Missing, Metadata, LinodeData
<1>2. linode \in [Names -> LinodeData] /\ known \in [Names -> LinodeData]
  BY DEF Init
<1>3. api \in [Names -> Objects] /\ \A n \in Names : api[n].version = 1
  <2>1. PICK old \in SUBSET Names :
          api = [n \in Names |-> IF n \in old THEN Object("named", linode[n], 0, 1)
                                 ELSE Object("unnamed", Missing, 0, 1)]
    BY DEF Init
  <2>2. \A n \in Names : /\ Object("named", linode[n], 0, 1) \in Objects
                         /\ Object("unnamed", Missing, 0, 1) \in Objects
    BY <1>1, <1>2 DEF Object, Objects, Phases
  <2>3. \A n \in Names : /\ Object("named", linode[n], 0, 1).version = 1
                         /\ Object("unnamed", Missing, 0, 1).version = 1
    BY DEF Object
  <2> QED BY <2>1, <2>2, <2>3
<1>4. informer \in [Names -> Objects] /\ \A n \in Names : informer[n].version = 0
  <2>1. Object("absent", Missing, 0, 0) \in Objects /\ Object("absent", Missing, 0, 0).version = 0
    BY <1>1 DEF Object, Objects, Phases
  <2> QED BY <2>1 DEF Init
<1>5. queue = <<>> /\ queue \in Seq(Requests) /\ Range(queue) = {}
  <2>1. queue = <<>>
    BY DEF Init
  <2>2. DOMAIN queue = {}
    BY <2>1, SMT
  <2> QED BY <2>1, <2>2, SMT DEF Range
<1>6. TypeOK
  <2>1. /\ waiting = {} /\ fresh = {} /\ registry = {} /\ listed = "old" /\ task = Idle
        /\ seen = [n \in Names |-> 0] /\ disruptions = 0
    BY DEF Init
  <2>2. disruptions \in 0 .. MaxDisruptions
    BY <2>1, BoundsAssumption, SMT
  <2>3. task.pc = "idle"
    BY <2>1 DEF Idle
  <2>4. seen \in [Names -> Nat]
    BY <2>1
  <2>5. ASSUME NEW n \in Names PROVE informer[n].version <= api[n].version
    <3>1. informer[n].version = 0 /\ api[n].version = 1
      BY <1>3, <1>4
    <3> QED BY <3>1, SMT
  <2> QED BY <1>2, <1>3, <1>4, <1>5, <2>1, <2>2, <2>3, <2>4, <2>5 DEF TypeOK
<1>7. Pending = {}
  BY <1>5 DEF Init, Pending, Current
<1>8. \A n \in Names : seen[n] = 0
  BY DEF Init
<1> QED BY <1>4, <1>6, <1>7, <1>8, SMT DEF IInv, NotAhead, NewestAgree

\* The informer's actions.
LEMMA InformerIInv ==
    ASSUME IInv, NEW n \in Names, Observe(n) \/ Resync(n)
    PROVE  IInv'
<1>0. TypeOK /\ api[n] \in Objects /\ informer[n] \in Objects
  BY DEF IInv, TypeOK
<1>1. CASE Observe(n) /\ There(n)
  <2>1. /\ informer' = [informer EXCEPT ![n] = api[n]]
        /\ addNodeToQueue(n, api[n])
        /\ UNCHANGED <<cloud, api, caches, seen, disruptions>>
    BY <1>1 DEF Observe
  <2>2. TypeOK'
    <3>1. /\ informer' \in [Names -> Objects]
          /\ \A m \in Names : informer'[m].version <= api'[m].version
      BY <1>0, <2>1, SMT DEF TypeOK, Objects
    <3>2. /\ queue' \in Seq(Requests) /\ waiting' \subseteq Requests
          /\ task' \in Busy \cup {Idle, Listing}
          /\ task'.pc = "update" => task'.got.phase # "absent"
      BY <1>0, <2>1, Adding
    <3> QED BY <1>0, <2>1, <3>1, <3>2 DEF TypeOK, cloud, caches
  <2>3. \A m \in Names : informer[m].version <= informer'[m].version
    BY <1>0, <2>1, SMT DEF TypeOK, Objects
  <2>4. api[n].version = informer'[n].version
    BY <1>0, <2>1 DEF TypeOK
  <2> QED BY <1>0, <2>1, <2>2, <2>3, <2>4, OneAdded DEF IInv
<1>2. CASE Observe(n) /\ ~There(n)
  <2>1. /\ informer' = [informer EXCEPT ![n] = api[n]]
        /\ UNCHANGED <<queue, waiting, task>>
        /\ UNCHANGED <<cloud, api, caches, seen, disruptions>>
    BY <1>2 DEF Observe
  <2>2. TypeOK'
    <3>1. /\ informer' \in [Names -> Objects]
          /\ \A m \in Names : informer'[m].version <= api'[m].version
      BY <1>0, <2>1, SMT DEF TypeOK, Objects
    <3> QED BY <1>0, <2>1, <3>1 DEF TypeOK, cloud, caches
  <2>3. \A m \in Names : informer[m].version <= informer'[m].version
    BY <1>0, <2>1, SMT DEF TypeOK, Objects
  <2>4. Pending' \subseteq Pending
    BY <2>1 DEF Pending, Current, Range
  <2> QED BY <2>1, <2>2, <2>3, <2>4, NoneAdded DEF IInv
<1>3. CASE Resync(n)
  <2>1. addNodeToQueue(n, informer[n]) /\ UNCHANGED <<cloud, api, informer, caches, seen, disruptions>>
    BY <1>3 DEF Resync
  <2>2. TypeOK'
    BY <1>0, <2>1, Adding DEF TypeOK, cloud, caches
  <2>3. \A m \in Names : informer[m].version <= informer'[m].version
    BY <1>0, <2>1, SMT DEF TypeOK, Objects
  <2>4. informer[n].version = informer'[n].version
    BY <2>1
  <2> QED BY <1>0, <2>1, <2>2, <2>3, <2>4, OneAdded DEF IInv
<1> QED BY <1>1, <1>2, <1>3

\* processNext takes a request: seen grows if it is the newest.
LEMMA ProcessNextIInv ==
    ASSUME IInv, ProcessNext
    PROVE  IInv' /\ \A n \in Names : seen'[n] >= seen[n]
<1> DEFINE r == Head(queue)
<1>1. /\ task = Idle /\ queue # <<>> /\ queue' = Tail(queue)
      /\ UNCHANGED <<linode, known, api, informer, waiting, fresh, registry, listed, disruptions>>
  BY DEF ProcessNext, cloud, caches
<1>2. /\ r \in Range(queue) /\ r \in Requests /\ queue' \in Seq(Requests)
      /\ Range(queue') \subseteq Range(queue)
  BY <1>1, Elements DEF IInv, TypeOK
<1>3. r \in Pending
  BY <1>2 DEF Pending
<1> HIDE DEF r
<1>4. /\ r.node \in Names /\ r.object \in Objects /\ r.object.version \in Nat
      /\ \A n \in Names : seen[n] \in Nat
  BY <1>2 DEF IInv, TypeOK, Requests, Objects
<1>5. Range(queue)' = Range(queue')
  BY DEF Range
<1>6. CASE r.age = "newest"
  <2>1. /\ task' = IF Found(r.object) /\ r.node \in fresh THEN Listing ELSE HandleNode(r)
        /\ seen' = [seen EXCEPT ![r.node] = r.object.version]
    BY <1>6 DEF ProcessNext, r
  <2>2. HandleNode(r) \in Busy /\ HandleNode(r).pc = "lookup" /\ HandleNode(r).request = r
    BY <1>2, <1>4, BoundsAssumption, SMT DEF HandleNode, Job, Busy, Missing, Metadata
  <2>3. seen' \in [Names -> Nat] /\ \A n \in Names : seen'[n] >= seen[n]
    BY <1>3, <1>4, <1>6, <2>1, SMT DEF IInv, TypeOK, NewestAgree
  <2>4. TypeOK'
    <3>1. task' \in Busy \cup {Idle, Listing} /\ task'.pc # "update"
      BY <2>1, <2>2 DEF Listing
    <3> QED BY <1>1, <1>2, <2>3, <3>1 DEF IInv, TypeOK
  <2>5. Pending' \subseteq Pending
    <3>1. Current' \subseteq {r}
      BY <2>1, <2>2 DEF Current
    <3> QED BY <1>1, <1>2, <1>3, <1>5, <3>1 DEF Pending
  <2>6. \A s \in Pending : s \in Requests /\ s.node \in Names /\ s.object.version \in Nat
    BY PendingTyped DEF IInv, Requests, Objects
  <2>7. NotAhead'
    <3>1. \A n \in Names : seen'[n] <= informer'[n].version
      BY <1>1, <1>3, <1>4, <2>1 DEF IInv, TypeOK, NotAhead
    <3> QED BY <1>1, <2>5, <3>1 DEF IInv, NotAhead
  <2>8. NewestAgree'
    <3>1. ASSUME NEW s \in Pending, s.age = "newest"
          PROVE  seen'[s.node] <= s.object.version
      <4>1. CASE s.node = r.node
        <5>1. s.object.version = r.object.version
          BY <1>3, <1>6, <3>1, <4>1 DEF IInv, NewestAgree
        <5> QED BY <1>4, <2>1, <2>6, <4>1, <5>1, SMT DEF IInv, TypeOK
      <4>2. CASE s.node # r.node
        <5>1. seen'[s.node] = seen[s.node]
          BY <2>1, <2>6, <4>2 DEF IInv, TypeOK
        <5> QED BY <3>1, <5>1 DEF IInv, NewestAgree
      <4> QED BY <4>1, <4>2
    <3> QED BY <2>5, <3>1 DEF IInv, NewestAgree
  <2> QED BY <2>3, <2>4, <2>7, <2>8 DEF IInv
<1>7. CASE r.age # "newest"
  <2>1. UNCHANGED <<task, seen>>
    BY <1>7 DEF ProcessNext, r
  <2>2. TypeOK'
    BY <1>1, <1>2, <2>1 DEF IInv, TypeOK
  <2>3. Pending' \subseteq Pending
    BY <1>1, <1>2, <1>5, <2>1 DEF Pending, Current
  <2>4. \A m \in Names : informer[m].version <= informer'[m].version
    BY <1>1, SMT DEF IInv, TypeOK, Objects
  <2>5. NotAhead' /\ NewestAgree'
    BY <2>1, <2>2, <2>3, <2>4, NoneAdded, SMTT(30)
  <2> QED BY <1>4, <2>1, <2>2, <2>5, SMT DEF IInv
<1> QED BY <1>6, <1>7

-----------------------------------------------------------------------------
\* The other actions add no request.

\* What the worker has in hand.
LEMMA InHand ==
    ASSUME TypeOK, NEW pc \in {"lookup", "get", "update"}, At(pc)
    PROVE  /\ task \in Busy /\ task \notin {Idle, Listing}
           /\ Current = {task.request} /\ task.request \in Requests
           /\ task.request.node \in Names /\ task.request.object \in Objects
<1>1. task \in Busy /\ task \notin {Idle, Listing}
  BY SMT DEF TypeOK, At, Idle, Listing
<1>2. task.request \in Requests
  BY <1>1 DEF Busy
<1> QED BY <1>1, <1>2 DEF Current, Requests

\* handleNode ends.
LEMMA Returning ==
    ASSUME TypeOK, task' = Listing \/ task' = Idle
    PROVE  Current' = {} /\ task'.pc # "update" /\ task' \in Busy \cup {Idle, Listing}
<1> QED BY SMT DEF Current, Idle, Listing

\* handleNode goes on with its request.
LEMMA GoingOn ==
    ASSUME TypeOK, NEW pc \in {"lookup", "get", "update"}, At(pc),
           NEW next \in {"get", "update"}, NEW want \in Metadata, NEW got \in Objects,
           NEW tries \in 0 .. Steps - 1,
           task' = Job(next, task.request, want, got, tries)
    PROVE  /\ Current' = Current /\ task' \in Busy \cup {Idle, Listing}
           /\ task'.pc = next /\ task'.got = got
<1>1. task' \in Busy
  BY InHand DEF Job, Busy
<1>2. task' \notin {Idle, Listing}
  BY <1>1, SMT DEF Busy, Idle, Listing
<1>3. task'.request = task.request /\ task'.pc = next /\ task'.got = got
  BY DEF Job
<1> QED BY <1>1, <1>2, <1>3, InHand DEF Current

\* The steps of handleNode that only read.
LEMMA ReadersIInv ==
    ASSUME IInv, LookupLinode \/ LookupFails \/ GetNode \/ CallFails
    PROVE  IInv'
<1>0. TypeOK
  BY DEF IInv
<1>1. /\ UNCHANGED <<linode, known, api, informer, queue, registry, listed, seen>>
      /\ fresh' \subseteq Names
      /\ disruptions' \in 0 .. MaxDisruptions
      /\ waiting' \subseteq waiting \cup Current /\ waiting' \subseteq Requests
      /\ task' \in Busy \cup {Idle, Listing}
      /\ task'.pc = "update" => task'.got.phase # "absent"
      /\ Current' \subseteq Current
  <2>1. CASE LookupLinode
    <3>1. /\ task.request.node \in Names /\ At("lookup") /\ task.request.object \in Objects
      BY <1>0, <2>1, InHand DEF LookupLinode
    <3>2. /\ UNCHANGED <<linode, known, api, informer, queue, waiting, registry, listed, seen,
                         disruptions>>
          /\ fresh' \subseteq Names
      BY <1>0, <2>1, <3>1 DEF LookupLinode, cloud, TypeOK
    <3>3. CASE task' = Listing
      BY <1>0, <3>2, <3>3, Returning DEF TypeOK
    <3>4. CASE task' = Job("get", task.request, known[task.request.node], task.request.object, 0)
      <4>1. known[task.request.node] \in Metadata /\ 0 \in 0 .. Steps - 1
        BY <1>0, <3>1, BoundsAssumption, SMTT(30) DEF TypeOK, LinodeData
      <4>2. /\ Current' = Current /\ task' \in Busy \cup {Idle, Listing} /\ task'.pc = "get"
        BY <1>0, <3>1, <3>4, <4>1, GoingOn
      <4> QED BY <1>0, <3>2, <4>2 DEF TypeOK
    <3> QED BY <2>1, <3>3, <3>4 DEF LookupLinode, Return
  <2>2. CASE LookupFails
    <3>1. At("lookup") /\ task' = Listing /\ waiting' \in {waiting, waiting \cup {task.request}}
      BY <2>2 DEF LookupFails, Return
    <3>2. /\ UNCHANGED <<linode, known, api, informer, queue, fresh, registry, listed, seen>>
          /\ disruptions' \in 0 .. MaxDisruptions
      BY <1>0, <2>2, BoundsAssumption, SMT DEF LookupFails, Disrupt, cloud, caches, TypeOK
    <3>3. Current = {task.request} /\ task.request \in Requests
      BY <1>0, <3>1, InHand
    <3> QED BY <1>0, <3>1, <3>2, <3>3, Returning DEF TypeOK
  <2>3. CASE GetNode
    <3>1. /\ task.request.node \in Names /\ At("get") /\ task \in Busy
          /\ api[task.request.node] \in Objects
      BY <1>0, <2>3, InHand DEF GetNode, TypeOK
    <3>2. UNCHANGED <<linode, known, api, informer, queue, waiting, fresh, registry, listed, seen,
                      disruptions>>
      BY <2>3 DEF GetNode, cloud, caches
    <3>3. CASE task' = Listing
      BY <1>0, <3>2, <3>3, Returning DEF TypeOK
    <3>4. CASE /\ There(task.request.node)
               /\ task' = Job("update", task.request, task.want, api[task.request.node], task.tries)
      <4>1. task.want \in Metadata /\ task.tries \in 0 .. Steps - 1
        BY <3>1, SMTT(30) DEF Busy
      <4>2. /\ Current' = Current /\ task' \in Busy \cup {Idle, Listing}
            /\ task'.got = api[task.request.node]
        BY <1>0, <3>1, <3>4, <4>1, GoingOn
      <4> QED BY <1>0, <3>2, <3>4, <4>2 DEF TypeOK, There
    <3> QED BY <2>3, <3>3, <3>4 DEF GetNode, Return
  <2>4. CASE CallFails
    <3>1. /\ UNCHANGED <<linode, known, api, informer, queue, waiting, fresh, registry, listed, seen>>
          /\ disruptions' \in 0 .. MaxDisruptions /\ task' = Listing
      BY <1>0, <2>4, BoundsAssumption, SMT DEF CallFails, Return, Disrupt, cloud, caches, TypeOK
    <3> QED BY <1>0, <3>1, Returning DEF TypeOK
  <2> QED BY <2>1, <2>2, <2>3, <2>4
<1>2. TypeOK'
  BY <1>0, <1>1 DEF TypeOK
<1>3. Pending' \subseteq Pending
  BY <1>1 DEF Pending, Range
<1>4. \A m \in Names : informer[m].version <= informer'[m].version
  BY <1>0, <1>1, SMT DEF TypeOK, Objects
<1> QED BY <1>1, <1>2, <1>3, <1>4, NoneAdded DEF IInv

\* A write of the controller or of others gives a newer object, with no less from
\* others.
LEMMA WritingIInv ==
    ASSUME IInv, UpdateNode \/ \E n \in Names : WriteNode(n)
    PROVE  IInv' /\ \A m \in Names : api'[m].other >= api[m].other
<1>0. TypeOK /\ \A m \in Names : api[m] \in Objects /\ api[m].other \in Nat /\ api[m].version \in Nat
  BY DEF IInv, TypeOK, Objects
<1>1. /\ UNCHANGED <<linode, known, informer, queue, waiting, listed, seen>>
      /\ fresh' \subseteq Names /\ registry' \subseteq Names
      /\ disruptions' \in 0 .. MaxDisruptions
      /\ task' \in Busy \cup {Idle, Listing}
      /\ task'.pc = "update" => task'.got.phase # "absent"
      /\ Current' \subseteq Current
      /\ \/ api' = api
         \/ \E m \in Names, object \in Objects :
              /\ api' = [api EXCEPT ![m] = object]
              /\ object.version >= api[m].version
              /\ object.other >= api[m].other
  <2>1. CASE UpdateNode
    <3> DEFINE m == task.request.node
    <3>1. m \in Names /\ At("update") /\ task \in Busy /\ task.request.object \in Objects
      BY <1>0, <2>1, InHand DEF UpdateNode
    <3>2. task.want \in Metadata /\ task.tries \in 0 .. Steps - 1
      BY <3>1 DEF Busy
    <3>3. UNCHANGED <<linode, known, informer, queue, waiting, listed, seen, disruptions>>
      BY <2>1 DEF UpdateNode, cloud
    <3>4. CASE task.got = api[m]
      <4>1. /\ api' = [api EXCEPT ![m] = Updated(api[m], task.want)]
            /\ registry' = registry \cup {m} /\ fresh' = fresh \cup {m} /\ task' = Listing
        BY <2>1, <3>4 DEF UpdateNode, Written, Return
      <4>2. /\ Updated(api[m], task.want) \in Objects
            /\ Updated(api[m], task.want).other >= api[m].other
            /\ Updated(api[m], task.want).version >= api[m].version
        BY <1>0, <3>1, <3>2, UpdatedTyped, SMT
      <4>3. Current' = {} /\ task'.pc # "update" /\ task' \in Busy \cup {Idle, Listing}
        BY <1>0, <4>1, Returning, SMTT(30)
      <4> QED BY <1>0, <3>1, <3>3, <4>1, <4>2, <4>3 DEF TypeOK
    <3>5. CASE task.got # api[m]
      <4>1. UNCHANGED <<api, registry, fresh>>
        BY <2>1, <3>5 DEF UpdateNode
      <4>2. CASE task' = Listing
        BY <1>0, <3>3, <4>1, <4>2, Returning, SMTT(30) DEF TypeOK
      <4>3. CASE /\ task.tries + 1 < Steps
                 /\ task' = Job("get", task.request, task.want, task.request.object, task.tries + 1)
        <5>1. task.tries + 1 \in 0 .. Steps - 1
          BY <3>2, <4>3, BoundsAssumption, SMT
        <5>2. Current' = Current /\ task' \in Busy \cup {Idle, Listing} /\ task'.pc = "get"
          BY <1>0, <3>1, <3>2, <4>3, <5>1, GoingOn
        <5> QED BY <1>0, <3>3, <4>1, <5>2 DEF TypeOK
      <4> QED BY <2>1, <3>5, <4>2, <4>3 DEF UpdateNode, Return
    <3> QED BY <3>4, <3>5
  <2>2. CASE \E n \in Names : WriteNode(n)
    <3>0. PICK n \in Names : WriteNode(n)
      BY <2>2, SMTT(30)
    <3>1. /\ UNCHANGED <<linode, known, informer, queue, waiting, fresh, registry, listed, task, seen>>
          /\ disruptions' \in 0 .. MaxDisruptions
      BY <1>0, <3>0, BoundsAssumption, SMT DEF WriteNode, Disrupt, cloud, caches, TypeOK
    <3>2. \E object \in Objects :
            /\ api' = [api EXCEPT ![n] = object]
            /\ object.version >= api[n].version
            /\ object.other >= api[n].other
      <4>1. Missing \in Metadata /\ api[n].meta \in Metadata /\ api[n].phase \in Phases
        BY <1>0 DEF Missing, Metadata, Objects
      <4>2. PICK phase \in Phases, meta \in Metadata, other \in {api[n].other, api[n].other + 1} :
              api' = [api EXCEPT ![n] = Object(phase, meta, other, api[n].version + 1)]
        BY <1>0, <3>0, <4>1 DEF WriteNode, Phases
      <4>3. Object(phase, meta, other, api[n].version + 1) \in Objects
        <5>1. other \in Nat /\ api[n].version + 1 \in Nat
          BY <1>0, SMT
        <5> QED BY <5>1 DEF Object, Objects
      <4>4. /\ Object(phase, meta, other, api[n].version + 1).version >= api[n].version
            /\ Object(phase, meta, other, api[n].version + 1).other >= api[n].other
        BY <1>0, SMT DEF Object
      <4> QED BY <4>2, <4>3, <4>4
    <3>3. Current' = Current
      BY <3>1 DEF Current
    <3> QED BY <1>0, <3>1, <3>2, <3>3 DEF TypeOK
  <2> QED BY <2>1, <2>2
<1>2. /\ api' \in [Names -> Objects]
      /\ \A m \in Names : api'[m].version >= api[m].version /\ api'[m].other >= api[m].other
  <2>1. CASE api' = api
    BY <1>0, <2>1, SMT DEF TypeOK
  <2>2. CASE \E m \in Names, object \in Objects :
               /\ api' = [api EXCEPT ![m] = object]
               /\ object.version >= api[m].version
               /\ object.other >= api[m].other
    BY <1>0, <2>2, SMT DEF TypeOK
  <2> QED BY <1>1, <2>1, <2>2
<1>3. \A m \in Names : informer'[m].version <= api'[m].version
  <2> SUFFICES ASSUME NEW m \in Names PROVE informer'[m].version <= api'[m].version
    OBVIOUS
  <2>1. informer[m].version <= api[m].version /\ informer[m].version \in Nat /\ api'[m].version \in Nat
    BY <1>0, <1>2 DEF TypeOK, Objects
  <2> QED BY <1>0, <1>1, <1>2, <2>1, SMT
<1>4. TypeOK'
  BY <1>0, <1>1, <1>2, <1>3 DEF TypeOK
<1>5. Pending' \subseteq Pending
  BY <1>1 DEF Pending, Range
<1>6. \A m \in Names : informer[m].version <= informer'[m].version
  BY <1>0, <1>1, SMTT(30) DEF TypeOK, Objects
<1> QED BY <1>1, <1>2, <1>4, <1>5, <1>6, NoneAdded DEF IInv

\* The node cache, time and the Linodes.
LEMMA OthersIInv ==
    ASSUME IInv,
           \/ UpdateCache \/ UpdateCacheFails \/ RetryLater \/ ExpireCache
           \/ \E n \in Names : Expire(n) \/ ChangeLinode(n) \/ RefreshInstances(n)
    PROVE  IInv' /\ UNCHANGED <<api, seen>>
<1>0. TypeOK
  BY DEF IInv
<1>1. /\ UNCHANGED <<api, informer, seen>>
      /\ linode' \in [Names -> LinodeData] /\ known' \in [Names -> LinodeData]
      /\ queue' \in Seq(Requests) /\ waiting' \subseteq Requests
      /\ Range(queue') \cup waiting' = Range(queue) \cup waiting
      /\ fresh' \subseteq Names /\ registry' \subseteq Names /\ listed' \in {"young", "old"}
      /\ disruptions' \in 0 .. MaxDisruptions
      /\ task' \in {task, Idle}
  <2>1. CASE UpdateCache
    BY <1>0, <2>1 DEF UpdateCache, TypeOK, cloud
  <2>2. CASE UpdateCacheFails
    BY <1>0, <2>2, BoundsAssumption, SMT DEF UpdateCacheFails, Disrupt, TypeOK, cloud, caches
  <2>3. CASE RetryLater
    <3>1. PICK r \in waiting : waiting' = waiting \ {r} /\ queue' = Append(queue, r)
      BY <2>3, SMTT(30) DEF RetryLater
    <3>2. r \in Requests /\ queue \in Seq(Requests)
      BY <1>0, <3>1 DEF TypeOK
    <3>3. queue' \in Seq(Requests) /\ Range(queue') = Range(queue) \cup {r}
      BY <3>1, <3>2, Elements
    <3> QED BY <1>0, <2>3, <3>1, <3>3 DEF RetryLater, TypeOK, cloud, caches
  <2>4. CASE ExpireCache
    BY <1>0, <2>4 DEF ExpireCache, TypeOK, cloud
  <2>5. CASE \E n \in Names : Expire(n)
    BY <1>0, <2>5, SMTT(30) DEF Expire, TypeOK, cloud
  <2>6. CASE \E n \in Names : ChangeLinode(n)
    <3>0. PICK n \in Names : ChangeLinode(n)
      BY <2>6
    <3>1. PICK a \in Attributes, v \in Values \cup {None} :
            /\ a = "host" => v # None
            /\ linode' = [linode EXCEPT ![n][a] = v]
      BY <3>0 DEF ChangeLinode
    <3>2. linode[n] \in Metadata /\ linode[n]["host"] # None
      BY <1>0 DEF TypeOK, LinodeData
    <3>3. [linode[n] EXCEPT ![a] = v] \in LinodeData
      BY <3>1, <3>2, SMTT(30) DEF LinodeData, Metadata, Attributes
    <3>4. linode' \in [Names -> LinodeData]
      BY <1>0, <3>1, <3>3 DEF TypeOK
    <3> QED BY <1>0, <3>0, <3>4, BoundsAssumption, SMT DEF ChangeLinode, Disrupt, TypeOK, caches
  <2>7. CASE \E n \in Names : RefreshInstances(n)
    BY <1>0, <2>7, SMTT(30) DEF RefreshInstances, TypeOK, caches
  <2> QED BY <2>1, <2>2, <2>3, <2>4, <2>5, <2>6, <2>7, SMTT(30)
<1>2. /\ task' \in Busy \cup {Idle, Listing} /\ Current' \subseteq Current
      /\ task'.pc = "update" => task'.got.phase # "absent"
  BY <1>0, <1>1, SMT DEF TypeOK, Current, Idle
<1>3. TypeOK'
  BY <1>0, <1>1, <1>2 DEF TypeOK
<1>4. Pending' \subseteq Pending
  <2>1. Range(queue)' = Range(queue')
    BY DEF Range
  <2> QED BY <1>1, <1>2, <2>1 DEF Pending
<1>5. \A m \in Names : informer[m].version <= informer'[m].version
  BY <1>0, <1>1, SMTT(30) DEF TypeOK, Objects
<1> QED BY <1>1, <1>3, <1>4, <1>5, NoneAdded DEF IInv

-----------------------------------------------------------------------------
\* Every step keeps the invariant, handles no older copy and undoes no write.
LEMMA NextIInv ==
    IInv /\ [Next]_vars =>
      /\ IInv'
      /\ \A n \in Names : seen'[n] >= seen[n] /\ api'[n].other >= api[n].other
<1> SUFFICES ASSUME IInv, [Next]_vars
             PROVE  /\ IInv'
                    /\ \A n \in Names : seen'[n] >= seen[n] /\ api'[n].other >= api[n].other
  OBVIOUS
<1>0. \A n \in Names : seen[n] \in Nat /\ api[n].other \in Nat
  BY DEF IInv, TypeOK, Objects
<1>1. ASSUME NEW n \in Names, Observe(n) \/ Resync(n)
      PROVE  IInv' /\ UNCHANGED <<api, seen>>
  BY <1>1, InformerIInv, SMTT(30) DEF Observe, Resync
<1>2. ASSUME ProcessNext
      PROVE  IInv' /\ UNCHANGED api /\ \A n \in Names : seen'[n] >= seen[n]
  BY <1>2, ProcessNextIInv DEF ProcessNext
<1>3. ASSUME LookupLinode \/ LookupFails \/ GetNode \/ CallFails
      PROVE  IInv' /\ UNCHANGED <<api, seen>>
  BY <1>3, ReadersIInv, SMTT(30) DEF LookupLinode, LookupFails, GetNode, CallFails
<1>4. ASSUME UpdateNode \/ \E n \in Names : WriteNode(n)
      PROVE  IInv' /\ UNCHANGED seen /\ \A m \in Names : api'[m].other >= api[m].other
  BY <1>4, WritingIInv DEF UpdateNode, WriteNode
<1>5. ASSUME \/ UpdateCache \/ UpdateCacheFails \/ RetryLater \/ ExpireCache
             \/ \E n \in Names : Expire(n) \/ ChangeLinode(n) \/ RefreshInstances(n)
      PROVE  IInv' /\ UNCHANGED <<api, seen>>
  BY <1>5, OthersIInv, SMTT(30)
<1>6. CASE UNCHANGED vars
  <2>1. TypeOK'
    BY <1>6, SMTT(30) DEF IInv, TypeOK, vars
  <2>2. Pending' = Pending /\ seen' = seen /\ informer' = informer /\ api' = api
    BY <1>6 DEF vars, Pending, Current, Range
  <2> QED BY <1>0, <2>1, <2>2, SMT DEF IInv, NotAhead, NewestAgree
<1> QED BY <1>0, <1>1, <1>2, <1>3, <1>4, <1>5, <1>6, BoundsAssumption, SMTT(30) DEF Next, Worker

\* The types.
THEOREM TypesKept == Spec => []TypeOK
<1>1. IInv => TypeOK
  BY DEF IInv
<1> QED BY <1>1, InitIInv, NextIInv, PTL DEF Spec

\* addNodeToQueue's timestamps do what they are for: after a copy of a node, no older
\* copy of it is handled, whatever is retried and whenever.
THEOREM NoOlderCopy == Spec => NeverOlder
<1>1. IInv /\ [Next]_vars => [\A n \in Names : seen'[n] >= seen[n]]_vars
  BY NextIInv
<1> QED BY <1>1, InitIInv, NextIInv, PTL DEF Spec, NeverOlder

\* RetryOnConflict around a fresh Get does what it is for: handleNode never undoes what
\* others write.
THEOREM NoWriteLost == Spec => NothingLost
<1>1. IInv /\ [Next]_vars => [\A n \in Names : api'[n].other >= api[n].other]_vars
  BY NextIInv
<1> QED BY <1>1, InitIInv, NextIInv, PTL DEF Spec, NothingLost
=============================================================================
