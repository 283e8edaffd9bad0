------------------------ MODULE CloudAllocatorProofs ------------------------
(***************************************************************************)
(* Theorems about CloudAllocator, for any set of nodes, any pool, any      *)
(* number of attempts and any bound on the disruptions.                    *)
(***************************************************************************)
EXTENDS CloudAllocator, TLAPS

\* Leaves are first-order, but those that cite SMT.
USE Zenon

\* While the process lives, every CIDR it meets is in the cluster CIDR: Start
\* refuses the others and no action makes one.
InRange ==
    /\ status # "down" => \A n \in Nodes : api[n].cidr \in Blocks \cup {NoCIDR}
    /\ \A n \in Nodes : lister[n].cidr \in Blocks \cup {NoCIDR}

TypeInv == TypeOK /\ InRange

\* The state a process starts from is well typed.
LEMMA InitTypeInv == Init => TypeInv
  <1> SUFFICES ASSUME Init PROVE TypeInv
    OBVIOUS
  <1>1. Absent \in NodeObjects /\ Idle \in Workers /\ 0 \in Blocks /\ 0 \in 0 .. MaxDisruptions
    BY BlocksAssumption, RetriesAssumption, EventsAssumption, SMT
       DEF Absent, Node, NodeObjects, Idle, Worker, Workers, Blocks
  <1>2. TypeOK
    BY <1>1 DEF Init, TypeOK
  <1>3. InRange
    BY DEF Init, InRange, Absent, Node
  <1> QED
    BY <1>2, <1>3 DEF TypeInv

\* The operations on the pool keep it a set of blocks.
LEMMA PoolOps ==
  ASSUME TypeOK, NEW c
  PROVE  /\ AllocateNext(c) => used' \subseteq Blocks /\ nextCandidate' \in Blocks
         /\ c \in Blocks /\ Occupy(c) => used' \subseteq Blocks /\ nextCandidate' \in Blocks
         /\ Release(c) => used' \subseteq Blocks /\ nextCandidate' \in Blocks
  <1>1. AllocateNext(c) => used' \subseteq Blocks /\ nextCandidate' \in Blocks
    BY BlocksAssumption, SMT DEF AllocateNext, Free, Blocks, TypeOK
  <1> QED
    BY <1>1 DEF Occupy, Release, TypeOK

\* An event of the environment keeps the count of events within its bound.
LEMMA DisruptType ==
  ASSUME TypeOK, NEW kind, Disrupt(kind)
  PROVE  disruptions' \in 0 .. MaxDisruptions
  BY EventsAssumption, SMT DEF Disrupt, TypeOK

\* The two ends of a work item leave well-typed workers and a queue of nodes.
LEMMA WorkerEnds ==
  ASSUME TypeOK, NEW n \in Nodes
  PROVE  /\ Done(n) => work' \in [Nodes -> Workers] /\ queue' \subseteq Nodes
         /\ Requeue(n) => work' \in [Nodes -> Workers] /\ queue' \subseteq Nodes
  <1>1. Idle \in Workers
    BY RetriesAssumption, SMT DEF Idle, Worker, Workers
  <1> QED
    BY <1>1 DEF Done, Requeue, TypeOK

\* A failed attempt to PATCH keeps the types: the attempt stays below the limit.
LEMMA AttemptType ==
  ASSUME TypeOK, NEW n \in Nodes, NEW t, AttemptFailed(n, t)
  PROVE  /\ work' \in [Nodes -> Workers]
         /\ queue' \subseteq Nodes
         /\ used' \subseteq Blocks
         /\ nextCandidate' \in Blocks
  <1>1. CASE work[n].attempt + 1 < CidrUpdateRetries
    <2>1. [work[n] EXCEPT !.attempt = @ + 1] \in Workers
      BY <1>1, RetriesAssumption, SMT DEF TypeOK, Workers
    <2> QED
      BY <1>1, <2>1 DEF AttemptFailed, TypeOK, pool
  <1>2. CASE ~(work[n].attempt + 1 < CidrUpdateRetries)
    BY <1>2, WorkerEnds, PoolOps DEF AttemptFailed, TypeOK, pool
  <1> QED
    BY <1>1, <1>2

\* Every step keeps the types.
LEMMA NextTypeInv == TypeInv /\ [Next]_vars => TypeInv'
  <1> SUFFICES ASSUME TypeInv, [Next]_vars PROVE TypeInv'
    OBVIOUS
  <1> USE DEF TypeInv, pool, informer
  <1>0. Absent \in NodeObjects /\ Idle \in Workers /\ 0 \in Blocks
        /\ Absent.cidr = NoCIDR /\ Node("present", NoCIDR) \in NodeObjects
    BY BlocksAssumption, RetriesAssumption, SMT
       DEF Absent, Node, NodeObjects, Idle, Worker, Workers, Blocks
  <1>1. CASE Start
    <2>1. Reserved \subseteq Blocks
      BY BlocksAssumption, ServiceAssumption, SMT DEF Reserved, Blocks
    <2>2. \A n \in Nodes : api[n].cidr \in Held \cup {NoCIDR}
      BY DEF Held
    <2>3. InRange'
      BY <1>1, <2>2 DEF Start, InRange
    <2> QED
      BY <1>1, <2>1, <2>3 DEF Start, TypeOK
  <1>2. CASE Run
    BY <1>2 DEF Run, TypeOK, InRange
  <1>3. CASE Crash
    BY <1>3, <1>0, DisruptType DEF Crash, TypeOK, InRange
  <1>4. CASE ReleaseCIDR
    BY <1>4, PoolOps DEF ReleaseCIDR, TypeOK, InRange
  <1>5. ASSUME NEW n \in Nodes, Environment(n) PROVE TypeInv'
    <2>1. CASE CreateNode(n)
      BY <2>1, <1>0 DEF CreateNode, TypeOK, InRange, Node
    <2>2. CASE MarkDeleting(n)
      <3>1. [api[n] EXCEPT !.phase = "deleting"] \in NodeObjects
        BY SMT DEF TypeOK, NodeObjects
      <3> QED
        BY <2>2, <3>1, DisruptType DEF MarkDeleting, TypeOK, InRange, NodeObjects
    <2>3. CASE RemoveNode(n)
      BY <2>3, <1>0, DisruptType DEF RemoveNode, TypeOK, InRange
    <2> QED
      BY <1>5, <2>1, <2>2, <2>3 DEF Environment
  <1>6. ASSUME NEW n \in Nodes, Informer(n) PROVE TypeInv'
    <2>1. CASE ObserveUpdate(n)
      BY <2>1 DEF ObserveUpdate, TypeOK, InRange
    <2>2. CASE ObserveHeartbeat(n)
      BY <2>2 DEF ObserveHeartbeat, TypeOK, InRange
    <2>3. CASE ObserveDelete(n)
      BY <2>3, <1>0, SMT DEF ObserveDelete, TypeOK, InRange
    <2>4. CASE Relist(n)
      BY <2>4, DisruptType, SMT DEF Relist, TypeOK, InRange
    <2> QED
      BY <1>6, <2>1, <2>2, <2>3, <2>4 DEF Informer
  <1>7. ASSUME NEW n \in Nodes, ProcessNextNodeWorkItem(n) PROVE TypeInv'
    <2>1. CASE SyncNode(n)
      <3>1. Worker("synced", lister[n].cidr, 0) \in Workers
        BY RetriesAssumption, SMT DEF Worker, Workers, InRange
      <3> QED
        BY <2>1, <3>1 DEF SyncNode, TypeOK, InRange
    <2>2. CASE OccupyCIDR(n)
      BY <2>2, PoolOps, WorkerEnds DEF OccupyCIDR, TypeOK, InRange, Workers
    <2>3. CASE AllocateCIDR(n)
      <3>1. PICK c \in Free : AllocateNext(c) /\
              (\/ work' = [work EXCEPT ![n] = Worker("update", c, 0)]
                  /\ UNCHANGED <<queue, disruptions>>
               \/ Disrupt("ipv6") /\ Requeue(n))
        BY <2>3 DEF AllocateCIDR
      <3>2. Worker("update", c, 0) \in Workers
        BY RetriesAssumption, SMT DEF Worker, Workers, Free
      <3> QED
        BY <2>3, <3>1, <3>2, PoolOps, WorkerEnds, DisruptType
           DEF AllocateCIDR, TypeOK, InRange
    <2>4. CASE AllocateExhausted(n)
      BY <2>4, WorkerEnds DEF AllocateExhausted, TypeOK, InRange
    <2>5. CASE UpdateCIDRs(n)
      <3>1. [work[n] EXCEPT !.pc = "patch"] \in Workers
        BY DEF TypeOK, Workers
      <3>2. work' \in [Nodes -> Workers] /\ queue' \subseteq Nodes
        BY <2>5, <3>1, WorkerEnds DEF UpdateCIDRs, TypeOK
      <3>3. used' \subseteq Blocks /\ nextCandidate' \in Blocks
        BY <2>5, PoolOps DEF UpdateCIDRs, TypeOK
      <3> QED
        BY <2>5, <3>2, <3>3 DEF UpdateCIDRs, TypeOK, InRange
    <2>6. CASE PatchSucceeds(n) \/ PatchReplyLost(n)
      <3>2. [api[n] EXCEPT !.cidr = work[n].cidr] \in NodeObjects
        BY SMT DEF TypeOK, NodeObjects, Workers
      <3>3. api' \in [Nodes -> NodeObjects]
        BY <2>6, <3>2 DEF TypeOK, PatchSucceeds, PatchReplyLost
      <3>4. \A m \in Nodes : api'[m].cidr \in {api[m].cidr, work[m].cidr}
        <4>1. api' = [api EXCEPT ![n].cidr = work[n].cidr]
          BY <2>6 DEF PatchSucceeds, PatchReplyLost
        <4>2. api \in [Nodes -> NodeObjects]
          BY DEF TypeOK
        <4> QED
          BY <4>1, <4>2 DEF NodeObjects
      <3>5. InRange'
        BY <2>6, <3>4 DEF TypeOK, Workers, InRange, PatchSucceeds, PatchReplyLost, At
      <3> QED
        BY <2>6, <3>3, <3>5, WorkerEnds, AttemptType, DisruptType
           DEF TypeOK, PatchSucceeds, PatchReplyLost
    <2>7. CASE PatchRejected(n) \/ PatchFails(n)
      BY <2>7, AttemptType, DisruptType DEF PatchRejected, PatchFails, TypeOK, InRange
    <2> QED
      BY <1>7, <2>1, <2>2, <2>3, <2>4, <2>5, <2>6, <2>7 DEF ProcessNextNodeWorkItem
  <1>8. CASE UNCHANGED vars
    BY <1>8 DEF vars, TypeOK, InRange
  <1> QED
    BY <1>1, <1>2, <1>3, <1>4, <1>5, <1>6, <1>7, <1>8 DEF Next

\* Every state of the allocator is well typed: the pool stays within the
\* cluster CIDR and a worker makes at most CidrUpdateRetries attempts.
THEOREM TypeCorrect == Spec => []TypeOK
  <1>1. Spec => []TypeInv
    BY InitTypeInv, NextTypeInv, PTL DEF Spec
  <1> QED
    BY <1>1, PTL DEF TypeInv

-----------------------------------------------------------------------------
\* A patch that took effect is reported as a success.
NoLostReplies == Events \cap {"lostOther", "lostServerTimeout"} = {}

\* Nothing is pending before the informer and the workers run.
Quiet ==
    status # "running" =>
      /\ deletes = {}
      /\ \A n \in Nodes : missed[n] = {} /\ work[n].pc = "idle" /\ lister[n].cidr = NoCIDR

AbsentHoldsNothing == \A n \in Nodes : ~Exists(n) => api[n].cidr = NoCIDR

IndInv == TypeInv /\ Quiet /\ AbsentHoldsNothing /\ OneOwner

\* The inductive invariant holds at the start.
LEMMA InitIndInv == Init => IndInv
  <1> SUFFICES ASSUME Init PROVE IndInv
    OBVIOUS
  <1>1. Quiet /\ AbsentHoldsNothing
    BY SMT DEF Init, Quiet, AbsentHoldsNothing, Absent, Node, Idle, Worker
  <1>2. \A n \in Nodes : InFlight(n) = {} /\ Missed(n) = {}
    BY DEF Init, InFlight, Missed, Idle, Worker
  <1>3. OneOwner
    BY <1>2 DEF Init, OneOwner, HeldBy
  <1> QED
    BY <1>1, <1>3, InitTypeInv DEF IndInv

\* Every step keeps the inductive invariant, if no answer is lost.
LEMMA NextIndInv == NoLostReplies /\ IndInv /\ [Next]_vars => IndInv'
  <1> SUFFICES ASSUME NoLostReplies, IndInv, [Next]_vars
               PROVE  Quiet' /\ AbsentHoldsNothing' /\ OneOwner'
    BY NextTypeInv DEF IndInv
  <1> USE DEF IndInv, TypeInv, pool, informer
  <1>1. CASE Start
    <2>1. \A n \in Nodes : InFlight(n)' = {} /\ Missed(n)' = {} /\ HeldBy(n)' = HeldBy(n)
      BY <1>1 DEF Start, Quiet, InFlight, Missed, HeldBy
    <2>2. \A n \in Nodes : HeldBy(n) \subseteq used'
      BY <1>1 DEF Start, Held, HeldBy
    <2>3. OneOwner'
      BY <1>1, <2>1, <2>2 DEF Start, OneOwner, Quiet
    <2> QED
      BY <1>1, <2>3 DEF Start, Quiet, AbsentHoldsNothing, Exists
  <1>2. CASE Run
    <2>1. \A n \in Nodes : InFlight(n)' = {} /\ Missed(n)' = {} /\ HeldBy(n)' = HeldBy(n)
      BY <1>2 DEF Run, Quiet, InFlight, Missed, HeldBy
    <2>2. \A n \in Nodes : api[n].cidr \in HeldBy(n) \cup {NoCIDR}
      BY DEF HeldBy
    <2>3. OneOwner'
      BY <1>2, <2>1, <2>2, SMT DEF Run, OneOwner, Quiet
    <2> QED
      BY <1>2, <2>3 DEF Run, Quiet, AbsentHoldsNothing, Exists
  <1>3. CASE Crash
    <2>1. \A n \in Nodes : InFlight(n)' = {} /\ Missed(n)' = {} /\ HeldBy(n)' = HeldBy(n)
      BY <1>3 DEF Crash, InFlight, Missed, HeldBy, Idle, Worker
    <2>2. OneOwner'
      BY <1>3, <2>1 DEF Crash, OneOwner
    <2> QED
      BY <1>3, <2>2 DEF Crash, Quiet, AbsentHoldsNothing, Exists, Absent, Node, Idle, Worker
  <1>4. CASE ReleaseCIDR
    <2>1. PICK c \in deletes : deletes' = deletes \ {c} /\ used' = used \ {c}
      BY <1>4 DEF ReleaseCIDR, Release
    <2>2. \A n \in Nodes : /\ InFlight(n)' = InFlight(n)
                           /\ Missed(n)' = Missed(n)
                           /\ HeldBy(n)' = HeldBy(n)
                           /\ lister'[n] = lister[n]
      BY <1>4 DEF ReleaseCIDR, InFlight, Missed, HeldBy
    <2>3. OneOwner'
      BY <1>4, <2>1, <2>2, SMT DEF ReleaseCIDR, OneOwner
    <2> QED
      BY <1>4, <2>3 DEF ReleaseCIDR, Quiet, AbsentHoldsNothing, Exists
  <1>5. ASSUME NEW n \in Nodes, CreateNode(n) PROVE Quiet' /\ AbsentHoldsNothing' /\ OneOwner'
    <2>1. \A m \in Nodes : /\ InFlight(m)' = InFlight(m)
                           /\ Missed(m)' = Missed(m)
                           /\ HeldBy(m)' = HeldBy(m)
      BY <1>5 DEF CreateNode, InFlight, Missed, HeldBy, AbsentHoldsNothing, TypeOK, Node
    <2>2. OneOwner'
      BY <1>5, <2>1 DEF CreateNode, OneOwner
    <2> QED
      BY <1>5, <2>2 DEF CreateNode, Quiet, AbsentHoldsNothing, Exists, TypeOK, Node
  <1>6. ASSUME NEW n \in Nodes, MarkDeleting(n) PROVE Quiet' /\ AbsentHoldsNothing' /\ OneOwner'
    <2>1. \A m \in Nodes : api'[m].cidr = api[m].cidr /\ (Exists(m)' <=> Exists(m))
      BY <1>6 DEF MarkDeleting, TypeOK, NodeObjects, Exists
    <2>2. \A m \in Nodes : /\ InFlight(m)' = InFlight(m)
                           /\ Missed(m)' = Missed(m)
                           /\ HeldBy(m)' = HeldBy(m)
      BY <1>6, <2>1 DEF MarkDeleting, InFlight, Missed, HeldBy
    <2>3. OneOwner'
      BY <1>6, <2>2 DEF MarkDeleting, OneOwner
    <2> QED
      BY <1>6, <2>1, <2>3 DEF MarkDeleting, Quiet, AbsentHoldsNothing
  <1>7. ASSUME NEW n \in Nodes, RemoveNode(n) PROVE Quiet' /\ AbsentHoldsNothing' /\ OneOwner'
    <2>1. /\ api'[n].cidr = NoCIDR
          /\ \A m \in Nodes \ {n} : api'[m] = api[m] /\ missed'[m] = missed[m]
      BY <1>7 DEF RemoveNode, TypeOK, Absent, Node
    <2>2. \A m \in Nodes : InFlight(m)' = InFlight(m)
      BY <1>7 DEF RemoveNode, InFlight
    <2>3. /\ HeldBy(n)' = {}
          /\ \A m \in Nodes \ {n} : HeldBy(m)' = HeldBy(m) /\ Missed(m)' = Missed(m)
      BY <2>1 DEF HeldBy, Missed
    <2>4. CASE status = "running"
      <3>1. Missed(n)' = Missed(n) \cup HeldBy(n)
        BY <1>7, <2>4 DEF RemoveNode, Missed, HeldBy, TypeOK
      <3>2. OneOwner'
        BY <1>7, <2>2, <2>3, <3>1, SMT DEF RemoveNode, OneOwner
      <3> QED
        BY <1>7, <2>1, <2>4, <3>2 DEF RemoveNode, Quiet, AbsentHoldsNothing, Exists
    <2>5. CASE status # "running"
      <3>1. Missed(n)' = {} /\ lister[n].cidr = NoCIDR /\ Missed(n) = {}
        BY <1>7, <2>5 DEF RemoveNode, Missed, Quiet
      <3>2. OneOwner'
        BY <1>7, <2>2, <2>3, <3>1, SMT DEF RemoveNode, OneOwner
      <3> QED
        BY <1>7, <2>1, <2>5, <3>2 DEF RemoveNode, Quiet, AbsentHoldsNothing, Exists
    <2> QED
      BY <2>4, <2>5
  <1>8. ASSUME NEW n \in Nodes, ObserveUpdate(n) \/ ObserveHeartbeat(n)
        PROVE  Quiet' /\ AbsentHoldsNothing' /\ OneOwner'
    <2>1. \A m \in Nodes : /\ InFlight(m)' = InFlight(m)
                           /\ Missed(m)' = Missed(m)
                           /\ HeldBy(m)' = HeldBy(m)
                           /\ lister'[m].cidr \in {lister[m].cidr, api[m].cidr}
      BY <1>8 DEF ObserveUpdate, ObserveHeartbeat, InFlight, Missed, HeldBy, TypeOK
    <2>2. \A m \in Nodes : api[m].cidr \in HeldBy(m) \cup {NoCIDR}
      BY DEF HeldBy
    <2>3. OneOwner'
      BY <1>8, <2>1, <2>2, SMT DEF ObserveUpdate, ObserveHeartbeat, OneOwner
    <2> QED
      BY <1>8, <2>3 DEF ObserveUpdate, ObserveHeartbeat, Quiet, AbsentHoldsNothing, Exists
  <1>9. ASSUME NEW n \in Nodes, ObserveDelete(n) PROVE Quiet' /\ AbsentHoldsNothing' /\ OneOwner'
    <2>1. PICK c \in missed[n] : /\ missed' = [missed EXCEPT ![n] = @ \ {c}]
                                 /\ deletes' = deletes \cup ({c} \ {NoCIDR})
      BY <1>9 DEF ObserveDelete
    <2>2. /\ {c} \ {NoCIDR} \subseteq Missed(n)
          /\ Missed(n)' = Missed(n) \ {c}
          /\ \A m \in Nodes \ {n} : Missed(m)' = Missed(m)
      BY <2>1 DEF Missed, TypeOK
    <2>3. \A m \in Nodes : /\ InFlight(m)' = InFlight(m)
                           /\ HeldBy(m)' = HeldBy(m)
                           /\ m # n => lister'[m] = lister[m]
      BY <1>9 DEF ObserveDelete, InFlight, HeldBy, TypeOK
    <2>4. lister'[n].cidr = NoCIDR
      BY <1>9 DEF ObserveDelete, TypeOK, Absent, Node
    <2>5. OneOwner'
      BY <1>9, <2>1, <2>2, <2>3, <2>4, SMT DEF ObserveDelete, OneOwner
    <2> QED
      BY <1>9, <2>5 DEF ObserveDelete, Quiet, AbsentHoldsNothing, Exists
  <1>10. ASSUME NEW n \in Nodes, Relist(n) PROVE Quiet' /\ AbsentHoldsNothing' /\ OneOwner'
    <2>1. /\ Missed(n)' = {}
          /\ \A m \in Nodes \ {n} : Missed(m)' = Missed(m) /\ lister'[m] = lister[m]
          /\ lister'[n] = api[n]
      BY <1>10 DEF Relist, Missed, TypeOK
    <2>2. \A m \in Nodes : InFlight(m)' = InFlight(m) /\ HeldBy(m)' = HeldBy(m)
      BY <1>10 DEF Relist, InFlight, HeldBy
    <2>3. api[n].cidr \in HeldBy(n) \cup {NoCIDR}
      BY DEF HeldBy
    <2>4. deletes \subseteq deletes' /\ deletes' \subseteq deletes \cup Missed(n)
      <3>1. CASE Exists(n)
        BY <1>10, <3>1 DEF Relist
      <3>2. CASE ~Exists(n)
        <4>1. HeldBy(n) = {}
          BY <3>2 DEF HeldBy, AbsentHoldsNothing
        <4> QED
          BY <1>10, <3>2, <4>1, SMT DEF Relist, OneOwner
      <3> QED
        BY <3>1, <3>2
    <2>5. OneOwner'
      BY <1>10, <2>1, <2>2, <2>3, <2>4, SMT DEF Relist, OneOwner
    <2> QED
      BY <1>10, <2>5 DEF Relist, Quiet, AbsentHoldsNothing, Exists
  <1>11. ASSUME NEW n \in Nodes, ProcessNextNodeWorkItem(n)
         PROVE  Quiet' /\ AbsentHoldsNothing' /\ OneOwner'
    <2> DEFINE Ends == \A m \in Nodes : InFlight(m)' = IF m = n THEN {} ELSE InFlight(m)
               Stays == \A m \in Nodes : InFlight(m)' = InFlight(m)
               Bystanders == /\ api' = api
                             /\ lister' = lister
                             /\ missed' = missed
                             /\ deletes' = deletes
                             /\ status = "running"
                             /\ status' = status
    <2>0. Idle.pc = "idle"
      BY DEF Idle, Worker
    <2>1. Done(n) \/ Requeue(n) => Ends
      BY <2>0 DEF Done, Requeue, InFlight, TypeOK
    <2>2. Bystanders => Quiet' /\ AbsentHoldsNothing'
                        /\ \A m \in Nodes : Missed(m)' = Missed(m) /\ HeldBy(m)' = HeldBy(m)
      BY DEF Quiet, AbsentHoldsNothing, Exists, Missed, HeldBy
    <2>3. ASSUME Bystanders, Ends \/ Stays, used \subseteq used'
          PROVE  Quiet' /\ AbsentHoldsNothing' /\ OneOwner'
      BY <2>2, <2>3, SMT DEF OneOwner
    <2>4. ASSUME Bystanders, Ends, InFlight(n) = {work[n].cidr}, used' = used \ {work[n].cidr}
          PROVE  Quiet' /\ AbsentHoldsNothing' /\ OneOwner'
      BY <2>2, <2>4, SMT DEF OneOwner
    <2>5. ASSUME NEW t, Bystanders, At(n, "patch"), AttemptFailed(n, t)
          PROVE  Quiet' /\ AbsentHoldsNothing' /\ OneOwner'
      <3>1. InFlight(n) = {work[n].cidr}
        BY <2>5 DEF At, InFlight
      <3>2. CASE work[n].attempt + 1 < CidrUpdateRetries
        <4>1. Stays
          <5>1. work' = [work EXCEPT ![n].attempt = @ + 1] /\ work \in [Nodes -> Workers]
            BY <2>5, <3>2 DEF AttemptFailed, TypeOK
          <5>2. \A m \in Nodes : work'[m].pc = work[m].pc /\ work'[m].cidr = work[m].cidr
            BY <5>1 DEF Workers
          <5> QED
            BY <5>2 DEF InFlight
        <4> QED
          BY <2>3, <2>5, <3>2, <4>1 DEF AttemptFailed
      <3>3. CASE ~(work[n].attempt + 1 < CidrUpdateRetries)
        BY <2>1, <2>3, <2>4, <2>5, <3>1, <3>3 DEF AttemptFailed, Release
      <3> QED
        BY <3>2, <3>3
    <2>6. CASE SyncNode(n)
      <3>1. Stays
        BY <2>6 DEF SyncNode, At, InFlight, TypeOK, Worker
      <3> QED
        BY <2>3, <2>6, <3>1 DEF SyncNode, At
    <2>7. CASE OccupyCIDR(n)
      BY <2>1, <2>3, <2>7 DEF OccupyCIDR, At, Occupy
    <2>8. CASE AllocateCIDR(n)
      <3>1. PICK c \in Free : /\ AllocateNext(c)
                              /\ \/ work' = [work EXCEPT ![n] = Worker("update", c, 0)]
                                 \/ Requeue(n)
        BY <2>8 DEF AllocateCIDR
      <3>2. Bystanders /\ used' = used \cup {c} /\ c \notin used
        BY <2>8, <3>1 DEF AllocateCIDR, At, AllocateNext, Free
      <3>3. CASE Requeue(n)
        BY <2>1, <2>3, <3>2, <3>3
      <3>4. CASE work' = [work EXCEPT ![n] = Worker("update", c, 0)]
        <4>1. \A m \in Nodes : InFlight(m)' = IF m = n THEN {c} ELSE InFlight(m)
          BY <3>4 DEF InFlight, TypeOK, Worker
        <4> QED
          BY <2>2, <3>2, <4>1, SMT DEF OneOwner
      <3> QED
        BY <3>1, <3>3, <3>4
    <2>9. CASE AllocateExhausted(n)
      BY <2>1, <2>3, <2>9 DEF AllocateExhausted, At
    <2>10. CASE UpdateCIDRs(n)
      <3>1. Bystanders /\ InFlight(n) = {work[n].cidr}
        BY <2>10 DEF UpdateCIDRs, At, InFlight
      <3>2. CASE (Done(n) \/ Requeue(n)) /\ UNCHANGED pool
        BY <2>1, <2>3, <3>1, <3>2
      <3>3. CASE Done(n) /\ Release(work[n].cidr)
        BY <2>1, <2>4, <3>1, <3>3 DEF Release
      <3>4. CASE work' = [work EXCEPT ![n].pc = "patch"] /\ UNCHANGED pool
        <4>1. Stays
          BY <2>10, <3>4 DEF UpdateCIDRs, At, InFlight, TypeOK, Workers
        <4> QED
          BY <2>3, <3>1, <3>4, <4>1
      <3> QED
        BY <2>10, <3>2, <3>3, <3>4 DEF UpdateCIDRs
    <2>11. CASE PatchSucceeds(n)
      <3> DEFINE c == work[n].cidr
      <3>1. InFlight(n) = {c} /\ c \in used /\ c # NoCIDR
        <4>1. InFlight(n) = {c}
          BY <2>11 DEF PatchSucceeds, At, InFlight
        <4> QED
          BY <2>11, <4>1, NoCIDRAssumption DEF PatchSucceeds, At, OneOwner, TypeOK
      <3>2. Ends
        BY <2>1, <2>11 DEF PatchSucceeds
      <3>3. api[n].cidr = NoCIDR
        BY <2>11, <3>1 DEF PatchSucceeds, Accepts, OneOwner, HeldBy
      <3>4. api'[n].cidr = c /\ api'[n].phase = api[n].phase
            /\ \A m \in Nodes \ {n} : api'[m] = api[m]
        BY <2>11 DEF PatchSucceeds, TypeOK, NodeObjects
      <3>5. /\ HeldBy(n)' = {c}
            /\ HeldBy(n) = {}
            /\ \A m \in Nodes \ {n} : HeldBy(m)' = HeldBy(m)
            /\ \A m \in Nodes : Missed(m)' = Missed(m)
        BY <2>11, <3>1, <3>3, <3>4 DEF PatchSucceeds, HeldBy, Missed
      <3>6. OneOwner'
        BY <2>11, <3>1, <3>2, <3>5, SMT DEF PatchSucceeds, At, OneOwner
      <3> QED
        BY <2>11, <3>4, <3>6 DEF PatchSucceeds, At, Accepts, Quiet, AbsentHoldsNothing, Exists
    <2>12. CASE PatchRejected(n) \/ PatchFails(n)
      BY <2>5, <2>12 DEF PatchRejected, PatchFails, At
    <2>13. CASE PatchReplyLost(n)
      BY <2>13 DEF PatchReplyLost, Disrupt, NoLostReplies
    <2> QED
      BY <1>11, <2>6, <2>7, <2>8, <2>9, <2>10, <2>11, <2>12, <2>13 DEF ProcessNextNodeWorkItem
  <1>12. CASE UNCHANGED vars
    BY <1>12, SMT DEF vars, Quiet, AbsentHoldsNothing, OneOwner, Exists, InFlight, Missed, HeldBy
  <1> QED
    BY <1>1, <1>2, <1>3, <1>4, <1>5, <1>6, <1>7, <1>8, <1>9, <1>10, <1>11, <1>12
       DEF Next, Environment, Informer

\* When every patch that takes effect is reported as a success, each block has
\* one owner: neither ReleaseCIDR nor updateCIDRsAllocation ever frees a block
\* that a node holds, however nodes, restarts, relists, failed patches and
\* stale caches interleave.
THEOREM OwnershipIsUnique == ASSUME NoLostReplies PROVE Spec => []OneOwner
  <1>1. IndInv /\ [Next]_vars => IndInv'
    BY NextIndInv
  <1>2. Spec => []IndInv
    BY InitIndInv, <1>1, PTL DEF Spec
  <1> QED
    BY <1>2, PTL DEF IndInv

\* Then no two nodes ever have the same pod CIDR.
THEOREM CIDRsAreUnique == ASSUME NoLostReplies PROVE Spec => []NoDuplicateCIDR
  <1>1. OneOwner => NoDuplicateCIDR
    BY SMT DEF OneOwner, NoDuplicateCIDR, HeldBy
  <1> QED
    BY <1>1, OwnershipIsUnique, PTL

-----------------------------------------------------------------------------
\* Where blocks leak.  A process that is down has no pool, and a worker's first
\* attempt is its first.
Beginnings ==
    /\ status = "down" => used = {}
    /\ \A n \in Nodes : work[n].pc = "update" => work[n].attempt = 0

\* Every step keeps the beginnings.
LEMMA NextBeginnings == TypeInv /\ Quiet /\ Beginnings /\ [Next]_vars => Beginnings'
  <1> SUFFICES ASSUME TypeInv, Quiet, Beginnings, [Next]_vars PROVE Beginnings'
    OBVIOUS
  <1> USE DEF TypeInv, pool, informer, TypeOK
  <1>0. Idle.pc = "idle" /\ Worker("synced", NoCIDR, 0).pc = "synced"
    BY DEF Idle, Worker
  <1>1. CASE Start \/ Run \/ Crash
    BY <1>1, <1>0 DEF Start, Run, Crash, Beginnings
  <1>2. CASE ReleaseCIDR \/ UNCHANGED vars
    BY <1>2 DEF ReleaseCIDR, vars, Beginnings
  <1>3. ASSUME NEW n \in Nodes, Environment(n) \/ Informer(n) PROVE Beginnings'
    BY <1>3 DEF Environment, CreateNode, MarkDeleting, RemoveNode, Informer, ObserveUpdate,
                ObserveHeartbeat, ObserveDelete, Relist, Beginnings
  <1>4. ASSUME NEW n \in Nodes, ProcessNextNodeWorkItem(n) PROVE Beginnings'
    <2>1. status' = "running"
      BY <1>4 DEF ProcessNextNodeWorkItem, SyncNode, OccupyCIDR, AllocateCIDR,
                  AllocateExhausted, UpdateCIDRs, PatchSucceeds, PatchRejected, PatchFails,
                  PatchReplyLost, At
    <2>2. Done(n) \/ Requeue(n) => \A m \in Nodes : work'[m].pc = "update" => work'[m].attempt = 0
      BY <1>0 DEF Done, Requeue, Beginnings
    <2>3. ASSUME NEW t, At(n, "patch"), AttemptFailed(n, t)
          PROVE  \A m \in Nodes : work'[m].pc = "update" => work'[m].attempt = 0
      <3>1. CASE work[n].attempt + 1 < CidrUpdateRetries
        <4>1. work' = [work EXCEPT ![n].attempt = @ + 1]
          BY <2>3, <3>1 DEF AttemptFailed
        <4>2. work'[n].pc = "patch" /\ \A m \in Nodes \ {n} : work'[m] = work[m]
          BY <2>3, <4>1 DEF At, Workers
        <4> QED
          BY <4>2 DEF Beginnings
      <3> QED
        BY <2>2, <2>3, <3>1 DEF AttemptFailed
    <2>4. CASE PatchRejected(n) \/ PatchFails(n) \/ PatchReplyLost(n)
      BY <2>1, <2>3, <2>4 DEF PatchRejected, PatchFails, PatchReplyLost, Beginnings
    <2>5. CASE PatchSucceeds(n) \/ OccupyCIDR(n) \/ AllocateExhausted(n)
      BY <2>1, <2>2, <2>5 DEF PatchSucceeds, OccupyCIDR, AllocateExhausted, Beginnings
    <2>6. CASE SyncNode(n)
      <3>1. work'[n].pc # "update" /\ \A m \in Nodes \ {n} : work'[m] = work[m]
        BY <2>6 DEF SyncNode, At, Worker
      <3> QED
        BY <2>1, <3>1 DEF Beginnings
    <2>7. CASE AllocateCIDR(n)
      <3>1. PICK c \in Free : Requeue(n) \/ work' = [work EXCEPT ![n] = Worker("update", c, 0)]
        BY <2>7 DEF AllocateCIDR
      <3>2. CASE work' = [work EXCEPT ![n] = Worker("update", c, 0)]
        <4>1. work'[n].attempt = 0 /\ \A m \in Nodes \ {n} : work'[m] = work[m]
          BY <3>2 DEF Worker
        <4> QED
          BY <2>1, <4>1 DEF Beginnings
      <3> QED
        BY <2>1, <2>2, <3>1, <3>2 DEF Beginnings
    <2>8. CASE UpdateCIDRs(n)
      <3>1. CASE work' = [work EXCEPT ![n].pc = "patch"]
        <4>1. work'[n].pc = "patch" /\ \A m \in Nodes \ {n} : work'[m] = work[m]
          BY <3>1 DEF Workers
        <4> QED
          BY <2>1, <4>1 DEF Beginnings
      <3> QED
        BY <2>1, <2>2, <2>8, <3>1 DEF UpdateCIDRs, Beginnings
    <2> QED
      BY <1>4, <2>4, <2>5, <2>6, <2>7, <2>8 DEF ProcessNextNodeWorkItem
  <1> QED
    BY <1>1, <1>2, <1>3, <1>4 DEF Next

\* How the block c leaks from the node n, as LeaksAccepted says.
LeaksFrom(n, c) ==
    \/ work[n].pc = "synced" /\ c \notin used
    \/ work[n] = Worker("update", c, 0) /\ lister[n].phase = "absent"
    \/ work[n] = Worker("patch", c, CidrUpdateRetries - 1) /\ disruptions' > disruptions
    \/ status = "listed" /\ c \in HeldBy(n)
    \/ c \in Missed(n) \ Missed(n)' /\ disruptions' > disruptions

\* The node n accounts for the block c.
Owns(n, c) == c \in InFlight(n) \cup HeldBy(n) \cup Missed(n)

\* A block that leaks in a step leaks in one of the ways that are accepted.
LEMMA StepLeaks ==
  ASSUME NoLostReplies, IndInv, Beginnings, Next, NEW c \in Leaked' \ Leaked
  PROVE  \E n \in Nodes : LeaksFrom(n, c)
  <1> USE DEF IndInv, TypeInv, TypeOK, pool, informer
  <1>1. /\ c \in used' /\ c \notin deletes'
        /\ \A n \in Nodes : c \notin InFlight(n)' /\ c \notin HeldBy(n)' /\ c \notin Missed(n)'
        /\ c \notin used \/ c \in deletes \/ \E n \in Nodes : Owns(n, c)
        /\ c \notin Reserved
    BY SMT DEF Leaked, Owns, Reserved
  <1>2. CASE Start
    BY <1>1, <1>2 DEF Start, Held, HeldBy
  <1>3. CASE Run \/ Crash
    BY <1>1, <1>3 DEF Run, Crash, Owns, InFlight, HeldBy, Missed
  <1>4. CASE ReleaseCIDR
    BY <1>1, <1>4 DEF ReleaseCIDR, Release, Owns, InFlight, HeldBy, Missed
  <1>5. ASSUME NEW n \in Nodes, Environment(n) \/ Informer(n)
        PROVE  \E m \in Nodes : LeaksFrom(m, c)
    <2>0. /\ used' = used /\ c \in used /\ \A m \in Nodes : InFlight(m)' = InFlight(m)
          /\ deletes \subseteq deletes'
      BY <1>1, <1>5 DEF Environment, CreateNode, MarkDeleting, RemoveNode, Informer,
           ObserveUpdate, ObserveHeartbeat, ObserveDelete, Relist, InFlight
    <2>1. PICK m \in Nodes : c \in HeldBy(m) \cup Missed(m)
      BY <1>1, <2>0 DEF Owns
    <2>2. CASE CreateNode(n)
      <3>1. HeldBy(m)' = HeldBy(m) /\ Missed(m)' = Missed(m)
        BY <2>2 DEF CreateNode, Missed, HeldBy, AbsentHoldsNothing, Node
      <3> QED
        BY <1>1, <2>1, <3>1
    <2>3. CASE MarkDeleting(n)
      <3>1. HeldBy(m)' = HeldBy(m) /\ Missed(m)' = Missed(m)
        BY <2>3 DEF MarkDeleting, Missed, HeldBy, NodeObjects
      <3> QED
        BY <1>1, <2>1, <3>1
    <2>4. CASE RemoveNode(n)
      <3>1. m # n => HeldBy(m)' = HeldBy(m) /\ Missed(m)' = Missed(m)
        BY <2>4 DEF RemoveNode, Missed, HeldBy
      <3>2. Missed(m) \subseteq Missed(m)'
        BY <2>4 DEF RemoveNode, Missed
      <3>3. m = n /\ c \in HeldBy(n)
        BY <1>1, <2>1, <3>1, <3>2
      <3>4. status # "running"
        BY <1>1, <2>4, <3>3 DEF RemoveNode, Missed, HeldBy
      <3>5. status = "listed"
        BY <2>0, <3>4 DEF Beginnings
      <3> QED
        BY <3>3, <3>5 DEF LeaksFrom
    <2>5. CASE ObserveUpdate(n) \/ ObserveHeartbeat(n)
      BY <1>1, <2>1, <2>5 DEF ObserveUpdate, ObserveHeartbeat, HeldBy, Missed
    <2>6. CASE ObserveDelete(n)
      BY <1>1, <2>1, <2>6, SMT DEF ObserveDelete, HeldBy, Missed
    <2>7. CASE Relist(n)
      <3>1. HeldBy(m)' = HeldBy(m) /\ (m # n => Missed(m)' = Missed(m))
        BY <2>7 DEF Relist, HeldBy, Missed
      <3>2. m = n /\ c \in Missed(n) /\ c \notin Missed(n)'
        BY <1>1, <2>1, <3>1
      <3>3. disruptions' > disruptions
        BY <2>7, SMT DEF Relist, Disrupt
      <3> QED
        BY <3>2, <3>3 DEF LeaksFrom
    <2> QED
      BY <1>5, <2>2, <2>3, <2>4, <2>5, <2>6, <2>7 DEF Environment, Informer
  <1>6. ASSUME NEW n \in Nodes, ProcessNextNodeWorkItem(n)
        PROVE  LeaksFrom(n, c)
    <2>1. deletes' = deletes /\ \A m \in Nodes : Missed(m)' = Missed(m)
      BY <1>6 DEF ProcessNextNodeWorkItem, SyncNode, OccupyCIDR, AllocateCIDR,
                  AllocateExhausted, UpdateCIDRs, PatchSucceeds, PatchRejected, PatchFails,
                  PatchReplyLost, Missed
    <2>2. c \notin used \/ \E m \in Nodes : c \in InFlight(m) \cup HeldBy(m)
      BY <1>1, <2>1 DEF Owns
    <2>3. \A m \in Nodes \ {n} : work'[m] = work[m] /\ InFlight(m)' = InFlight(m)
      <3>1. \A m \in Nodes \ {n} : work'[m] = work[m]
        BY <1>6 DEF ProcessNextNodeWorkItem, SyncNode, OccupyCIDR, AllocateCIDR,
                    AllocateExhausted, UpdateCIDRs, PatchSucceeds, PatchRejected, PatchFails,
                    PatchReplyLost, AttemptFailed, Done, Requeue
      <3> QED
        BY <3>1 DEF InFlight
    <2>4. ASSUME api' = api, c \in used PROVE c \in InFlight(n)
      BY <1>1, <2>2, <2>3, <2>4 DEF HeldBy
    <2>5. work[n] = Worker(work[n].pc, work[n].cidr, work[n].attempt)
      BY DEF Workers, Worker
    <2>6. ASSUME NEW t, At(n, "patch"), AttemptFailed(n, t), api' = api,
                 t => disruptions' > disruptions
          PROVE  LeaksFrom(n, c)
      <3>1. c \in used
        BY <1>1, <2>6 DEF AttemptFailed, Release
      <3>2. c = work[n].cidr
        BY <2>4, <2>6, <3>1 DEF InFlight
      <3>3. ~(work[n].attempt + 1 < CidrUpdateRetries)
        <4> SUFFICES ASSUME work[n].attempt + 1 < CidrUpdateRetries PROVE FALSE
          OBVIOUS
        <4>1. work' = [work EXCEPT ![n].attempt = @ + 1]
          BY <2>6 DEF AttemptFailed
        <4>2. work'[n].pc = "patch" /\ work'[n].cidr = c
          BY <2>6, <3>2, <4>1 DEF At, Workers
        <4> QED
          BY <1>1, <4>2 DEF InFlight
      <3>4. work[n].attempt = CidrUpdateRetries - 1
        BY <3>3, RetriesAssumption, SMT DEF Workers
      <3>5. disruptions' > disruptions
        BY <1>1, <2>6, <3>2, <3>3 DEF AttemptFailed, Release
      <3> QED
        BY <2>5, <2>6, <3>2, <3>4, <3>5 DEF LeaksFrom, At
    <2>7. CASE SyncNode(n)
      BY <2>4, <2>7, <1>1 DEF SyncNode, At, InFlight
    <2>8. CASE OccupyCIDR(n) \/ AllocateCIDR(n)
      <3>1. work[n].pc = "synced" /\ api' = api
        BY <2>8 DEF OccupyCIDR, AllocateCIDR, At
      <3>2. c \notin used
        BY <2>4, <3>1 DEF InFlight
      <3> QED
        BY <3>1, <3>2 DEF LeaksFrom
    <2>9. CASE AllocateExhausted(n)
      BY <2>4, <2>9, <1>1 DEF AllocateExhausted, At, InFlight
    <2>10. CASE UpdateCIDRs(n)
      <3>1. work[n].pc = "update" /\ api' = api /\ c \in used
        BY <1>1, <2>10 DEF UpdateCIDRs, At, Release
      <3>2. c = work[n].cidr
        BY <2>4, <3>1 DEF InFlight
      <3>3. ~(lister[n].phase # "absent" /\ lister[n].cidr \notin {NoCIDR, work[n].cidr}
              /\ Release(work[n].cidr))
        BY <1>1, <3>2 DEF Release
      <3>4. lister[n].cidr # work[n].cidr
        <4>1. status # "down"
          BY <2>10 DEF UpdateCIDRs, At
        <4>2. c # NoCIDR
          BY <3>1, NoCIDRAssumption
        <4>3. lister[n].cidr \in HeldBy(n) \cup Missed(n) \cup {NoCIDR}
          BY <4>1 DEF OneOwner
        <4>4. HeldBy(n)' = HeldBy(n)
          BY <3>1 DEF HeldBy
        <4> QED
          BY <1>1, <2>1, <3>2, <4>2, <4>3, <4>4
      <3>5. work' # [work EXCEPT ![n].pc = "patch"]
        <4> SUFFICES ASSUME work' = [work EXCEPT ![n].pc = "patch"] PROVE FALSE
          OBVIOUS
        <4>1. work'[n].pc = "patch" /\ work'[n].cidr = c
          BY <3>2 DEF Workers
        <4> QED
          BY <1>1, <4>1, SMT DEF InFlight
      <3>6. lister[n].phase = "absent"
        BY <2>10, <3>3, <3>4, <3>5 DEF UpdateCIDRs
      <3> QED
        BY <2>5, <3>1, <3>2, <3>6 DEF LeaksFrom, Beginnings
    <2>11. CASE PatchSucceeds(n)
      <3>1. c \in used
        BY <1>1, <2>11 DEF PatchSucceeds
      <3>2. /\ api'[n].cidr = work[n].cidr /\ api[n].cidr \in {NoCIDR, work[n].cidr}
            /\ \A m \in Nodes \ {n} : api'[m] = api[m]
        BY <2>11, SMT DEF PatchSucceeds, Accepts, NodeObjects
      <3>3. c # NoCIDR
        BY <3>1, NoCIDRAssumption
      <3>4. c # work[n].cidr
        BY <1>1, <3>2, <3>3 DEF HeldBy
      <3>5. c \notin InFlight(n) \cup HeldBy(n)
        BY <3>2, <3>3, <3>4 DEF InFlight, HeldBy
      <3>6. \A m \in Nodes \ {n} : HeldBy(m)' = HeldBy(m)
        BY <3>2 DEF HeldBy
      <3> QED
        BY <1>1, <2>2, <2>3, <3>1, <3>5, <3>6
    <2>12. CASE PatchRejected(n)
      BY <2>6, <2>12 DEF PatchRejected
    <2>13. CASE PatchFails(n)
      <3>1. disruptions' > disruptions
        <4>1. PICK kind \in EventKinds : Disrupt(kind)
          BY <2>13 DEF PatchFails, EventKinds
        <4> QED
          BY <4>1, EventsAssumption, SMT DEF Disrupt
      <3>2. PICK t \in BOOLEAN : AttemptFailed(n, t)
        BY <2>13 DEF PatchFails
      <3>3. At(n, "patch") /\ api' = api
        BY <2>13 DEF PatchFails
      <3> QED
        BY <2>6, <3>1, <3>2, <3>3
    <2>14. CASE PatchReplyLost(n)
      BY <2>14 DEF PatchReplyLost, Disrupt, NoLostReplies
    <2> QED
      BY <1>6, <2>7, <2>8, <2>9, <2>10, <2>11, <2>12, <2>13, <2>14 DEF ProcessNextNodeWorkItem
  <1> QED
    BY <1>2, <1>3, <1>4, <1>5, <1>6 DEF Next

\* When every patch that takes effect is reported as a success, a block is lost to the
\* pool only in the ways that LeaksAccepted lists: never by a request that the API server
\* refuses, by a node that turns out to have another CIDR, or by a deletion that is observed.
THEOREM LeaksAreAccepted == ASSUME NoLostReplies PROVE Spec => LeaksAccepted
  <1>1. Init => IndInv /\ Beginnings
    <2>1. Init => Beginnings
      BY SMT DEF Init, Beginnings, Idle, Worker
    <2> QED
      BY <2>1, InitIndInv
  <1>2. IndInv /\ Beginnings /\ [Next]_vars => (IndInv /\ Beginnings)'
    BY NextIndInv, NextBeginnings DEF IndInv
  <1>3. IndInv /\ Beginnings /\ [Next]_vars =>
          [\A c \in Leaked' \ Leaked : \E n \in Nodes : LeaksFrom(n, c)]_vars
    BY StepLeaks
  <1> QED
    BY <1>1, <1>2, <1>3, PTL DEF Spec, LeaksAccepted, LeaksFrom

-----------------------------------------------------------------------------
\* The reserved block stays used and has no owner.
ReserveKept ==
    /\ status # "down" => Reserved \subseteq used
    /\ deletes \cap Reserved = {}
    /\ \A n \in Nodes : (InFlight(n) \cup HeldBy(n) \cup Missed(n)) \cap Reserved = {}

\* Every step keeps reserved blocks marked and without owner.
LEMMA NextReserveKept ==
  ASSUME NoLostReplies, IndInv, ReserveKept, [Next]_vars
  PROVE  ReserveKept'
  <1> USE DEF IndInv, TypeInv, pool, informer
  <1>0. Idle.pc = "idle"
    BY DEF Idle, Worker
  <1>1. CASE Start \/ Run \/ Crash
    BY <1>0, <1>1 DEF Start, Run, Crash, ReserveKept, Quiet, InFlight, HeldBy, Missed
  <1>2. CASE ReleaseCIDR
    BY <1>2 DEF ReleaseCIDR, Release, ReserveKept, InFlight, HeldBy, Missed
  <1>3. ASSUME NEW n \in Nodes, Environment(n) PROVE ReserveKept'
    <2>1. \A m \in Nodes : /\ HeldBy(m)' \subseteq HeldBy(m)
                           /\ Missed(m)' \subseteq Missed(m) \cup HeldBy(m)
                           /\ InFlight(m)' = InFlight(m)
      <3>1. CASE CreateNode(n)
        BY <3>1 DEF CreateNode, HeldBy, Missed, InFlight, TypeOK, Node
      <3>2. CASE MarkDeleting(n)
        <4>1. \A m \in Nodes : api'[m].cidr = api[m].cidr
          BY <3>2 DEF MarkDeleting, TypeOK, NodeObjects
        <4> QED
          BY <3>2, <4>1 DEF MarkDeleting, HeldBy, Missed, InFlight
      <3>3. CASE RemoveNode(n)
        BY <3>3 DEF RemoveNode, HeldBy, Missed, InFlight, TypeOK, Absent, Node
      <3> QED
        BY <1>3, <3>1, <3>2, <3>3 DEF Environment
    <2>2. UNCHANGED <<used, deletes, status>>
      BY <1>3 DEF Environment, CreateNode, MarkDeleting, RemoveNode
    <2> QED
      BY <2>1, <2>2 DEF ReserveKept
  <1>4. ASSUME NEW n \in Nodes, Informer(n) PROVE ReserveKept'
    <2>1. \A m \in Nodes : /\ HeldBy(m)' = HeldBy(m)
                           /\ Missed(m)' \subseteq Missed(m)
                           /\ InFlight(m)' = InFlight(m)
      BY <1>4, SMTT(30) DEF Informer, ObserveUpdate, ObserveHeartbeat, ObserveDelete, Relist,
                  HeldBy, Missed, InFlight, TypeOK
    <2>2. deletes' \subseteq deletes \cup HeldBy(n) \cup Missed(n)
      BY <1>4, SMT DEF Informer, ObserveUpdate, ObserveHeartbeat, ObserveDelete, Relist,
                  OneOwner, Missed
    <2>3. UNCHANGED <<used, status>>
      BY <1>4 DEF Informer, ObserveUpdate, ObserveHeartbeat, ObserveDelete, Relist
    <2> QED
      BY <2>1, <2>2, <2>3, SMTT(30) DEF ReserveKept
  <1>5. ASSUME NEW n \in Nodes, ProcessNextNodeWorkItem(n) PROVE ReserveKept'
    <2>1. UNCHANGED <<status, missed, deletes>> /\ status = "running"
      BY <1>5 DEF ProcessNextNodeWorkItem, SyncNode, OccupyCIDR, AllocateCIDR,
                  AllocateExhausted, UpdateCIDRs, PatchSucceeds, PatchRejected,
                  PatchFails, PatchReplyLost, At
    <2>2. Done(n) \/ Requeue(n) => \A m \in Nodes : InFlight(m)' \subseteq InFlight(m)
      BY <1>0 DEF Done, Requeue, InFlight, TypeOK
    <2>3. /\ Reserved \subseteq used'
          /\ \A m \in Nodes : InFlight(m)' \cap Reserved = {}
      <3>1. CASE SyncNode(n)
        BY <2>1, <3>1 DEF SyncNode, At, InFlight, TypeOK, Worker, ReserveKept
      <3>2. CASE OccupyCIDR(n) \/ AllocateExhausted(n)
        BY <2>1, <2>2, <3>2 DEF OccupyCIDR, AllocateExhausted, Occupy, ReserveKept
      <3>3. CASE AllocateCIDR(n)
        <4>1. PICK c \in Free : /\ AllocateNext(c)
                                /\ \/ work' = [work EXCEPT ![n] = Worker("update", c, 0)]
                                   \/ Requeue(n)
          BY <3>3 DEF AllocateCIDR
        <4>2. \A m \in Nodes : InFlight(m)' \subseteq InFlight(m) \cup {c}
          BY <2>2, <4>1, SMT DEF InFlight, TypeOK, Worker
        <4> QED
          BY <2>1, <4>1, <4>2 DEF AllocateNext, Free, ReserveKept
      <3>4. CASE UpdateCIDRs(n)
        <4>1. ASSUME work' = [work EXCEPT ![n].pc = "patch"]
              PROVE  \A m \in Nodes : InFlight(m)' = InFlight(m)
          <5>1. \A m \in Nodes : /\ work'[m].cidr = work[m].cidr
                                 /\ work'[m].pc = IF m = n THEN "patch" ELSE work[m].pc
            BY <4>1 DEF TypeOK, Workers
          <5> QED
            BY <3>4, <5>1 DEF UpdateCIDRs, At, InFlight
        <4>2. used' \in {used, used \ InFlight(n)}
          BY <3>4 DEF UpdateCIDRs, At, InFlight, Release
        <4> QED
          BY <2>1, <2>2, <3>4, <4>1, <4>2 DEF UpdateCIDRs, ReserveKept
      <3>5. CASE PatchSucceeds(n)
        BY <2>1, <2>2, <3>5 DEF PatchSucceeds, ReserveKept
      <3>6. ASSUME NEW t, At(n, "patch"), AttemptFailed(n, t)
            PROVE  /\ Reserved \subseteq used'
                   /\ \A m \in Nodes : InFlight(m)' \cap Reserved = {}
        <4>1. work' = [work EXCEPT ![n].attempt = @ + 1]
              => \A m \in Nodes : InFlight(m)' = InFlight(m)
          <5>1. work' = [work EXCEPT ![n].attempt = @ + 1] =>
                \A m \in Nodes : work'[m].pc = work[m].pc /\ work'[m].cidr = work[m].cidr
            BY SMT DEF TypeOK, Workers
          <5> QED
            BY <5>1 DEF InFlight
        <4>2. used' \in {used, used \ InFlight(n)}
          BY <3>6 DEF AttemptFailed, At, InFlight, Release
        <4> QED
          BY <2>1, <2>2, <3>6, <4>1, <4>2 DEF AttemptFailed, ReserveKept
      <3>7. CASE PatchRejected(n) \/ PatchFails(n)
        BY <3>6, <3>7 DEF PatchRejected, PatchFails
      <3>8. CASE PatchReplyLost(n)
        BY <3>8 DEF PatchReplyLost, Disrupt, NoLostReplies
      <3> QED
        BY <1>5, <3>1, <3>2, <3>3, <3>4, <3>5, <3>7, <3>8 DEF ProcessNextNodeWorkItem
    <2>4. \A m \in Nodes : HeldBy(m)' \subseteq HeldBy(m) \cup InFlight(m)
      <3>1. CASE PatchSucceeds(n)
        <4>1. \A m \in Nodes : api'[m].cidr = IF m = n THEN work[n].cidr ELSE api[m].cidr
          <5>1. api \in [Nodes -> NodeObjects] /\ api' = [api EXCEPT ![n].cidr = work[n].cidr]
            BY <3>1 DEF PatchSucceeds, TypeOK
          <5> QED
            BY <5>1 DEF NodeObjects
        <4> QED
          BY <3>1, <4>1 DEF PatchSucceeds, At, HeldBy, InFlight
      <3>2. CASE PatchReplyLost(n)
        BY <3>2 DEF PatchReplyLost, Disrupt, NoLostReplies
      <3>3. CASE api' = api
        BY <3>3 DEF HeldBy
      <3> QED
        BY <1>5, <3>1, <3>2, <3>3
           DEF ProcessNextNodeWorkItem, SyncNode, OccupyCIDR, AllocateCIDR,
               AllocateExhausted, UpdateCIDRs, PatchRejected, PatchFails
    <2> QED
      BY <2>1, <2>3, <2>4 DEF ReserveKept, Missed
  <1>6. CASE UNCHANGED vars
    BY <1>6 DEF vars, ReserveKept, InFlight, HeldBy, Missed
  <1> QED
    BY <1>1, <1>2, <1>3, <1>4, <1>5, <1>6 DEF Next

\* The allocator implements PodCIDRs: it gives a node only a block that is
\* neither reserved nor held by another node, and never takes one away from a
\* node that stays.  The final block must not be held from before the
\* reservation.
THEOREM AllocatorImplementsPodCIDRs ==
  ASSUME NoLostReplies, ~LegacyReserved
  PROVE  Spec => Refinement
  <1> DEFINE Inv == IndInv /\ ReserveKept
             cidrOf == [n \in Nodes |-> api[n].cidr]
  <1>1. Init => Inv /\ Promise!Init
    <2> SUFFICES ASSUME Init PROVE Inv /\ Promise!Init
      OBVIOUS
    <2>1. ReserveKept
      BY DEF Init, ReserveKept, InFlight, HeldBy, Missed, Idle, Worker, Held
    <2>2. Promise!Init
      BY DEF Init, Promise!Init
    <2> QED
      BY <2>1, <2>2, InitIndInv
  <1>2. Inv /\ [Next]_vars => Inv'
    BY NextIndInv, NextReserveKept
  <1>3. Inv /\ [Next]_vars => [Promise!Next]_cidrOf
    <2> SUFFICES ASSUME Inv, [Next]_vars PROVE [Promise!Next]_cidrOf
      OBVIOUS
    <2> USE DEF IndInv, TypeInv
    <2>1. ASSUME NEW n \in Nodes, CreateNode(n) \/ MarkDeleting(n) PROVE UNCHANGED cidrOf
      BY <2>1, SMT DEF CreateNode, MarkDeleting, AbsentHoldsNothing, TypeOK, NodeObjects, Node
    <2>2. ASSUME NEW n \in Nodes, RemoveNode(n) PROVE [Promise!Next]_cidrOf
      <3>1. cidrOf' = [cidrOf EXCEPT ![n] = NoCIDR]
        BY <2>2 DEF RemoveNode, TypeOK, Absent, Node
      <3>2. CASE api[n].cidr = NoCIDR
        BY <3>1, <3>2
      <3>3. CASE api[n].cidr # NoCIDR
        BY <3>1, <3>3 DEF Promise!Next, Promise!Withdraw
      <3> QED
        BY <3>2, <3>3
    <2>3. ASSUME NEW n \in Nodes, PatchSucceeds(n) PROVE [Promise!Next]_cidrOf
      <3>1. cidrOf' = [cidrOf EXCEPT ![n] = work[n].cidr]
        BY <2>3 DEF PatchSucceeds, TypeOK, NodeObjects
      <3>2. InFlight(n) = {work[n].cidr}
        BY <2>3 DEF PatchSucceeds, At, InFlight
      <3>3. work[n].cidr \in Blocks \ Reserved
        BY <2>3, <3>2 DEF PatchSucceeds, At, OneOwner, ReserveKept, TypeOK
      <3>4. \A m \in Nodes : api[m].cidr # work[n].cidr
        BY <3>2, <3>3, NoCIDRAssumption, SMT DEF OneOwner, HeldBy
      <3>5. api[n].cidr = NoCIDR
        BY <2>3, <3>4 DEF PatchSucceeds, Accepts
      <3>6. Promise!Assign(n)
        BY <3>1, <3>3, <3>4, <3>5 DEF Promise!Assign
      <3> QED
        BY <3>6 DEF Promise!Next
    <2>4. ASSUME NEW n \in Nodes, PatchReplyLost(n) PROVE FALSE
      BY <2>4 DEF PatchReplyLost, Disrupt, NoLostReplies
    <2>5. CASE UNCHANGED api
      BY <2>5
    <2> QED
      BY <2>1, <2>2, <2>3, <2>4, <2>5
         DEF Next, vars, Environment, Informer, ProcessNextNodeWorkItem, Start, Run, Crash,
             ReleaseCIDR, ObserveUpdate, ObserveHeartbeat, ObserveDelete, Relist,
             SyncNode, OccupyCIDR, AllocateCIDR, AllocateExhausted, UpdateCIDRs,
             PatchRejected, PatchFails
  <1> QED
    BY <1>1, <1>2, <1>3, PTL DEF Spec, Refinement, Promise!Spec
=============================================================================
