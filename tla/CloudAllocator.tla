--------------------------- MODULE CloudAllocator ---------------------------
(***************************************************************************)
(* The node IPAM allocator of cloud/nodeipam/ipam/cloud_allocator.go: the  *)
(* CIDR set, the work queue and its workers, the informer's delete         *)
(* handler, the start-up occupation of the CIDRs that nodes already hold,  *)
(* and the Kubernetes API and informer cache they work against.            *)
(*                                                                         *)
(* A block of the cluster CIDR is a number in 0 .. NumBlocks-1.  The IPv6  *)
(* CIDR of a node is derived from its own instance and is never pooled,    *)
(* so only the success or failure of deriving it is kept.  The work queue  *)
(* never hands one key to two workers, so the worker that processes node n *)
(* is work[n]; there are 30 workers, and the model has fewer nodes.        *)
(***************************************************************************)
EXTENDS Integers, FiniteSets

CONSTANTS
    Nodes,              \* node names
    NumBlocks,          \* node CIDR blocks in the cluster CIDR
    NoCIDR,             \* the empty Spec.PodCIDRs
    Foreign,            \* pod CIDRs outside the cluster CIDR
    ReserveFinal,       \* shouldReserveFinalIPv4Block
    ServiceBlocks,      \* blocks inside the service CIDRs
    LegacyReserved,     \* a node may hold a reserved block from before
    DisableIPv6,        \* disableIPv6NodeCIDRAllocation
    CidrUpdateRetries,  \* cidrUpdateRetries
    Events,             \* the environment events that may happen
    MaxDisruptions      \* bound: how many of them a behaviour has

Blocks == 0 .. (NumBlocks - 1)

\* What may go wrong around the allocator.  "other" and "serverTimeout" are
\* PATCH requests that fail without effect; "lostOther" and
\* "lostServerTimeout" are requests that were applied although the client is
\* told of that error.  "relist" is a broken watch.
EventKinds == {"remove", "ipv6", "crash", "relist",
               "other", "serverTimeout", "lostOther", "lostServerTimeout"}

ASSUME BlocksAssumption == NumBlocks \in Nat \ {0}
ASSUME NoCIDRAssumption == NoCIDR \notin Blocks \cup Foreign
ASSUME ForeignAssumption == Foreign \cap Blocks = {}
ASSUME FlagsAssumption ==
    {ReserveFinal, LegacyReserved, DisableIPv6} \subseteq BOOLEAN
ASSUME ServiceAssumption == ServiceBlocks \subseteq Blocks
ASSUME RetriesAssumption == CidrUpdateRetries \in Nat \ {0}
ASSUME EventsAssumption == Events \subseteq EventKinds /\ MaxDisruptions \in Nat

VARIABLES
    api,            \* the Node objects in the API server
    lister,         \* the informer cache behind nodeLister
    missed,         \* deletions the informer has not yet read, by node
    deletes,        \* delete notifications DeleteFunc has not yet handled
    status,         \* the process: down, listed (constructed), running
    used,           \* cidrSet: the blocks marked as used
    nextCandidate,  \* cidrSet.nextCandidate
    queue,          \* the work queue's dirty keys
    work,           \* the worker processing each key
    disruptions     \* how many of the events happened

informer == <<lister, missed, deletes>>
pool == <<used, nextCandidate>>
vars == <<api, lister, missed, deletes, status, used, nextCandidate, queue,
          work, disruptions>>

Node(phase, cidr) == [phase |-> phase, cidr |-> cidr]
Absent == Node("absent", NoCIDR)
NodeObjects == [phase : {"absent", "present", "deleting"},
                cidr  : Blocks \cup Foreign \cup {NoCIDR}]

Worker(pc, cidr, attempt) == [pc |-> pc, cidr |-> cidr, attempt |-> attempt]
Idle == Worker("idle", NoCIDR, 0)
Workers == [pc      : {"idle", "synced", "update", "patch"},
            cidr    : Blocks \cup {NoCIDR},
            attempt : 0 .. (CidrUpdateRetries - 1)]

TypeOK ==
    /\ api \in [Nodes -> NodeObjects]
    /\ lister \in [Nodes -> NodeObjects]
    /\ missed \in [Nodes -> SUBSET (Blocks \cup {NoCIDR})]
    /\ deletes \subseteq Blocks
    /\ status \in {"down", "listed", "running"}
    /\ used \subseteq Blocks
    /\ nextCandidate \in Blocks
    /\ queue \subseteq Nodes
    /\ work \in [Nodes -> Workers]
    /\ disruptions \in 0 .. MaxDisruptions

-----------------------------------------------------------------------------
\* The pool, cidrset.CidrSet.

Exists(n) == api[n].phase # "absent"
Held == {api[n].cidr : n \in Nodes} \ {NoCIDR}

\* The blocks occupied at start-up for good: the one with the VPC subnet's
\* last address, and those filterOutServiceRange takes out.
Reserved == (IF ReserveFinal THEN {NumBlocks - 1} ELSE {}) \cup ServiceBlocks
Free == Blocks \ used

Distance(c) == (c - nextCandidate) % NumBlocks

\* AllocateNext: the first free block at or after nextCandidate, cyclically.
AllocateNext(c) ==
    /\ c \in Free
    /\ \A d \in Free : Distance(c) <= Distance(d)
    /\ used' = used \cup {c}
    /\ nextCandidate' = (c + 1) % NumBlocks

Occupy(c) == used' = used \cup {c} /\ UNCHANGED nextCandidate
Release(c) == used' = used \ {c} /\ UNCHANGED nextCandidate

-----------------------------------------------------------------------------
\* The environment.

Disrupt(kind) ==
    /\ kind \in Events
    /\ disruptions < MaxDisruptions
    /\ disruptions' = disruptions + 1

CreateNode(n) ==
    /\ ~Exists(n)
    /\ api' = [api EXCEPT ![n] = Node("present", NoCIDR)]
    /\ UNCHANGED <<informer, status, pool, queue, work, disruptions>>

\* A deletion that waits for a finalizer sets the DeletionTimestamp.
MarkDeleting(n) ==
    /\ api[n].phase = "present"
    /\ Disrupt("remove")
    /\ api' = [api EXCEPT ![n].phase = "deleting"]
    /\ UNCHANGED <<informer, status, pool, queue, work>>

RemoveNode(n) ==
    /\ Exists(n)
    /\ Disrupt("remove")
    /\ api' = [api EXCEPT ![n] = Absent]
    /\ missed' = IF status = "running"
                 THEN [missed EXCEPT ![n] = @ \cup {api[n].cidr}]
                 ELSE missed
    /\ UNCHANGED <<lister, deletes, status, pool, queue, work>>

-----------------------------------------------------------------------------
\* The informer: its goroutine keeps the cache, the handlers run behind it.

\* AddFunc and UpdateFunc, for an object that differs from the cached one.
ObserveUpdate(n) ==
    /\ status = "running"
    /\ missed[n] = {}
    /\ Exists(n)
    /\ lister[n] # api[n]
    /\ lister' = [lister EXCEPT ![n] = api[n]]
    /\ queue' = queue \cup {n}
    /\ UNCHANGED <<api, missed, deletes, status, pool, work, disruptions>>

\* UpdateFunc, for an update of other parts of the Node: labels, status.
ObserveHeartbeat(n) ==
    /\ status = "running"
    /\ Exists(n)
    /\ lister[n] = api[n]
    /\ n \notin queue
    /\ queue' = queue \cup {n}
    /\ UNCHANGED <<api, informer, status, pool, work, disruptions>>

\* A DELETED watch event carries the last state of the object.
ObserveDelete(n) ==
    /\ status = "running"
    /\ \E c \in missed[n] :
         /\ missed' = [missed EXCEPT ![n] = @ \ {c}]
         /\ deletes' = deletes \cup ({c} \ {NoCIDR})
    /\ lister' = [lister EXCEPT ![n] = Absent]
    /\ UNCHANGED <<api, status, pool, queue, work, disruptions>>

\* The watch broke and the informer lists again: DeleteFunc gets a tombstone
\* with the cached state, and a node that is back looks like an update.
Relist(n) ==
    /\ status = "running"
    /\ missed[n] # {}
    /\ Disrupt("relist")
    /\ missed' = [missed EXCEPT ![n] = {}]
    /\ lister' = [lister EXCEPT ![n] = api[n]]
    /\ IF Exists(n)
       THEN queue' = queue \cup {n} /\ UNCHANGED deletes
       ELSE /\ deletes' = deletes \cup ({lister[n].cidr} \ {NoCIDR})
            /\ UNCHANGED queue
    /\ UNCHANGED <<api, status, pool, work>>

\* DeleteFunc: ReleaseCIDR of the node that went away.
ReleaseCIDR ==
    /\ status = "running"
    /\ \E c \in deletes : deletes' = deletes \ {c} /\ Release(c)
    /\ UNCHANGED <<api, lister, missed, status, queue, work, disruptions>>

-----------------------------------------------------------------------------
\* A worker.  Done(n) and Requeue(n) are the two ends of
\* processNextNodeWorkItem: Forget, or AddRateLimited.

Done(n) == work' = [work EXCEPT ![n] = Idle] /\ UNCHANGED queue

\* Mutant of Requeue: the key of a failed sync is forgotten.
RequeueForgets(n) == work' = [work EXCEPT ![n] = Idle] /\ UNCHANGED queue
Requeue(n) == work' = [work EXCEPT ![n] = Idle] /\ queue' = queue \cup {n}

At(n, pc) == status = "running" /\ work[n].pc = pc

\* syncNode up to the cached node it hands to AllocateOrOccupyCIDR.
SyncNode(n) ==
    /\ At(n, "idle")
    /\ n \in queue
    /\ queue' = queue \ {n}
    /\ work' = IF lister[n].phase = "present"
               THEN [work EXCEPT ![n] = Worker("synced", lister[n].cidr, 0)]
               ELSE work
    /\ UNCHANGED <<api, informer, status, pool, disruptions>>

\* AllocateOrOccupyCIDR of a node with a CIDR: occupyCIDRs.
OccupyCIDR(n) ==
    /\ At(n, "synced")
    /\ work[n].cidr # NoCIDR
    /\ Occupy(work[n].cidr)
    /\ Done(n)
    /\ UNCHANGED <<api, informer, status, disruptions>>

\* AllocateOrOccupyCIDR of a node without one.
AllocateCIDR(n) ==
    /\ At(n, "synced")
    /\ work[n].cidr = NoCIDR
    /\ \E c \in Free :
         /\ AllocateNext(c)
         /\ \/ /\ work' = [work EXCEPT ![n] = Worker("update", c, 0)]
               /\ UNCHANGED <<queue, disruptions>>
            \/ \* allocateIPv6CIDR fails; the IPv4 block stays allocated
               /\ ~DisableIPv6
               /\ Disrupt("ipv6")
               /\ Requeue(n)
    /\ UNCHANGED <<api, informer, status>>

AllocateExhausted(n) ==
    /\ At(n, "synced")
    /\ work[n].cidr = NoCIDR
    /\ Free = {}
    /\ Requeue(n)
    /\ UNCHANGED <<api, informer, status, pool, disruptions>>

\* updateCIDRsAllocation up to its loop: look at the cached node again.
UpdateCIDRs(n) ==
    /\ At(n, "update")
    /\ \/ /\ lister[n].phase = "absent"
          /\ Requeue(n)
          /\ UNCHANGED pool
       \/ /\ lister[n].phase # "absent"
          /\ lister[n].cidr \notin {NoCIDR, work[n].cidr}
          /\ Release(work[n].cidr)
          /\ Done(n)
       \/ /\ lister[n].phase # "absent"
          /\ lister[n].cidr = work[n].cidr
          /\ Done(n)
          /\ UNCHANGED pool
       \/ /\ lister[n].phase # "absent"
          /\ lister[n].cidr = NoCIDR
          /\ work' = [work EXCEPT ![n].pc = "patch"]
          /\ UNCHANGED <<queue, pool>>
    /\ UNCHANGED <<api, informer, status, disruptions>>

\* PatchNodeCIDRs.  The API server accepts CIDRs for a node that has none, or
\* the ones it already has.
Accepts(n, c) == Exists(n) /\ api[n].cidr \in {NoCIDR, c}

PatchSucceeds(n) ==
    /\ At(n, "patch")
    /\ Accepts(n, work[n].cidr)
    /\ api' = [api EXCEPT ![n].cidr = work[n].cidr]
    /\ Done(n)
    /\ UNCHANGED <<informer, status, pool, disruptions>>

\* Mutant of AttemptFailed: every failed attempt gives the block back.
AttemptFailedReleases(n, serverTimeout) ==
    /\ Release(work[n].cidr)
    /\ IF work[n].attempt + 1 < CidrUpdateRetries
       THEN work' = [work EXCEPT ![n].attempt = @ + 1] /\ UNCHANGED queue
       ELSE Requeue(n)

\* Mutant of AttemptFailed: the block of a failed assignment is never given back.
AttemptFailedKeeps(n, serverTimeout) ==
    /\ UNCHANGED pool
    /\ IF work[n].attempt + 1 < CidrUpdateRetries
       THEN work' = [work EXCEPT ![n].attempt = @ + 1] /\ UNCHANGED queue
       ELSE Requeue(n)

\* An attempt that returns an error.  After the last one, the block goes back
\* to the pool unless that error is a server timeout.
AttemptFailed(n, serverTimeout) ==
    IF work[n].attempt + 1 < CidrUpdateRetries
    THEN /\ work' = [work EXCEPT ![n].attempt = @ + 1]
         /\ UNCHANGED <<queue, pool>>
    ELSE /\ Requeue(n)
         /\ IF serverTimeout THEN UNCHANGED pool ELSE Release(work[n].cidr)

\* The API server refuses: NotFound or Invalid.
PatchRejected(n) ==
    /\ At(n, "patch")
    /\ ~Accepts(n, work[n].cidr)
    /\ AttemptFailed(n, FALSE)
    /\ UNCHANGED <<api, informer, status, disruptions>>

\* The request does not take effect.
PatchFails(n) ==
    /\ At(n, "patch")
    /\ \/ Disrupt("other") /\ AttemptFailed(n, FALSE)
       \/ Disrupt("serverTimeout") /\ AttemptFailed(n, TRUE)
    /\ UNCHANGED <<api, informer, status>>

\* The request takes effect and its answer is lost.
PatchReplyLost(n) ==
    /\ At(n, "patch")
    /\ Accepts(n, work[n].cidr)
    /\ api' = [api EXCEPT ![n].cidr = work[n].cidr]
    /\ \/ Disrupt("lostOther") /\ AttemptFailed(n, FALSE)
       \/ Disrupt("lostServerTimeout") /\ AttemptFailed(n, TRUE)
    /\ UNCHANGED <<informer, status>>

-----------------------------------------------------------------------------
\* The process.

\* Mutants of Start: the nodes' CIDRs are not occupied, or the final block is
\* not reserved.
StartForgetsHeld ==
    /\ status = "down"
    /\ Held \subseteq Blocks
    /\ status' = "listed"
    /\ used' = Reserved
    /\ UNCHANGED <<api, informer, nextCandidate, queue, work, disruptions>>

StartForgetsFinal ==
    /\ status = "down"
    /\ Held \subseteq Blocks
    /\ status' = "listed"
    /\ used' = Held
    /\ UNCHANGED <<api, informer, nextCandidate, queue, work, disruptions>>

\* New: list the nodes, occupy the reserved blocks and what nodes hold.  A
\* CIDR outside the cluster CIDR is an error that ends the process.
Start ==
    /\ status = "down"
    /\ Held \subseteq Blocks
    /\ status' = "listed"
    /\ used' = Reserved \cup Held
    /\ UNCHANGED <<api, informer, nextCandidate, queue, work, disruptions>>

\* Run: the informer's first list fills the cache, then the workers start.
Run ==
    /\ status = "listed"
    /\ status' = "running"
    /\ lister' = api
    /\ queue' = {n \in Nodes : Exists(n)}
    /\ UNCHANGED <<api, missed, deletes, pool, work, disruptions>>

Crash ==
    /\ status # "down"
    /\ Disrupt("crash")
    /\ status' = "down"
    /\ lister' = [n \in Nodes |-> Absent]
    /\ missed' = [n \in Nodes |-> {}]
    /\ deletes' = {}
    /\ used' = {}
    /\ nextCandidate' = 0
    /\ queue' = {}
    /\ work' = [n \in Nodes |-> Idle]
    /\ UNCHANGED api

-----------------------------------------------------------------------------
\* A new process meets the nodes of an earlier deployment, whose CIDRs are
\* distinct; without LegacyReserved none of them holds the reserved block.
Init ==
    /\ api \in [Nodes -> NodeObjects]
    /\ \A n \in Nodes : ~Exists(n) => api[n] = Absent
    /\ \A m, n \in Nodes : api[m].cidr = api[n].cidr => m = n \/ api[n].cidr = NoCIDR
    /\ LegacyReserved \/ Held \cap Reserved = {}
    /\ status = "down"
    /\ lister = [n \in Nodes |-> Absent]
    /\ missed = [n \in Nodes |-> {}]
    /\ deletes = {}
    /\ used = {}
    /\ nextCandidate = 0
    /\ queue = {}
    /\ work = [n \in Nodes |-> Idle]
    /\ disruptions = 0

Environment(n) == CreateNode(n) \/ MarkDeleting(n) \/ RemoveNode(n)

Informer(n) ==
    \/ ObserveUpdate(n)
    \/ ObserveHeartbeat(n)
    \/ ObserveDelete(n)
    \/ Relist(n)

ProcessNextNodeWorkItem(n) ==
    \/ SyncNode(n)
    \/ OccupyCIDR(n)
    \/ AllocateCIDR(n)
    \/ AllocateExhausted(n)
    \/ UpdateCIDRs(n)
    \/ PatchSucceeds(n)
    \/ PatchRejected(n)
    \/ PatchFails(n)
    \/ PatchReplyLost(n)

Next ==
    \/ Start
    \/ Run
    \/ Crash
    \/ ReleaseCIDR
    \/ \E n \in Nodes :
         Environment(n) \/ Informer(n) \/ ProcessNextNodeWorkItem(n)

Spec == Init /\ [][Next]_vars

\* The kubelet restarts the process; the informer's and the workers'
\* goroutines are scheduled and their calls return.  Nothing obliges nodes to
\* come and go, heartbeats to arrive or events to happen.
Fairness ==
    /\ WF_vars(Start)
    /\ WF_vars(Run)
    /\ WF_vars(ReleaseCIDR)
    /\ \A n \in Nodes :
         /\ WF_vars(ObserveUpdate(n))
         /\ WF_vars(ObserveDelete(n))
         /\ WF_vars(ProcessNextNodeWorkItem(n))

FairSpec == Spec /\ Fairness

-----------------------------------------------------------------------------
\* Properties.

\* No two nodes in the API server have the same pod CIDR.
NoDuplicateCIDR ==
    \A m, n \in Nodes : m # n /\ api[n].cidr # NoCIDR => api[m].cidr # api[n].cidr

\* The blocks a later step of the allocator may release, or a node holds:
\* the worker's block before it is patched, the deletions not yet handled.
InFlight(n) ==
    IF work[n].pc \in {"update", "patch"} THEN {work[n].cidr} ELSE {}
Missed(n) == missed[n] \ {NoCIDR}
HeldBy(n) == {api[n].cidr} \ {NoCIDR}

\* Every block has at most one owner among the nodes that hold it, the
\* workers that are assigning it and the pending releases of it; while the
\* allocator lives each owned block is marked as used, and what the cache
\* says a node holds is still held or about to be released.  So Release, in
\* ReleaseCIDR and in updateCIDRsAllocation, never frees a block of a node.
OneOwner ==
    /\ \A m, n \in Nodes :
         /\ InFlight(m) \cap (HeldBy(n) \cup Missed(n) \cup deletes) = {}
         /\ HeldBy(m) \cap (Missed(n) \cup deletes) = {}
         /\ m # n => /\ InFlight(m) \cap InFlight(n) = {}
                     /\ HeldBy(m) \cap HeldBy(n) = {}
                     /\ Missed(m) \cap Missed(n) = {}
    /\ \A n \in Nodes : Missed(n) \cap deletes = {}
    /\ status # "down" =>
         \A n \in Nodes :
           /\ InFlight(n) \cup HeldBy(n) \cup Missed(n) \cup deletes \subseteq used
           /\ lister[n].cidr \in HeldBy(n) \cup Missed(n) \cup {NoCIDR}

\* The used blocks that are neither reserved nor owned.  They come back to the
\* pool with the next start of the process.
Leaked ==
    used \ (Reserved \cup deletes
             \cup UNION {InFlight(n) \cup HeldBy(n) \cup Missed(n) : n \in Nodes})

\* updateCIDRsAllocation accepts that a block leaks when a request may have
\* gone through.  Beyond that one leaks only when the IPv6 CIDR of a fresh
\* block cannot be derived, when a worker occupies what was just released, when
\* the node left the cache before its update, when a deletion falls between the
\* first two lists, and when a broken watch hides the state it deleted.  No
\* request that the API server refuses leaks its block.
LeaksAccepted ==
    [][\A c \in Leaked' \ Leaked : \E n \in Nodes :
         \/ work[n].pc = "synced" /\ c \notin used
         \/ work[n] = Worker("update", c, 0) /\ lister[n].phase = "absent"
         \/ work[n] = Worker("patch", c, CidrUpdateRetries - 1) /\ disruptions' > disruptions
         \/ status = "listed" /\ c \in HeldBy(n)
         \/ c \in Missed(n) \ Missed(n)' /\ disruptions' > disruptions]_vars

\* Node IPAM does what PodCIDRs promises.
Promise == INSTANCE PodCIDRs WITH
    Assignable <- Blocks \ Reserved, cidrOf <- [n \in Nodes |-> api[n].cidr]
Refinement == Promise!Spec

\* A node that stays is given a pod CIDR, unless the pool runs out.
Served ==
    \A n \in Nodes :
      (api[n] = Node("present", NoCIDR))
         ~> (api[n] # Node("present", NoCIDR) \/ Free = {})
=============================================================================
