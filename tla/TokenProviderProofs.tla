------------------------- MODULE TokenProviderProofs -------------------------
(***************************************************************************)
(* Proofs about TokenProvider, for every set of callers, every TTL and     *)
(* every delay, and any grace that is long enough.                         *)
(***************************************************************************)
EXTENDS TokenProvider, TLAPS

\* Leaves are first-order, but those that cite SMT.
USE Zenon

\* The grace covers a read of the file that a rotation overtakes, the life of
\* what it puts into the cache, and a request that takes it from there.
LongGrace == Grace >= TTL + 2 * Delay

\* A health check has a request under way only while its stopCh is not nil, and
\* that is only while the channel is open.
Fires ==
    /\ signal = "set" => stopCh = "open"
    /\ ~At(Checker, "idle") => signal = "set"
    /\ source = "none" => \A c \in Callers : At(c, "idle")

TypeInv == TypeOK /\ Fires

\* The requests that the actions make are requests.
LEMMA RequestsMade ==
  ASSUME TypeOK, NEW c \in Callers,
         NEW pc \in {"check", "read", "store", "send"}, NEW k \in Tokens \cup {None}
  PROVE  /\ Idle \in Requests
         /\ End(c) \/ Goto(c, pc, k) => call' \in [Callers -> Requests]
  <1>1. Idle \in Requests
    BY TimeAssumption, SMT DEF Idle, Requests
  <1>2. call \in [Callers -> Requests] /\ call[c].age \in 0 .. Delay
    BY DEF TypeOK, Requests
  <1>3. [pc |-> pc, age |-> call[c].age, token |-> k] \in Requests
    BY <1>2 DEF Requests
  <1> QED
    BY <1>1, <1>2, <1>3 DEF End, Goto

\* They are those of one caller.
LEMMA OthersKept ==
  ASSUME TypeOK, NEW c \in Callers, NEW d \in Callers, NEW pc, NEW k
  PROVE  /\ End(c) => call'[d] = IF d = c THEN Idle ELSE call[d]
         /\ Goto(c, pc, k) => call'[d] = IF d = c THEN [pc |-> pc, age |-> call[c].age, token |-> k]
                                         ELSE call[d]
  BY DEF TypeOK, End, Goto

\* Where a request is after a step that moves it.
LEMMA PcAfter ==
  ASSUME TypeOK, NEW c \in Callers, NEW pc \in {"check", "read", "store", "send"}, NEW k
  PROVE  /\ End(c) => \A d \in Callers : At(d, "idle")' <=> d = c \/ At(d, "idle")
         /\ Goto(c, pc, k) => \A d \in Callers : At(d, "idle")' <=> d # c /\ At(d, "idle")
  <1>1. ASSUME End(c), NEW d \in Callers PROVE At(d, "idle")' <=> d = c \/ At(d, "idle")
    <2>1. call'[d] = IF d = c THEN Idle ELSE call[d]
      BY <1>1, OthersKept
    <2> QED
      BY <2>1, SMT DEF At, Idle
  <1>2. ASSUME Goto(c, pc, k), NEW d \in Callers
        PROVE  At(d, "idle")' <=> d # c /\ At(d, "idle")
    <2>1. call'[d] = IF d = c THEN [pc |-> pc, age |-> call[c].age, token |-> k] ELSE call[d]
      BY <1>2, OthersKept
    <2> QED
      BY <2>1, SMT DEF At
  <1> QED
    BY <1>1, <1>2

\* TypeOK and Fires hold in the initial states.
LEMMA InitTypeInv == Init => TypeInv
  <1> SUFFICES ASSUME Init PROVE TypeInv
    OBVIOUS
  <1>1. Idle \in Requests /\ Idle.pc = "idle"
    BY TimeAssumption, SMT DEF Idle, Requests
  <1>2. TypeOK
    BY <1>1, TimeAssumption, BoundsAssumption, SMT DEF Init, TypeOK, Tokens
  <1>3. Fires
    BY <1>1, CallersAssumption DEF Init, Fires, At
  <1> QED
    BY <1>2, <1>3 DEF TypeInv

\* Every step preserves them, for each action.
LEMMA NextTypeInv == TypeInv /\ [Next]_vars => TypeInv'
  <1> SUFFICES ASSUME TypeInv, [Next]_vars PROVE TypeInv'
    OBVIOUS
  <1>0. TypeOK /\ Fires
    BY DEF TypeInv
  <1>1. CASE Start
    <2>1. TypeOK'
      BY <1>0, <1>1, TimeAssumption, SMT DEF Start, TypeOK, secret, cache
    <2>2. Fires'
      BY <1>0, <1>1, CallersAssumption DEF Start, Fires, At
    <2> QED
      BY <2>1, <2>2 DEF TypeInv
  <1>2. CASE Exit
    <2>1. Idle \in Requests /\ Idle.pc = "idle"
      BY TimeAssumption, SMT DEF Idle, Requests
    <2>2. TypeOK'
      BY <1>0, <1>2, <2>1, TimeAssumption, BoundsAssumption, SMT DEF Exit, TypeOK, Disrupt, secret
    <2>3. Fires'
      BY <1>0, <1>2, <2>1, CallersAssumption DEF Exit, Fires, At
    <2> QED
      BY <2>2, <2>3 DEF TypeInv
  <1>3. ASSUME NEW c \in Callers, Request(c) \/ CallFails(c) PROVE TypeInv'
    <2>1. CASE Begin(c)
      <3>1. call' \in [Callers -> Requests]
        BY <1>0, <2>1, RequestsMade DEF Begin
      <3>2. TypeOK'
        BY <1>0, <2>1, <3>1 DEF Begin, TypeOK, secret, process, cache
      <3>3. Fires'
        BY <1>0, <2>1, PcAfter, CallersAssumption DEF Begin, Fires, process
      <3> QED
        BY <3>2, <3>3 DEF TypeInv
    <2>2. CASE CheckCache(c)
      <3>1. call' \in [Callers -> Requests]
        BY <1>0, <2>2, RequestsMade DEF CheckCache, TypeOK
      <3>2. TypeOK'
        BY <1>0, <2>2, <3>1 DEF CheckCache, TypeOK, secret, process, cache
      <3>3. Fires'
        BY <1>0, <2>2, PcAfter, CallersAssumption DEF CheckCache, Fires, At, process
      <3> QED
        BY <3>2, <3>3 DEF TypeInv
    <2>3. CASE ReadFile(c)
      <3>1. call' \in [Callers -> Requests]
        BY <1>0, <2>3, RequestsMade DEF ReadFile, TypeOK
      <3>2. TypeOK'
        BY <1>0, <2>3, <3>1 DEF ReadFile, TypeOK, secret, process, cache
      <3>3. Fires'
        BY <1>0, <2>3, PcAfter, CallersAssumption DEF ReadFile, Fires, At, process
      <3> QED
        BY <3>2, <3>3 DEF TypeInv
    <2>4. CASE Store(c)
      <3>0. call[c].token \in Tokens \cup {None}
        BY <1>0 DEF TypeOK, Requests
      <3>1. call' \in [Callers -> Requests]
        BY <1>0, <2>4, <3>0, RequestsMade DEF Store
      <3>2. TypeOK'
        BY <1>0, <2>4, <3>0, <3>1, TimeAssumption, SMT DEF Store, TypeOK, secret, process
      <3>3. Fires'
        BY <1>0, <2>4, PcAfter, CallersAssumption DEF Store, Fires, At, process
      <3> QED
        BY <3>2, <3>3 DEF TypeInv
    <2>5. CASE Answer(c)
      <3>1. call' \in [Callers -> Requests]
        BY <1>0, <2>5, RequestsMade DEF Answer
      <3>2. TypeOK'
        BY <1>0, <2>5, <3>1 DEF Answer, Close, TypeOK, Fires, At, secret, cache
      <3>3. Fires'
        BY <1>0, <2>5, PcAfter, CallersAssumption DEF Answer, Close, Fires, At
      <3> QED
        BY <3>2, <3>3 DEF TypeInv
    <2>6. CASE CallFails(c)
      <3>1. call' \in [Callers -> Requests]
        BY <1>0, <2>6, RequestsMade DEF CallFails
      <3>2. TypeOK'
        BY <1>0, <2>6, <3>1, BoundsAssumption, SMT DEF CallFails, Disrupt, TypeOK, secret, process, cache
      <3>3. Fires'
        BY <1>0, <2>6, PcAfter, CallersAssumption DEF CallFails, Fires, At, process
      <3> QED
        BY <3>2, <3>3 DEF TypeInv
    <2> QED
      BY <1>3, <2>1, <2>2, <2>3, <2>4, <2>5, <2>6 DEF Request
  <1>4. CASE Rotate
    <2>1. TypeOK'
      BY <1>0, <1>4, TimeAssumption, BoundsAssumption, SMT DEF Rotate, TypeOK, Tokens, process, cache
    <2> QED
      BY <1>0, <1>4, <2>1 DEF Rotate, TypeInv, Fires, At, process
  <1>5. CASE Unmount \/ Mount
    <2>1. disruptions' \in 0 .. MaxDisruptions /\ file' \in {"there", "gone"}
      BY <1>0, <1>5, BoundsAssumption, SMT DEF Unmount, Mount, Disrupt, TypeOK
    <2>2. TypeOK'
      BY <1>0, <1>5, <2>1 DEF Unmount, Mount, TypeOK, process, cache
    <2> QED
      BY <1>0, <1>5, <2>2 DEF Unmount, Mount, TypeInv, Fires, At, process
  <1>6. CASE Tick
    <2>1. \A c \in Callers :
            /\ At(c, "idle") => call'[c] = call[c]
            /\ ~At(c, "idle") => /\ call'[c] = [pc |-> call[c].pc, age |-> call[c].age + 1,
                                                token |-> call[c].token]
                                 /\ call[c].age < Delay
      BY <1>6 DEF Tick, At
    <2>2. ASSUME NEW c \in Callers PROVE call'[c] \in Requests /\ call'[c].pc = call[c].pc
      <3>1. /\ call[c] \in Requests
            /\ call[c].pc \in {"idle", "check", "read", "store", "send"}
            /\ call[c].age \in 0 .. Delay
            /\ call[c].token \in Tokens \cup {None}
        BY <1>0 DEF TypeOK, Requests
      <3>2. CASE At(c, "idle")
        BY <2>1, <3>1, <3>2 DEF At
      <3>3. CASE ~At(c, "idle")
        <4>0. /\ call[c].age < Delay
              /\ call'[c] = [pc |-> call[c].pc, age |-> call[c].age + 1, token |-> call[c].token]
          BY <2>1, <3>3
        <4>1. call[c].age + 1 \in 0 .. Delay
          BY <3>1, <4>0, TimeAssumption, SMT
        <4> QED
          BY <3>1, <4>0, <4>1, SMT DEF Requests
      <3> QED
        BY <3>2, <3>3
    <2>3. call' \in [Callers -> Requests]
      BY <1>6, <2>2 DEF Tick
    <2>4. replaced' \in [Tokens -> 0 .. Grace] /\ left' \in -Delay .. TTL
      BY <1>0, <1>6, TimeAssumption, SMT DEF Tick, TypeOK, Larger, Smaller
    <2>5. TypeOK'
      BY <1>0, <1>6, <2>3, <2>4 DEF Tick, TypeOK, process
    <2> QED
      BY <1>0, <1>6, <2>2, <2>5, CallersAssumption DEF Tick, TypeInv, Fires, At, process
  <1>7. ASSUME NEW k \in Tokens, Revoke(k) \/ RevokeAbruptly(k) PROVE TypeInv'
    <2>1. disruptions' \in 0 .. MaxDisruptions
      BY <1>0, <1>7, BoundsAssumption, SMT DEF Revoke, RevokeAbruptly, Disrupt, TypeOK
    <2>2. k \in 1 .. current
      BY <1>0, <1>7, SMT DEF Revoke, RevokeAbruptly, Over, TypeOK, Tokens
    <2>3. revoked' \subseteq 1 .. current /\ abrupt' \subseteq revoked'
      BY <1>0, <1>7, <2>2 DEF Revoke, RevokeAbruptly, TypeOK
    <2>4. TypeOK'
      BY <1>0, <1>7, <2>1, <2>3 DEF Revoke, RevokeAbruptly, TypeOK, process, cache
    <2> QED
      BY <1>0, <1>7, <2>4 DEF Revoke, RevokeAbruptly, TypeInv, Fires, At, process
  <1>8. CASE UNCHANGED vars
    BY <1>0, <1>8 DEF vars, TypeInv, TypeOK, Fires, At
  <1> QED
    BY <1>1, <1>2, <1>3, <1>4, <1>5, <1>6, <1>7, <1>8 DEF Next

\* Every state is typed: in particular the health check never closes the stop
\* channel twice.
THEOREM TypeCorrect == Spec => []TypeOK
<1>1. Init => TypeInv
  BY InitTypeInv
<1>2. TypeInv /\ [Next]_vars => TypeInv'
  BY NextTypeInv
<1>3. TypeInv => TypeOK
  BY DEF TypeInv
<1> QED
  BY <1>1, <1>2, <1>3, PTL DEF Spec

-----------------------------------------------------------------------------
(***************************************************************************)
(* How old a replaced token can be.  A reader holds one only if the        *)
(* rotation came after its start; so the cache holds one for Delay and TTL *)
(* at most after the rotation, and a request that took one from the cache  *)
(* had started before the cache ran out.                                   *)
(***************************************************************************)
ReadersFresh ==
    \A c \in Callers :
      At(c, "store") => /\ call[c].token \in 1 .. current
                        /\ call[c].token < current => replaced[call[c].token] <= call[c].age
CacheFresh ==
    cached # None =>
      /\ cached \in 1 .. current
      /\ cached < current => left = -Delay \/ left + replaced[cached] <= TTL + Delay
SendersFresh ==
    source = "file" =>
      \A c \in Callers :
        At(c, "send") =>
          /\ call[c].token \in 1 .. current
          /\ call[c].token < current => replaced[call[c].token] < TTL + Delay + call[c].age
RevokedOld == \A k \in revoked \ abrupt : k < current /\ replaced[k] = Grace
Sources ==
    /\ source = "file" => cached # None
    /\ \A c \in Callers : At(c, "read") \/ At(c, "store") => source = "file"

AgeInv == ReadersFresh /\ CacheFresh /\ SendersFresh /\ RevokedOld /\ Sources

\* The invariant about ages holds at the start.
LEMMA InitAgeInv == Init => AgeInv
  BY SMT DEF Init, AgeInv, ReadersFresh, CacheFresh, SendersFresh, RevokedOld, Sources, At, Idle

\* The ages stay in these bounds, whichever action is taken.
LEMMA NextAgeInv == TypeInv /\ TypeInv' /\ AgeInv /\ [Next]_vars => AgeInv'
  <1> SUFFICES ASSUME TypeInv, TypeInv', AgeInv, [Next]_vars PROVE AgeInv'
    OBVIOUS
  <1>0. /\ TypeOK /\ TypeOK' /\ Fires
        /\ ReadersFresh /\ CacheFresh /\ SendersFresh /\ RevokedOld /\ Sources
    BY DEF TypeInv, AgeInv
  <1>t. /\ current \in Nat \ {0} /\ Tokens \subseteq Nat \ {0} /\ None \notin 1 .. current
        /\ replaced \in [Tokens -> 0 .. Grace] /\ replaced' \in [Tokens -> 0 .. Grace]
        /\ 1 .. current \subseteq Tokens
        /\ call \in [Callers -> Requests]
        /\ \A c \in Callers : call[c].age \in 0 .. Delay
        /\ left \in -Delay .. TTL /\ Delay \in Nat /\ TTL \in Nat \ {0} /\ Grace \in Nat
    <2>1. current \in Tokens /\ Tokens \subseteq Nat \ {0} /\ 1 .. current \subseteq Tokens
      BY <1>0, BoundsAssumption, SMT DEF TypeOK, Tokens
    <2>2. \A c \in Callers : call[c].age \in 0 .. Delay
      BY <1>0 DEF TypeOK, Requests
    <2> QED
      BY <1>0, <2>1, <2>2, TimeAssumption, NoneAssumption DEF TypeOK
  <1>1. CASE Start
    <2>1. \A c \in Callers : At(c, "idle") /\ At(c, "idle")'
      BY <1>0, <1>1 DEF Start, Fires, At
    <2>2. ReadersFresh' /\ SendersFresh' /\ Sources'
      BY <1>1, <2>1, <1>t, <1>0, SMT DEF Start, ReadersFresh, SendersFresh, Sources, At, cache
    <2>3. CacheFresh'
      BY <1>0, <1>t, <1>1, SMT DEF Start, CacheFresh, secret, cache
    <2>4. RevokedOld'
      BY <1>0, <1>1 DEF Start, RevokedOld, secret
    <2> QED
      BY <2>2, <2>3, <2>4 DEF AgeInv
  <1>2. CASE Exit
    <2>1. \A c \in Callers : At(c, "idle")'
      BY <1>2 DEF Exit, At, Idle
    <2>2. ReadersFresh' /\ SendersFresh' /\ Sources'
      BY <1>2, <2>1 DEF Exit, ReadersFresh, SendersFresh, Sources, At
    <2>3. CacheFresh' /\ RevokedOld'
      BY <1>0, <1>2 DEF Exit, CacheFresh, RevokedOld, secret
    <2> QED
      BY <2>2, <2>3 DEF AgeInv
  <1>3. ASSUME NEW c \in Callers, Request(c) \/ CallFails(c) PROVE AgeInv'
    <2>1. CASE Begin(c)
      <3>1. \A d \in Callers : d # c => call'[d] = call[d]
        BY <1>0, <2>1, OthersKept DEF Begin
      <3>2. call'[c].pc = "check"
        BY <1>0, <2>1 DEF Begin, Goto, TypeOK
      <3> QED
        BY <1>0, <2>1, <3>1, <3>2 DEF Begin, AgeInv, ReadersFresh, CacheFresh, SendersFresh,
             RevokedOld, Sources, At, secret, process, cache
    <2>2. CASE CheckCache(c)
      <3>1. \A d \in Callers : d # c => call'[d] = call[d]
        BY <1>0, <2>2, OthersKept DEF CheckCache
      <3>2. CASE source = "file" /\ cached # None /\ left + call[c].age > 0
        <4>1. call'[c] = [pc |-> "send", age |-> call[c].age, token |-> cached]
          BY <1>0, <2>2, <3>2 DEF CheckCache, Goto, TypeOK
        <4>2. cached \in 1 .. current
          BY <1>0, <3>2 DEF CacheFresh
        <4>3. cached < current => replaced[cached] < TTL + Delay + call[c].age
          BY <1>0, <1>t, <3>2, <4>2, SMT DEF CacheFresh
        <4>4. SendersFresh'
          BY <1>0, <2>2, <3>1, <4>1, <4>2, <4>3, SMT DEF CheckCache, SendersFresh, At, secret, process
        <4>5. ReadersFresh' /\ CacheFresh' /\ RevokedOld' /\ Sources'
          BY <1>0, <2>2, <3>1, <4>1, SMT DEF CheckCache, ReadersFresh, CacheFresh, RevokedOld, Sources,
               At, secret, process, cache
        <4> QED
          BY <4>4, <4>5 DEF AgeInv
      <3>3. CASE source # "file"
        <4>1. source # "none"
          BY <1>0, <2>2 DEF CheckCache, Fires, At
        <4>2. source = "env"
          BY <1>0, <3>3, <4>1 DEF TypeOK
        <4>3. call'[c].pc = "send"
          BY <1>0, <2>2, <4>2, SMT DEF CheckCache, Goto, TypeOK
        <4> QED
          BY <1>0, <2>2, <3>1, <3>3, <4>3 DEF CheckCache, AgeInv, ReadersFresh, CacheFresh,
               SendersFresh, RevokedOld, Sources, At, secret, process, cache
      <3>4. CASE source = "file" /\ ~(cached # None /\ left + call[c].age > 0)
        <4>1. call'[c].pc = "read"
          BY <1>0, <2>2, <3>4, SMT DEF CheckCache, Goto, TypeOK
        <4> QED
          BY <1>0, <2>2, <3>1, <3>4, <4>1 DEF CheckCache, AgeInv, ReadersFresh, CacheFresh,
               SendersFresh, RevokedOld, Sources, At, secret, process, cache
      <3> QED
        BY <3>2, <3>3, <3>4
    <2>3. CASE ReadFile(c)
      <3>1. \A d \in Callers : d # c => call'[d] = call[d]
        BY <1>0, <2>3, OthersKept DEF ReadFile
      <3>2. \/ call'[c].pc = "idle"
            \/ call'[c].pc = "store" /\ call'[c].token = current
        BY <1>0, <2>3, SMT DEF ReadFile, End, Idle, Goto, TypeOK
      <3>3. ReadersFresh'
        BY <1>0, <1>t, <2>3, <3>1, <3>2, SMT DEF ReadFile, ReadersFresh, At, secret
      <3>4. SendersFresh' /\ CacheFresh' /\ RevokedOld' /\ Sources'
        BY <1>0, <2>3, <3>1, <3>2 DEF ReadFile, SendersFresh, CacheFresh, RevokedOld, Sources,
             At, secret, process, cache
      <3> QED
        BY <3>3, <3>4 DEF AgeInv
    <2>4. CASE Store(c)
      <3>0. /\ call[c].token \in 1 .. current
            /\ call[c].token < current => replaced[call[c].token] <= call[c].age
            /\ call[c].age \in 0 .. Delay
        BY <1>0, <1>t, <2>4 DEF Store, ReadersFresh
      <3>1. \A d \in Callers : d # c => call'[d] = call[d]
        BY <1>0, <2>4, OthersKept DEF Store
      <3>2. call'[c] = [pc |-> "send", age |-> call[c].age, token |-> call[c].token]
        BY <1>0, <2>4 DEF Store, Goto, TypeOK
      <3>3. CacheFresh'
        <4>1. call[c].token < current => TTL + replaced[call[c].token] <= TTL + Delay
          BY <1>t, <3>0, SMT
        <4> QED
          BY <2>4, <3>0, <4>1 DEF Store, CacheFresh, secret
      <3>4. SendersFresh'
        <4>1. call[c].token < current => replaced[call[c].token] < TTL + Delay + call[c].age
          BY <1>t, <3>0, SMT
        <4> QED
          BY <1>0, <2>4, <3>0, <3>1, <3>2, <4>1, SMT DEF Store, SendersFresh, At, secret, process
      <3>5. ReadersFresh' /\ RevokedOld'
        BY <1>0, <2>4, <3>1, <3>2, SMT DEF Store, ReadersFresh, RevokedOld, At, secret
      <3>6. Sources'
        BY <1>0, <1>t, <2>4, <3>0, <3>1, <3>2 DEF Store, Sources, At, process
      <3> QED
        BY <3>3, <3>4, <3>5, <3>6 DEF AgeInv
    <2>5. CASE Answer(c) \/ CallFails(c)
      <3>1. \A d \in Callers : d # c => call'[d] = call[d]
        BY <1>0, <2>5, OthersKept DEF Answer, CallFails
      <3>2. call'[c].pc = "idle"
        BY <1>0, <2>5, SMT DEF Answer, CallFails, End, Idle, TypeOK
      <3>3. UNCHANGED <<secret, source, cache>>
        BY <2>5 DEF Answer, CallFails, process
      <3> QED
        BY <1>0, <3>1, <3>2, <3>3 DEF AgeInv, ReadersFresh, CacheFresh,
             SendersFresh, RevokedOld, Sources, At, secret, cache
    <2> QED
      BY <1>3, <2>1, <2>2, <2>3, <2>4, <2>5 DEF Request
  <1>4. CASE Rotate
    <2>1. /\ current' = current + 1
          /\ replaced'[current] = 0
          /\ \A k \in 1 .. current : k # current => replaced'[k] = replaced[k]
          /\ UNCHANGED <<revoked, abrupt, source, cached, left, call>>
      BY <1>t, <1>4, SMT DEF Rotate, process, cache
    <2>2. ReadersFresh'
      BY <1>0, <1>t, <2>1, SMT DEF ReadersFresh, At
    <2>3. CacheFresh'
      BY <1>0, <1>t, <2>1, SMT DEF CacheFresh
    <2>4. SendersFresh'
      BY <1>0, <1>t, <2>1, SMT DEF SendersFresh, At
    <2>5. RevokedOld' /\ Sources'
      BY <1>0, <1>t, <2>1, SMT DEF RevokedOld, Sources, At, TypeOK
    <2> QED
      BY <2>2, <2>3, <2>4, <2>5 DEF AgeInv
  <1>5. CASE Unmount \/ Mount
    <2>1. UNCHANGED <<current, replaced, revoked, abrupt, source, cached, left, call>>
      BY <1>5 DEF Unmount, Mount, process, cache
    <2> QED
      BY <1>0, <2>1 DEF AgeInv, ReadersFresh, CacheFresh, SendersFresh, RevokedOld, Sources, At
  <1>6. CASE Tick
    <2>1. \A c \in Callers :
            /\ call'[c].pc = call[c].pc /\ call'[c].token = call[c].token
            /\ ~At(c, "idle") => call'[c].age = call[c].age + 1
      BY <1>6 DEF Tick, At
    <2>2. \A k \in 1 .. current : k < current => replaced'[k] = Smaller(Grace, replaced[k] + 1)
      BY <1>t, <1>6 DEF Tick
    <2>3. \A k \in 1 .. current : k < current => replaced'[k] <= replaced[k] + 1
      BY <1>t, <2>2, SMT DEF Smaller
    <2>4. UNCHANGED <<current, revoked, abrupt, source, cached>>
      BY <1>6 DEF Tick, process
    <2>5. ASSUME NEW c \in Callers, At(c, "store")'
          PROVE  /\ call'[c].token \in 1 .. current
                 /\ call'[c].token < current => replaced'[call'[c].token] <= call'[c].age
      <3>1. At(c, "store") /\ call'[c].token = call[c].token /\ call'[c].age = call[c].age + 1
        BY <2>1, <2>5 DEF At
      <3>2. /\ call[c].token \in 1 .. current
            /\ call[c].token < current => replaced[call[c].token] <= call[c].age
        BY <1>0, <3>1 DEF ReadersFresh
      <3> QED
        BY <1>t, <2>3, <3>1, <3>2, SMT
    <2>6. ASSUME NEW c \in Callers, At(c, "send")', source = "file"
          PROVE  /\ call'[c].token \in 1 .. current
                 /\ call'[c].token < current =>
                      replaced'[call'[c].token] < TTL + Delay + call'[c].age
      <3>1. At(c, "send") /\ call'[c].token = call[c].token /\ call'[c].age = call[c].age + 1
        BY <2>1, <2>6 DEF At
      <3>2. /\ call[c].token \in 1 .. current
            /\ call[c].token < current => replaced[call[c].token] < TTL + Delay + call[c].age
        BY <1>0, <2>6, <3>1 DEF SendersFresh
      <3> QED
        BY <1>t, <2>3, <3>1, <3>2, SMT
    <2>7. CacheFresh'
      <3>1. left' = -Delay \/ left' = left - 1
        BY <1>6 DEF Tick, Larger
      <3>2. ASSUME cached # None, cached < current, left' = left - 1
            PROVE  left' = -Delay \/ left' + replaced'[cached] <= TTL + Delay
        <4>1. cached \in 1 .. current
          BY <1>0, <3>2 DEF CacheFresh
        <4>2. left # -Delay
          BY <1>0, <1>t, <1>6, <3>2, SMT DEF Tick, Larger
        <4> QED
          BY <1>0, <1>t, <2>3, <3>2, <4>1, <4>2, SMT DEF CacheFresh
      <3> QED
        BY <1>0, <2>4, <3>1, <3>2 DEF CacheFresh
    <2>8. RevokedOld'
      <3>1. ASSUME NEW k \in revoked \ abrupt PROVE k < current /\ replaced'[k] = Grace
        <4>1. k < current /\ replaced[k] = Grace /\ k \in 1 .. current
          BY <1>0 DEF RevokedOld, TypeOK
        <4> QED
          BY <1>t, <2>2, <4>1, SMT DEF Smaller
      <3> QED
        BY <2>4, <3>1 DEF RevokedOld
    <2>9. Sources'
      BY <1>0, <2>1, <2>4 DEF Sources, At
    <2> QED
      BY <2>4, <2>5, <2>6, <2>7, <2>8, <2>9 DEF AgeInv, ReadersFresh, SendersFresh
  <1>7. ASSUME NEW k \in Tokens, Revoke(k) \/ RevokeAbruptly(k) PROVE AgeInv'
    <2>1. UNCHANGED <<current, replaced, source, cached, left, call>>
      BY <1>7 DEF Revoke, RevokeAbruptly, process, cache
    <2>2. RevokedOld'
      BY <1>0, <1>7, <2>1 DEF Revoke, RevokeAbruptly, RevokedOld, Over
    <2>3. ReadersFresh' /\ CacheFresh' /\ SendersFresh' /\ Sources'
      BY <1>0, <2>1 DEF ReadersFresh, CacheFresh, SendersFresh, Sources, At
    <2> QED
      BY <2>2, <2>3 DEF AgeInv
  <1>8. CASE UNCHANGED vars
    BY <1>0, <1>8 DEF vars, AgeInv, ReadersFresh, CacheFresh, SendersFresh, RevokedOld,
         Sources, At
  <1> QED
    BY <1>1, <1>2, <1>3, <1>4, <1>5, <1>6, <1>7, <1>8 DEF Next

\* So with a long grace no replaced token is refused while a request carries it.
LEMMA AgesSuffice ==
  ASSUME LongGrace, TypeInv, AgeInv
  PROVE  RotationUnnoticed
  <1> SUFFICES ASSUME source = "file", NEW c \in Callers, At(c, "send"),
                      call[c].token \in revoked \ abrupt
               PROVE  FALSE
    BY DEF RotationUnnoticed
  <1>1. /\ call[c].token < current /\ replaced[call[c].token] = Grace
    BY DEF AgeInv, RevokedOld
  <1>2. replaced[call[c].token] < TTL + Delay + call[c].age
    BY <1>1 DEF AgeInv, SendersFresh
  <1>3. call[c].age \in 0 .. Delay
    BY DEF TypeInv, TypeOK, Requests
  <1> QED
    BY <1>1, <1>2, <1>3, TimeAssumption, SMT DEF LongGrace

\* With a grace of at least the TTL and twice the longest request, rotating the
\* token goes unnoticed: GetToken never hands out one that was revoked in turn.
THEOREM RotationIsUnnoticed ==
  ASSUME LongGrace
  PROVE  Spec => []RotationUnnoticed
  <1>1. Init => TypeInv /\ AgeInv
    BY InitTypeInv, InitAgeInv
  <1>2. TypeInv /\ AgeInv /\ [Next]_vars => TypeInv' /\ AgeInv'
    BY NextTypeInv, NextAgeInv
  <1>3. TypeInv /\ AgeInv => RotationUnnoticed
    BY AgesSuffice
  <1> QED
    BY <1>1, <1>2, <1>3, PTL DEF Spec

\* Hence the health check never stops the controllers because of a rotation.
THEOREM StopsForCause ==
  ASSUME LongGrace
  PROVE  Spec => []StoppedForCause
  <1> DEFINE Inv == TypeInv /\ AgeInv /\ StoppedForCause
  <1>1. Init => Inv
    BY InitTypeInv, InitAgeInv DEF Init, StoppedForCause
  <1>2. Inv /\ [Next]_vars => Inv'
    <2> SUFFICES ASSUME Inv, [Next]_vars PROVE StoppedForCause'
      BY NextTypeInv, NextAgeInv
    <2>1. RotationUnnoticed
      BY AgesSuffice
    <2>2. CASE Start \/ Exit
      BY <2>2 DEF Start, Exit, StoppedForCause
    <2>3. ASSUME NEW c \in Callers, Request(c) \/ CallFails(c) PROVE StoppedForCause'
      <3>1. CASE Answer(c)
        <4>1. source = "file" /\ call[c].token \in revoked => abrupt # {}
          BY <2>1, <3>1, SMTT(30) DEF Answer, RotationUnnoticed
        <4> QED
          BY <3>1, <4>1 DEF Answer, StoppedForCause, secret
      <3>2. CASE ~Answer(c)
        BY <2>3, <3>2 DEF Request, Begin, CheckCache, ReadFile, Store, CallFails,
             StoppedForCause, secret, process
      <3> QED
        BY <3>1, <3>2
    <2>4. CASE Rotate \/ Unmount \/ Mount \/ Tick
      BY <2>4 DEF Rotate, Unmount, Mount, Tick, StoppedForCause, process
    <2>5. ASSUME NEW k \in Tokens, Revoke(k) \/ RevokeAbruptly(k) PROVE StoppedForCause'
      BY <2>5 DEF Revoke, RevokeAbruptly, StoppedForCause, process
    <2>6. CASE UNCHANGED vars
      BY <2>6 DEF vars, StoppedForCause
    <2> QED
      BY <2>2, <2>3, <2>4, <2>5, <2>6 DEF Next
  <1>3. Inv => StoppedForCause
    OBVIOUS
  <1> QED
    BY <1>1, <1>2, <1>3, PTL DEF Spec
=============================================================================
