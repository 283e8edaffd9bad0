---------------------------- MODULE TokenProvider ----------------------------
(***************************************************************************)
(* The Linode API token: where newCloud takes it from, its cache           *)
(* (tokenFileProvider of cloud.go), the requests that carry it             *)
(* (tokenTransport of client.go) and the health check that stops the       *)
(* controllers when the API refuses it (health_check.go).                  *)
(*                                                                         *)
(* Tokens are numbered in the order of their rotation; the last one is in  *)
(* the Secret, in the file and, at the start of the process, in the        *)
(* environment.  Time is kept as ages and remaining times, up to the       *)
(* values that still matter.                                               *)
(***************************************************************************)
EXTENDS Integers

CONSTANTS
    Callers,        \* goroutines that send requests
    Checker,        \* the one of the health check
    None,
    TTL,            \* LINODE_API_TOKEN_CACHE_TTL_SECONDS
    Delay,          \* the longest request, with its GetToken
    Grace,          \* how long a token that was replaced stays valid
    EnvSet,         \* LINODE_API_TOKEN is set
    MaxRotations,   \* bound: how often the token is replaced
    MaxDisruptions  \* bound: other events

Tokens == 1 .. MaxRotations + 1

ASSUME CallersAssumption == Checker \in Callers
ASSUME NoneAssumption == None \notin Tokens
ASSUME TimeAssumption == TTL \in Nat \ {0} /\ Delay \in Nat /\ Grace \in Nat
ASSUME BoundsAssumption == MaxRotations \in Nat /\ MaxDisruptions \in Nat
ASSUME EnvAssumption == EnvSet \in BOOLEAN

VARIABLES
    current,      \* the token of the Secret
    file,         \* its file can be read and is not empty, or not
    replaced,     \* for how long a token is no longer the current one
    revoked,      \* tokens the API refuses
    abrupt,       \* history: those revoked before Grace was over
    source,       \* where the running process takes its token from
    static,       \* the token of staticTokenProvider
    cached, left, \* cachedToken, and expiresAt - now
    call,         \* the request of each caller
    stopCh,       \* the channel that stops the controllers
    signal,       \* the health check's stopCh, nil once it was closed
    disruptions

vars == <<current, file, replaced, revoked, abrupt, source, static, cached, left,
          call, stopCh, signal, disruptions>>
secret == <<current, file, replaced, revoked, abrupt>>
process == <<source, static, stopCh, signal>>
cache == <<cached, left>>

Requests == [pc : {"idle", "check", "read", "store", "send"},
             age : 0 .. Delay, token : Tokens \cup {None}]
Idle == [pc |-> "idle", age |-> 0, token |-> None]
Larger(x, y) == IF x > y THEN x ELSE y
Smaller(x, y) == IF x < y THEN x ELSE y

\* Nobody closes the channel twice, which would be a panic.
TypeOK ==
    /\ current \in Tokens
    /\ file \in {"there", "gone"}
    /\ replaced \in [Tokens -> 0 .. Grace]
    /\ revoked \subseteq 1 .. current
    /\ abrupt \subseteq revoked
    /\ source \in {"none", "file", "env"}
    /\ static \in Tokens \cup {None}
    /\ cached \in Tokens \cup {None}
    /\ left \in -Delay .. TTL
    /\ call \in [Callers -> Requests]
    /\ stopCh \in {"open", "closed"}
    /\ signal \in {"set", "nil"}
    /\ disruptions \in 0 .. MaxDisruptions

At(c, pc) == call[c].pc = pc
Goto(c, pc, token) ==
    call' = [call EXCEPT ![c] = [pc |-> pc, age |-> call[c].age, token |-> token]]
End(c) == call' = [call EXCEPT ![c] = Idle]
Disrupt == disruptions < MaxDisruptions /\ disruptions' = disruptions + 1

-----------------------------------------------------------------------------
\* The start of the process.

\* tokenProviderFromFileOrEnv tries the file, which fills the cache, then the
\* environment; newCloud asks the API whether the token is valid.
Start ==
    /\ source = "none"
    /\ file = "there" \/ EnvSet
    /\ current \notin revoked
    /\ IF file = "there"
       THEN source' = "file" /\ static' = None /\ cached' = current /\ left' = TTL
       ELSE source' = "env" /\ static' = current /\ UNCHANGED cache
    /\ stopCh' = "open"
    /\ signal' = "set"
    /\ UNCHANGED <<secret, call, disruptions>>

\* The controllers stop and the process ends, or it crashes.
Exit ==
    /\ source # "none"
    /\ IF stopCh = "closed" THEN UNCHANGED disruptions ELSE Disrupt
    /\ source' = "none"
    /\ static' = None
    /\ cached' = None
    /\ left' = -Delay
    /\ call' = [c \in Callers |-> Idle]
    /\ UNCHANGED <<secret, stopCh, signal>>

-----------------------------------------------------------------------------
\* A request.

\* RoundTrip calls GetToken, which reads the clock first.  The health check does
\* nothing once it has fired.
Begin(c) ==
    /\ source # "none"
    /\ At(c, "idle")
    /\ c = Checker => signal = "set"
    /\ Goto(c, "check", None)
    /\ UNCHANGED <<secret, process, cache, disruptions>>

\* Mutant of CheckCache: the cache is prolonged by its use.
CheckCacheSliding(c) ==
    /\ At(c, "check")
    /\ IF source = "env" THEN Goto(c, "send", static) /\ UNCHANGED left
       ELSE IF cached # None /\ left + call[c].age > 0
       THEN Goto(c, "send", cached) /\ left' = TTL
       ELSE Goto(c, "read", None) /\ UNCHANGED left
    /\ UNCHANGED <<secret, process, cached, disruptions>>

\* The clock was read when the age was 0.
CheckCache(c) ==
    /\ At(c, "check")
    /\ IF source = "env" THEN Goto(c, "send", static)
       ELSE IF cached # None /\ left + call[c].age > 0 THEN Goto(c, "send", cached)
       ELSE Goto(c, "read", None)
    /\ UNCHANGED <<secret, process, cache, disruptions>>

\* Without a token in the file the request ends with an error, whatever is cached.
ReadFile(c) ==
    /\ At(c, "read")
    /\ IF file = "there" THEN Goto(c, "store", current)
       ELSE End(c)
    /\ UNCHANGED <<secret, process, cache, disruptions>>

Store(c) ==
    /\ At(c, "store")
    /\ cached' = call[c].token
    /\ left' = TTL
    /\ Goto(c, "send", call[c].token)
    /\ UNCHANGED <<secret, process, disruptions>>

Close == stopCh' = IF stopCh = "open" THEN "closed" ELSE "closed twice"

\* Mutants of Answer: the health check stays armed, or takes a refusal for one of
\* the errors that say nothing about the token.
AnswerArmed(c) ==
    /\ At(c, "send")
    /\ End(c)
    /\ IF c = Checker /\ call[c].token \in revoked THEN Close ELSE UNCHANGED stopCh
    /\ UNCHANGED <<secret, source, static, signal, cache, disruptions>>

AnswerUnsure(c) ==
    /\ At(c, "send")
    /\ End(c)
    /\ UNCHANGED <<secret, process, cache, disruptions>>

\* The API answers; the health check closes the channel if it gets a 401.
Answer(c) ==
    /\ At(c, "send")
    /\ End(c)
    /\ IF c = Checker /\ call[c].token \in revoked
       THEN Close /\ signal' = "nil"
       ELSE UNCHANGED <<stopCh, signal>>
    /\ UNCHANGED <<secret, source, static, cache, disruptions>>

\* Mutant of CallFails: any error counts as a refusal.
CallFailsRefused(c) ==
    /\ At(c, "send")
    /\ Disrupt
    /\ End(c)
    /\ IF c = Checker THEN Close /\ signal' = "nil" ELSE UNCHANGED <<stopCh, signal>>
    /\ UNCHANGED <<secret, source, static, cache>>

\* No answer, or another error: the health check only warns.
CallFails(c) ==
    /\ At(c, "send")
    /\ Disrupt
    /\ End(c)
    /\ UNCHANGED <<secret, process, cache>>

Request(c) == Begin(c) \/ CheckCache(c) \/ ReadFile(c) \/ Store(c) \/ Answer(c)

-----------------------------------------------------------------------------
\* The operator, and time.

Rotate ==
    /\ current <= MaxRotations
    /\ current' = current + 1
    /\ replaced' = [replaced EXCEPT ![current] = 0]
    /\ UNCHANGED <<file, revoked, abrupt, process, cache, call, disruptions>>

Unmount ==
    /\ file = "there"
    /\ file' = "gone"
    /\ Disrupt
    /\ UNCHANGED <<current, replaced, revoked, abrupt, process, cache, call>>

Mount ==
    /\ file = "gone"
    /\ file' = "there"
    /\ UNCHANGED <<current, replaced, revoked, abrupt, process, cache, call, disruptions>>

Over(k) == k < current /\ replaced[k] = Grace

\* A token is revoked when it was replaced long enough ago.
Revoke(k) ==
    /\ k \notin revoked
    /\ Over(k)
    /\ revoked' = revoked \cup {k}
    /\ UNCHANGED <<current, file, replaced, abrupt, process, cache, call, disruptions>>

RevokeAbruptly(k) ==
    /\ k \in 1 .. current
    /\ k \notin revoked
    /\ ~Over(k)
    /\ Disrupt
    /\ revoked' = revoked \cup {k}
    /\ abrupt' = abrupt \cup {k}
    /\ UNCHANGED <<current, file, replaced, process, cache, call>>

\* No request takes longer than Delay.
Tick ==
    /\ \A c \in Callers : At(c, "idle") \/ call[c].age < Delay
    /\ call' = [c \in Callers |->
                  IF At(c, "idle") THEN call[c]
                  ELSE [pc |-> call[c].pc, age |-> call[c].age + 1, token |-> call[c].token]]
    /\ left' = Larger(-Delay, left - 1)
    /\ replaced' = [k \in Tokens |->
                      IF k < current THEN Smaller(Grace, replaced[k] + 1) ELSE replaced[k]]
    /\ UNCHANGED <<current, file, revoked, abrupt, process, cached, disruptions>>

Init ==
    /\ current = 1
    /\ file \in {"there", "gone"}
    /\ replaced = [k \in Tokens |-> 0]
    /\ revoked = {}
    /\ abrupt = {}
    /\ source = "none"
    /\ static = None
    /\ cached = None
    /\ left = -Delay
    /\ call = [c \in Callers |-> Idle]
    /\ stopCh = "open"
    /\ signal = "nil"
    /\ disruptions = 0

Next ==
    \/ Start \/ Exit
    \/ \E c \in Callers : Request(c) \/ CallFails(c)
    \/ Rotate \/ Unmount \/ Mount \/ Tick
    \/ \E k \in Tokens : Revoke(k) \/ RevokeAbruptly(k)

Spec == Init /\ [][Next]_vars

\* The kubelet restarts the process and puts the file back; requests go on and
\* end; time passes; tokens that were replaced are revoked at some time.
Fairness ==
    /\ WF_vars(Start) /\ WF_vars(stopCh = "closed" /\ Exit)
    /\ \A c \in Callers : WF_vars(Request(c))
    /\ WF_vars(Mount) /\ WF_vars(Tick)
    /\ \A k \in Tokens : WF_vars(Revoke(k))
FairSpec == Spec /\ Fairness

-----------------------------------------------------------------------------
\* Properties.

\* A process that reads the token from the file never sends one that was revoked
\* after its grace: not a cached one, not one that a slow reader put back into
\* the cache after others had read the next, not one taken from the cache with
\* the clock of a moment ago.
RotationUnnoticed ==
    source = "file" =>
      \A c \in Callers : At(c, "send") => call[c].token \notin revoked \ abrupt

\* So the health check stops the controllers only for a token that the process
\* cannot replace, or that was revoked before its time.
StoppedForCause == stopCh = "closed" => source # "file" \/ abrupt # {}

\* At last, unless the current token is refused, the process runs and sends no
\* other token, whichever source it had and however the others were revoked.
Recovers ==
    <>[](current \notin revoked =>
           /\ source # "none"
           /\ \A c \in Callers : At(c, "send") => call[c].token = current)
=============================================================================
