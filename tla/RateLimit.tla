------------------------------ MODULE RateLimit ------------------------------
(***************************************************************************)
(* The hook every request passes first: injected faults, then the token     *)
(* bucket that a script keeps in Redis for each caller and group.           *)
(*                                                                          *)
(* The bucket is measured in time: a full one holds Window (60 s), and a    *)
(* request costs Cost = Window / limit, so that a token refills in Cost.    *)
(* The script runs atomically, but the time it is given was read by the API *)
(* process, from its own clock, before the calls to Redis: it may come late *)
(* and out of order.                                                        *)
(*                                                                          *)
(* Outside the code, and bounded: replicas and Redis restart; Redis keeps   *)
(* nothing over a restart.                                                  *)
(***************************************************************************)
EXTENDS Integers, Sequences, FiniteSets, FiniteSetsExt, ApiProcesses

CONSTANTS
    Callers,     \* keys ratelimit:tenant:sub:group
    Requests,    \* requests in the hook at a time
    Window, Cost, NoBucket,
    MaxSkew,     \* bound: how far a clock of the API runs ahead
    MaxClock, MaxCalls, MaxLosses  \* bounds on a run

ASSUME RateLimitAssumption ==
    /\ Window \in Nat \ {0} /\ Cost \in 1..Window
    /\ MaxSkew \in Nat /\ MaxClock \in Nat
    /\ MaxCalls \in Nat /\ MaxLosses \in Nat
    /\ NoBucket \notin [tokens : Int, ts : Int, dies : Int]

VARIABLES
    clock,    \* the time at Redis
    skew,     \* how far each replica's clock is ahead of it
    bucket,   \* tokens, ts and the time the key expires, or NoBucket
    script,   \* Redis has the script
    loaded,   \* replicas that remember its SHA
    chaos,    \* how often requests are made to fail
    asks,     \* requests in the hook
    calls, losses,
    \* Histories: the timestamps of the admitted requests of each caller, how
    \* late the script saw its timestamps, requests answered with an error.
    admitted, late, failed

stock == <<bucket, script, admitted, late, failed>>
rateVars == <<clock, skew, stock, loaded, chaos, asks, calls, losses>>

Idle == [phase |-> "idle"]
Empty == [c \in Callers |-> NoBucket]

RateInit ==
    /\ clock = 0 /\ skew \in [Replicas -> 0..MaxSkew]
    /\ bucket = Empty /\ script = FALSE /\ loaded = {}
    /\ chaos = "never"
    /\ asks = [q \in Requests |-> Idle]
    /\ calls = 0 /\ losses = 0
    /\ admitted = [c \in Callers |-> <<>>]
    /\ late = [c \in Callers |-> 0]
    /\ failed = FALSE

\* Redis drops the keys whose time is up.
RateTick ==
    /\ clock < MaxClock /\ clock' = clock + 1
    /\ bucket' = [c \in Callers |->
          IF bucket[c] = NoBucket THEN NoBucket
          ELSE IF bucket[c].dies <= clock' THEN NoBucket ELSE bucket[c]]
    /\ UNCHANGED <<skew, script, admitted, late, failed, loaded, chaos, asks,
                   calls, losses>>

-----------------------------------------------------------------------------
(* The onRequest hook.                                                       *)

Arrive(q, r, c) ==
    /\ asks[q] = Idle /\ calls < MaxCalls
    /\ calls' = calls + 1
    /\ asks' = [asks EXCEPT ![q] =
          [phase |-> "chaos", replica |-> r, caller |-> c, at |-> 0]]
    /\ UNCHANGED <<clock, skew, stock, loaded, chaos, losses>>

\* getChaosConfig: an injected failure (503) takes nothing from the bucket.
AskChaos(q) ==
    /\ asks[q].phase = "chaos"
    /\ \/ chaos # "never" /\ asks' = [asks EXCEPT ![q] = Idle]
       \/ chaos # "always" /\ asks' = [asks EXCEPT ![q].phase = "limit"]
    /\ UNCHANGED <<clock, skew, stock, loaded, chaos, calls, losses>>

\* Mutant: the SHA is remembered before the script is there.
ReadClockEager(q) ==
    LET r == asks[q].replica IN
    /\ asks[q].phase = "limit"
    /\ asks' = [asks EXCEPT ![q].at = clock + skew[r],
                            ![q].phase = IF r \in loaded THEN "eval" ELSE "load"]
    /\ loaded' = loaded \cup {r}
    /\ UNCHANGED <<clock, skew, stock, chaos, calls, losses>>

\* consumeRateLimit: Date.now(), then SCRIPT LOAD unless the SHA is known.
ReadClock(q) ==
    LET r == asks[q].replica IN
    /\ asks[q].phase = "limit"
    /\ asks' = [asks EXCEPT ![q].at = clock + skew[r],
                            ![q].phase = IF r \in loaded THEN "eval" ELSE "load"]
    /\ UNCHANGED <<clock, skew, stock, loaded, chaos, calls, losses>>

LoadScript(q) ==
    /\ asks[q].phase = "load"
    /\ script' = TRUE
    /\ loaded' = loaded \cup {asks[q].replica}
    /\ asks' = [asks EXCEPT ![q].phase = "eval"]
    /\ UNCHANGED <<clock, skew, bucket, admitted, late, failed, chaos, calls,
                   losses>>

\* Mutant: what was refilled is lost when the clock is read again too soon.
TokensWhole(b, at) ==
    IF b = NoBucket THEN Window
    ELSE Min({Window, b.tokens + ((at - b.ts) \div Cost) * Cost})

\* The tokens of a bucket at a given time; a missing one is full.
Tokens(b, at) ==
    IF b = NoBucket THEN Window
    ELSE Min({Window, b.tokens + Max({0, at - b.ts})})

\* ceil(capacity / refill_rate): an idle bucket is kept until it is full.
Ttl == Window

\* Mutant: what is written back was computed before the token is taken.
LeavesUntaken(have) == have

\* What a request that finds so much leaves: a refused one takes nothing.
Leaves(have) == IF have >= Cost THEN have - Cost ELSE have

\* EVALSHA: the refill, the decision (200 or 429), HMSET and EXPIRE, in one;
\* an error (500) when Redis no longer has the script.
Evaluate(q) ==
    LET c == asks[q].caller
        at == asks[q].at
        have == Tokens(bucket[c], at)
    IN
    /\ asks[q].phase = "eval"
    /\ asks' = [asks EXCEPT ![q] = Idle]
    /\ \/ /\ ~script
          /\ failed' = TRUE /\ UNCHANGED <<bucket, admitted, late>>
       \/ /\ script
          /\ bucket' = [bucket EXCEPT ![c] =
                [tokens |-> Leaves(have), ts |-> at, dies |-> clock + Ttl]]
          /\ admitted' = IF have >= Cost
                         THEN [admitted EXCEPT ![c] = Append(@, at)]
                         ELSE admitted
          /\ late' = [late EXCEPT ![c] = @ + (clock + MaxSkew - at)]
          /\ UNCHANGED failed
    /\ UNCHANGED <<clock, skew, script, loaded, chaos, calls, losses>>

-----------------------------------------------------------------------------
(* Administrators, deployments, faults.                                      *)

SetChaos(often) ==
    /\ chaos # often /\ chaos' = often
    /\ calls < MaxCalls /\ calls' = calls + 1
    /\ UNCHANGED <<clock, skew, stock, loaded, asks, losses>>

RestartReplica(r) ==
    /\ losses < MaxLosses /\ losses' = losses + 1
    /\ loaded' = loaded \ {r}
    /\ asks' = [q \in Requests |->
          IF asks[q] = Idle THEN Idle
          ELSE IF asks[q].replica = r THEN Idle ELSE asks[q]]
    /\ UNCHANGED <<clock, skew, stock, chaos, calls>>

RestartRedis ==
    /\ losses < MaxLosses /\ losses' = losses + 1
    /\ bucket' = Empty /\ script' = FALSE /\ chaos' = "never"
    /\ UNCHANGED <<clock, skew, admitted, late, failed, loaded, asks, calls>>

RateNext ==
    \/ RateTick \/ RestartRedis
    \/ \E q \in Requests, r \in Replicas, c \in Callers : Arrive(q, r, c)
    \/ \E q \in Requests :
          AskChaos(q) \/ ReadClock(q) \/ LoadScript(q) \/ Evaluate(q)
    \/ \E often \in {"never", "sometimes", "always"} : SetChaos(often)
    \/ \E r \in Replicas : RestartReplica(r)

RateSpec == RateInit /\ [][RateNext]_rateVars
=============================================================================
