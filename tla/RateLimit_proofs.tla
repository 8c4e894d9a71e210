-------------------------- MODULE RateLimit_proofs --------------------------
(* Proofs about RateLimit for every number of callers, replicas and calls,   *)
(* every window, cost and skew of the clocks, and any number of restarts.    *)
EXTENDS RateLimitProperties, FiniteSetTheorems, SequenceTheorems, TLAPS

-----------------------------------------------------------------------------
(* The inductive invariant.                                                  *)

BucketSet == [tokens : Int, ts : Int, dies : Int]
AskSet == [phase : {"chaos", "limit", "load", "eval"}, replica : Replicas,
           caller : Callers, at : Int]

RateTyped ==
    /\ clock \in Nat /\ losses \in Nat /\ skew \in [Replicas -> 0..MaxSkew]
    /\ bucket \in [Callers -> BucketSet \cup {NoBucket}]
    /\ asks \in [Requests -> AskSet \cup {Idle}]
    /\ admitted \in [Callers -> Seq(Int)] /\ late \in [Callers -> Int]

\* No timestamp is ahead of the fastest clock.
TimesTrue ==
    \A q \in Requests : asks[q] # Idle => asks[q].at <= clock + MaxSkew

\* What was spent and what is left are paid for up to the bucket's time; a
\* bucket that is gone could have been full again.
BucketPays(c) ==
    LET b == bucket[c] IN
    /\ b.tokens >= 0
    /\ b.ts <= clock + MaxSkew /\ b.ts <= b.dies - Window + MaxSkew
    /\ Spent(c) + b.tokens - b.ts <= Window * (1 + losses) + late[c]

RatesPaid ==
    \A c \in Callers :
        IF bucket[c] = NoBucket
        THEN Spent(c) <= Window * losses + clock + MaxSkew + late[c]
        ELSE BucketPays(c)

\* Only a restart of Redis takes the script from those that count on it.
ScriptThere ==
    /\ failed => losses > 0
    /\ \/ script \/ losses > 0
       \/ loaded = {} /\ \A q \in Requests : asks[q].phase # "eval"

RateInv == RateTyped /\ TimesTrue /\ RatesPaid /\ ScriptThere

-----------------------------------------------------------------------------
(* Arithmetic.                                                               *)

LEMMA MinOfTwo ==
  ASSUME NEW a \in Int, NEW b \in Int
  PROVE  Min({a, b}) = IF a <= b THEN a ELSE b
  BY DEF Min

LEMMA MaxOfTwo ==
  ASSUME NEW a \in Int, NEW b \in Int
  PROVE  Max({a, b}) = IF a >= b THEN a ELSE b
  BY DEF Max

LEMMA OneMore ==
  ASSUME NEW m \in Nat, NEW n \in Nat
  PROVE  m * n \in Nat /\ m * (1 + n) = m + m * n /\ m * (n + 1) = m + m * n
         /\ m * (1 + (n + 1)) = m + m + m * n
  OBVIOUS

LEMMA SpentType == ASSUME RateTyped, NEW c \in Callers PROVE Spent(c) \in Nat
  <1>1. Len(admitted[c]) \in Nat /\ Cost \in Nat
    BY RateLimitAssumption, LenProperties DEF RateTyped
  <1> QED BY <1>1, OneMore DEF Spent

\* What a caller finds in the bucket of a moment.
LEMMA TokensBound ==
  ASSUME NEW b \in BucketSet, NEW at \in Int, b.tokens >= 0
  PROVE  /\ Tokens(b, at) \in Int /\ Tokens(b, at) >= 0
         /\ Tokens(b, at) <= b.tokens + (IF at >= b.ts THEN at - b.ts ELSE 0)
  <1> DEFINE aged == Max({0, at - b.ts})
  <1>1. /\ b.tokens \in Int /\ b.ts \in Int /\ Window \in Int /\ Window >= 0
        /\ b # NoBucket
    BY RateLimitAssumption DEF BucketSet
  <1>2. aged = IF at >= b.ts THEN at - b.ts ELSE 0
    BY <1>1, MaxOfTwo
  <1>3. Tokens(b, at) = Min({Window, b.tokens + aged})
    BY <1>1 DEF Tokens
  <1> HIDE DEF aged
  <1> QED BY <1>1, <1>2, <1>3, MinOfTwo

-----------------------------------------------------------------------------
(* Types, timestamps and the script.                                         *)

LEMMA InitRate == RateInit => RateInv
  <1> SUFFICES ASSUME RateInit PROVE RateInv
    OBVIOUS
  <1>1. RateTyped
    BY RateLimitAssumption DEF RateInit, RateTyped, Empty
  <1>2. TimesTrue /\ ScriptThere
    BY DEF RateInit, TimesTrue, ScriptThere, Idle
  <1>3. RatesPaid
    <2>1. ASSUME NEW c \in Callers PROVE Spent(c) = 0
      <3>1. Len(admitted[c]) = 0
        BY <2>1 DEF RateInit
      <3>2. Cost \in Nat
        BY RateLimitAssumption
      <3> QED BY <3>1, <3>2 DEF Spent
    <2>2. ASSUME NEW c \in Callers
          PROVE  bucket[c] = NoBucket /\ late[c] = 0 /\ clock = 0 /\ losses = 0
      BY DEF RateInit, Empty
    <2>3. MaxSkew \in Nat /\ Window * 0 = 0
      BY RateLimitAssumption
    <2> QED BY <2>1, <2>2, <2>3 DEF RatesPaid
  <1> QED BY <1>1, <1>2, <1>3 DEF RateInv

\* A request at the script takes what it costs from the bucket, or nothing.
LEMMA EvaluateEffect ==
  ASSUME RateInv, NEW q \in Requests, Evaluate(q), script
  PROVE  \E c \in Callers, at \in Int, left \in Nat, paid \in {0, Cost} :
            /\ at <= clock + MaxSkew
            /\ left + paid = Tokens(bucket[c], at)
            /\ bucket' = [bucket EXCEPT ![c] =
                  [tokens |-> left, ts |-> at, dies |-> clock + Window]]
            /\ late' = [late EXCEPT ![c] = @ + (clock + MaxSkew - at)]
            /\ admitted' = IF paid = 0 THEN admitted
                           ELSE [admitted EXCEPT ![c] = Append(@, at)]
  <1> DEFINE c == asks[q].caller
             at == asks[q].at
             have == Tokens(bucket[c], at)
             left == IF have >= Cost THEN have - Cost ELSE have
             paid == IF have >= Cost THEN Cost ELSE 0
  <1>1. asks[q] \in AskSet
    BY DEF RateInv, RateTyped, Evaluate, Idle
  <1>2. c \in Callers /\ at \in Int /\ Cost \in Nat /\ Cost > 0
    BY <1>1, RateLimitAssumption DEF AskSet
  <1>3. at <= clock + MaxSkew
    BY DEF RateInv, TimesTrue, Evaluate, Idle
  <1>4. have \in Nat
    <2>1. CASE bucket[c] = NoBucket
      BY <2>1, RateLimitAssumption DEF Tokens
    <2>2. CASE bucket[c] # NoBucket
      <3>1. bucket[c] \in BucketSet /\ bucket[c].tokens >= 0
        BY <1>2, <2>2 DEF RateInv, RateTyped, RatesPaid, BucketPays
      <3> QED BY <1>2, <3>1, TokensBound
    <2> QED BY <2>1, <2>2
  <1> HIDE DEF have
  <1>5. left \in Nat /\ paid \in {0, Cost} /\ left + paid = have
        /\ (paid = 0 <=> ~ have >= Cost)
    BY <1>2, <1>4
  <1>6. /\ bucket' = [bucket EXCEPT ![c] =
              [tokens |-> left, ts |-> at, dies |-> clock + Window]]
        /\ late' = [late EXCEPT ![c] = @ + (clock + MaxSkew - at)]
        /\ admitted' = IF have >= Cost
              THEN [admitted EXCEPT ![c] = Append(@, at)] ELSE admitted
    BY DEF Evaluate, have, Ttl, Leaves
  <1> HIDE DEF left, paid, c, at
  <1>7. admitted' = IF paid = 0 THEN admitted
                    ELSE [admitted EXCEPT ![c] = Append(@, at)]
    BY <1>5, <1>6
  <1> QED BY <1>2, <1>3, <1>5, <1>6, <1>7 DEF have

LEMMA EvaluateKeeps ==
  ASSUME RateInv, NEW q \in Requests, Evaluate(q)
  PROVE  /\ UNCHANGED <<clock, skew, script, loaded, losses>>
         /\ asks' = [asks EXCEPT ![q] = Idle]
         /\ ~script => failed' = TRUE /\ UNCHANGED <<bucket, admitted, late>>
         /\ script => UNCHANGED failed
  BY DEF Evaluate

LEMMA EvaluateTyped ==
  ASSUME RateInv, NEW q \in Requests, Evaluate(q) PROVE RateTyped'
  <1>1. CASE ~script
    BY <1>1, EvaluateKeeps DEF RateInv, RateTyped
  <1>2. CASE script
    <2>1. PICK c \in Callers, at \in Int, left \in Nat, paid \in {0, Cost} :
            /\ bucket' = [bucket EXCEPT ![c] =
                  [tokens |-> left, ts |-> at, dies |-> clock + Window]]
            /\ late' = [late EXCEPT ![c] = @ + (clock + MaxSkew - at)]
            /\ admitted' = IF paid = 0 THEN admitted
                           ELSE [admitted EXCEPT ![c] = Append(@, at)]
      BY <1>2, EvaluateEffect
    <2> DEFINE new == [tokens |-> left, ts |-> at, dies |-> clock + Window]
    <2>2. new \in BucketSet
      BY RateLimitAssumption DEF BucketSet, RateInv, RateTyped
    <2> HIDE DEF new
    <2>3. bucket' \in [Callers -> BucketSet \cup {NoBucket}]
      BY <2>1, <2>2 DEF RateInv, RateTyped, new
    <2>4. late' \in [Callers -> Int]
      <3>1. late[c] + (clock + MaxSkew - at) \in Int
        BY RateLimitAssumption DEF RateInv, RateTyped
      <3> QED BY <2>1, <3>1 DEF RateInv, RateTyped
    <2>5. admitted' \in [Callers -> Seq(Int)]
      <3>1. Append(admitted[c], at) \in Seq(Int)
        BY DEF RateInv, RateTyped
      <3> QED BY <2>1, <3>1 DEF RateInv, RateTyped
    <2> QED BY <2>3, <2>4, <2>5, EvaluateKeeps DEF RateInv, RateTyped
  <1> QED BY <1>1, <1>2

LEMMA NextRateTyped ==
  ASSUME RateInv, [RateNext]_rateVars PROVE RateTyped'
  <1> USE DEF RateInv, RateTyped, stock
  <1>a. Window \in Nat /\ MaxSkew \in Nat
    BY RateLimitAssumption
  <1>1. CASE RateTick
    <2>1. bucket' \in [Callers -> BucketSet \cup {NoBucket}]
      BY <1>1 DEF RateTick
    <2> QED BY <1>1, <2>1 DEF RateTick
  <1>2. CASE RestartRedis
    BY <1>2 DEF RestartRedis, Empty
  <1>3. ASSUME NEW q \in Requests, NEW r \in Replicas, NEW c \in Callers,
               Arrive(q, r, c)
        PROVE  RateTyped'
    <2>1. [phase |-> "chaos", replica |-> r, caller |-> c, at |-> 0] \in AskSet
      BY DEF AskSet
    <2> QED BY <1>3, <2>1 DEF Arrive
  <1>4. ASSUME NEW q \in Requests, AskChaos(q) PROVE RateTyped'
    <2>1. asks[q] \in AskSet
      BY <1>4 DEF AskChaos, Idle
    <2>2. [asks[q] EXCEPT !.phase = "limit"] \in AskSet
      BY <2>1 DEF AskSet
    <2> QED BY <1>4, <2>2 DEF AskChaos
  <1>5. ASSUME NEW q \in Requests, ReadClock(q) PROVE RateTyped'
    <2>1. asks[q] \in AskSet
      BY <1>5 DEF ReadClock, Idle
    <2> DEFINE at == clock + skew[asks[q].replica]
               ph == IF asks[q].replica \in loaded THEN "eval" ELSE "load"
    <2>2. at \in Int
      BY <1>a, <2>1 DEF AskSet
    <2>3. ph \in {"eval", "load"}
      OBVIOUS
    <2> HIDE DEF at, ph
    <2>4. [asks[q] EXCEPT !.at = at, !.phase = ph] \in AskSet
      BY <2>1, <2>2, <2>3 DEF AskSet
    <2>5. asks' = [asks EXCEPT ![q] = [asks[q] EXCEPT !.at = at, !.phase = ph]]
      BY <1>5 DEF ReadClock, at, ph
    <2> QED BY <1>5, <2>4, <2>5 DEF ReadClock
  <1>6. ASSUME NEW q \in Requests, LoadScript(q) PROVE RateTyped'
    <2>1. asks[q] \in AskSet
      BY <1>6 DEF LoadScript, Idle
    <2>2. [asks[q] EXCEPT !.phase = "eval"] \in AskSet
      BY <2>1 DEF AskSet
    <2> QED BY <1>6, <2>2 DEF LoadScript
  <1>7. ASSUME NEW q \in Requests, Evaluate(q) PROVE RateTyped'
    BY <1>7, EvaluateTyped
  <1>8. ASSUME NEW often, SetChaos(often) PROVE RateTyped'
    BY <1>8 DEF SetChaos
  <1>9. ASSUME NEW r \in Replicas, RestartReplica(r) PROVE RateTyped'
    BY <1>9 DEF RestartReplica
  <1>10. CASE UNCHANGED rateVars
    BY <1>10 DEF rateVars
  <1> QED BY <1>1, <1>2, <1>3, <1>4, <1>5, <1>6, <1>7, <1>8, <1>9, <1>10
          DEF RateNext

-----------------------------------------------------------------------------
(* Timestamps and the script.                                                *)

LEMMA NextTimesTrue ==
  ASSUME RateInv, [RateNext]_rateVars PROVE TimesTrue'
  <1> DEFINE Kept(q) == asks'[q] # Idle => asks'[q].at <= clock + MaxSkew
  <1>a. /\ clock \in Nat /\ MaxSkew \in Nat /\ skew \in [Replicas -> 0..MaxSkew]
        /\ asks \in [Requests -> AskSet \cup {Idle}]
        /\ clock' \in {clock, clock + 1}
    BY RateLimitAssumption DEF RateInv, RateTyped, RateNext, rateVars, RateTick,
       RestartRedis, Arrive, AskChaos, ReadClock, LoadScript, Evaluate, SetChaos,
       RestartReplica
  <1>b. \A q \in Requests : asks[q] # Idle => asks[q].at <= clock + MaxSkew
    BY DEF RateInv, TimesTrue
  <1>1. ASSUME \A q \in Requests : asks'[q] \in {asks[q], Idle}
        PROVE  \A q \in Requests : Kept(q)
    BY <1>1, <1>b
  <1>2. ASSUME NEW q \in Requests, NEW r \in Replicas, NEW c \in Callers,
               Arrive(q, r, c)
        PROVE  \A p \in Requests : Kept(p)
    BY <1>2, <1>a, <1>b DEF Arrive
  <1>3. ASSUME NEW q \in Requests, AskChaos(q) \/ LoadScript(q)
        PROVE  \A p \in Requests : Kept(p)
    <2>1. asks[q] \in AskSet /\ asks[q] # Idle
      BY <1>3, <1>a DEF AskChaos, LoadScript, Idle
    <2>2. asks'[q] = Idle \/ asks'[q].at = asks[q].at
      BY <1>3, <1>a, <2>1 DEF AskChaos, LoadScript, AskSet
    <2>3. \A p \in Requests : p # q => asks'[p] = asks[p]
      BY <1>3, <1>a DEF AskChaos, LoadScript
    <2> QED BY <1>b, <2>1, <2>2, <2>3
  <1>4. ASSUME NEW q \in Requests, ReadClock(q) PROVE \A p \in Requests : Kept(p)
    <2>1. asks[q] \in AskSet
      BY <1>4, <1>a DEF ReadClock, Idle
    <2>2. asks'[q].at = clock + skew[asks[q].replica]
      BY <1>4, <1>a, <2>1 DEF ReadClock, AskSet
    <2>3. skew[asks[q].replica] \in 0..MaxSkew
      BY <1>a, <2>1 DEF AskSet
    <2>4. \A p \in Requests : p # q => asks'[p] = asks[p]
      BY <1>4, <1>a DEF ReadClock
    <2> QED BY <1>a, <1>b, <2>2, <2>3, <2>4
  <1>5. ASSUME NEW q \in Requests, Evaluate(q) PROVE \A p \in Requests : Kept(p)
    BY <1>1, <1>5, EvaluateKeeps, <1>a
  <1>6. ASSUME NEW r \in Replicas, RestartReplica(r)
        PROVE  \A p \in Requests : Kept(p)
    BY <1>1, <1>6 DEF RestartReplica
  <1>7. ASSUME UNCHANGED asks PROVE \A p \in Requests : Kept(p)
    BY <1>1, <1>7
  <1>8. \A q \in Requests : Kept(q)
    BY <1>2, <1>3, <1>4, <1>5, <1>6, <1>7
       DEF RateNext, rateVars, RateTick, RestartRedis, SetChaos
  <1>9. ASSUME NEW q \in Requests, asks'[q] # Idle
        PROVE  asks'[q].at <= clock' + MaxSkew
    <2>1. asks'[q] \in AskSet
      BY <1>9, NextRateTyped DEF RateTyped
    <2>2. asks'[q].at \in Int
      BY <2>1 DEF AskSet
    <2> QED BY <1>8, <1>9, <1>a, <2>2
  <1> QED BY <1>9 DEF TimesTrue

LEMMA NextScriptThere ==
  ASSUME RateInv, [RateNext]_rateVars PROVE ScriptThere'
  <1> USE DEF ScriptThere
  <1>a. ScriptThere /\ losses \in Nat /\ asks \in [Requests -> AskSet \cup {Idle}]
        /\ Idle.phase # "eval"
    BY DEF RateInv, RateTyped, Idle
  <1>1. CASE RateTick
    BY <1>1, <1>a DEF RateTick
  <1>2. CASE RestartRedis
    BY <1>2, <1>a DEF RestartRedis
  <1>3. ASSUME NEW q \in Requests, NEW r \in Replicas, NEW c \in Callers,
               Arrive(q, r, c)
        PROVE  ScriptThere'
    BY <1>3, <1>a DEF Arrive, stock
  <1>4. ASSUME NEW q \in Requests, AskChaos(q) PROVE ScriptThere'
    <2>1. asks[q] \in AskSet
      BY <1>4, <1>a DEF AskChaos, Idle
    <2>2. asks'[q].phase # "eval"
      BY <1>4, <1>a, <2>1 DEF AskChaos, AskSet
    <2> QED BY <1>4, <1>a, <2>2 DEF AskChaos, stock
  <1>5. ASSUME NEW q \in Requests, ReadClock(q) PROVE ScriptThere'
    <2>1. asks[q] \in AskSet
      BY <1>5, <1>a DEF ReadClock, Idle
    <2>2. loaded = {} => asks'[q].phase = "load"
      BY <1>5, <1>a, <2>1 DEF ReadClock, AskSet
    <2> QED BY <1>5, <1>a, <2>2 DEF ReadClock, stock
  <1>6. ASSUME NEW q \in Requests, LoadScript(q) PROVE ScriptThere'
    BY <1>6, <1>a DEF LoadScript
  <1>7. ASSUME NEW q \in Requests, Evaluate(q) PROVE ScriptThere'
    <2>1. script \/ losses > 0
      BY <1>7, <1>a DEF Evaluate
    <2> QED BY <1>7, <1>a, <2>1, EvaluateKeeps
  <1>8. ASSUME NEW often, SetChaos(often) PROVE ScriptThere'
    BY <1>8, <1>a DEF SetChaos, stock
  <1>9. ASSUME NEW r \in Replicas, RestartReplica(r) PROVE ScriptThere'
    BY <1>9, <1>a DEF RestartReplica, stock
  <1>10. CASE UNCHANGED rateVars
    BY <1>10, <1>a DEF rateVars, stock
  <1> QED BY <1>1, <1>2, <1>3, <1>4, <1>5, <1>6, <1>7, <1>8, <1>9, <1>10
          DEF RateNext

-----------------------------------------------------------------------------
(* What is spent is paid for.                                                *)

LEMMA EvaluatePaid ==
  ASSUME RateInv, NEW q \in Requests, Evaluate(q) PROVE RatesPaid'
  <1>1. CASE ~script
    BY <1>1, EvaluateKeeps DEF RateInv, RatesPaid, BucketPays, Spent
  <1>2. CASE script
    <2>1. PICK c \in Callers, at \in Int, left \in Nat, paid \in {0, Cost} :
            /\ at <= clock + MaxSkew
            /\ left + paid = Tokens(bucket[c], at)
            /\ bucket' = [bucket EXCEPT ![c] =
                  [tokens |-> left, ts |-> at, dies |-> clock + Window]]
            /\ late' = [late EXCEPT ![c] = @ + (clock + MaxSkew - at)]
            /\ admitted' = IF paid = 0 THEN admitted
                           ELSE [admitted EXCEPT ![c] = Append(@, at)]
      BY <1>2, EvaluateEffect
    <2>2. ASSUME NEW d \in Callers, d # c
          PROVE  IF bucket'[d] = NoBucket
                 THEN Spent(d)' <= Window * losses' + clock' + MaxSkew + late'[d]
                 ELSE BucketPays(d)'
      <3>1. /\ bucket'[d] = bucket[d] /\ late'[d] = late[d]
            /\ admitted'[d] = admitted[d] /\ clock' = clock /\ losses' = losses
        BY <2>1, <2>2, EvaluateKeeps DEF RateInv, RateTyped
      <3> QED BY <3>1 DEF RateInv, RatesPaid, BucketPays, Spent
    <2>3. /\ bucket'[c] = [tokens |-> left, ts |-> at, dies |-> clock + Window]
          /\ late'[c] = late[c] + (clock + MaxSkew - at)
          /\ clock' = clock /\ losses' = losses
      BY <2>1, EvaluateKeeps DEF RateInv, RateTyped
    <2>4. Spent(c)' = Spent(c) + paid
      <3>1. CASE paid = 0
        <4>1. admitted' = admitted
          BY <2>1, <3>1
        <4> QED BY <3>1, <4>1, SpentType DEF Spent, RateInv
      <3>2. CASE paid # 0
        <4>1. admitted'[c] = Append(admitted[c], at) /\ paid = Cost
          BY <2>1, <3>2 DEF RateInv, RateTyped
        <4>2. admitted[c] \in Seq(Int) /\ Cost \in Nat
          BY RateLimitAssumption DEF RateInv, RateTyped
        <4>3. Len(admitted'[c]) = Len(admitted[c]) + 1 /\ Len(admitted[c]) \in Nat
          BY <4>1, <4>2
        <4> QED BY <4>1, <4>2, <4>3, OneMore DEF Spent
      <3> QED BY <3>1, <3>2
    <2> DEFINE owed == Window * losses
               have == Tokens(bucket[c], at)
    <2>5. /\ owed \in Nat /\ Window * (1 + losses) = Window + owed
          /\ Window \in Nat /\ MaxSkew \in Nat /\ clock \in Nat /\ late[c] \in Int
          /\ Spent(c) \in Nat
      BY OneMore, RateLimitAssumption, SpentType DEF RateInv, RateTyped
    <2>6. Spent(c) + have <= Window + owed + late[c] + clock + MaxSkew
      <3>1. CASE bucket[c] = NoBucket
        <4>1. have = Window /\ Spent(c) <= owed + clock + MaxSkew + late[c]
          BY <3>1 DEF Tokens, RateInv, RatesPaid
        <4> QED BY <2>5, <4>1
      <3>2. CASE bucket[c] # NoBucket
        <4> DEFINE b == bucket[c]
        <4>1. b \in BucketSet /\ b.tokens \in Int /\ b.ts \in Int
          BY <3>2 DEF RateInv, RateTyped, BucketSet
        <4>2. /\ b.tokens >= 0 /\ b.ts <= clock + MaxSkew
              /\ Spent(c) + b.tokens - b.ts <= Window + owed + late[c]
          BY <2>5, <3>2 DEF RateInv, RatesPaid, BucketPays
        <4> HIDE DEF b
        <4>3. /\ have \in Int
              /\ have <= b.tokens + (IF at >= b.ts THEN at - b.ts ELSE 0)
          BY <4>1, <4>2, TokensBound DEF b
        <4>4. at <= clock + MaxSkew /\ at \in Int
          BY <2>1
        <4>5. Spent(c) + b.tokens - b.ts <= Window + owed + late[c]
          BY <2>5, <4>2
        <4> HIDE DEF have, owed
        <4>6. CASE at >= b.ts
          BY <2>5, <4>1, <4>2, <4>3, <4>4, <4>5, <4>6
        <4>7. CASE at < b.ts
          BY <2>5, <4>1, <4>2, <4>3, <4>4, <4>5, <4>7
        <4> QED BY <4>1, <4>4, <4>6, <4>7
      <3> QED BY <3>1, <3>2
    <2> HIDE DEF have, owed
    <2>7. Spent(c)' + left - at <= Window + owed + late'[c]
      <3>1. have = left + paid /\ paid \in Nat
        BY <2>1, RateLimitAssumption DEF have
      <3> QED BY <2>3, <2>4, <2>5, <2>6, <3>1
    <2>8. bucket'[c] \in BucketSet
      BY <2>3, <2>5 DEF BucketSet
    <2>9. BucketPays(c)'
      <3>1. /\ bucket'[c].tokens = left /\ bucket'[c].ts = at
            /\ bucket'[c].dies = clock + Window
        BY <2>3
      <3> QED BY <2>1, <2>3, <2>5, <2>7, <3>1 DEF BucketPays
    <2>10. bucket'[c] # NoBucket
      BY <2>8, RateLimitAssumption DEF BucketSet
    <2> QED BY <2>2, <2>9, <2>10 DEF RatesPaid
  <1> QED BY <1>1, <1>2

\* A bucket that disappears, because its time is up or Redis was restarted.
LEMMA BucketGone ==
  ASSUME RateInv, NEW c \in Callers, bucket[c] # NoBucket
  PROVE  /\ Spent(c) <= Window * (1 + losses) + clock + MaxSkew + late[c]
         /\ \A t \in Nat : bucket[c].dies <= t =>
               Spent(c) <= Window * losses + t + MaxSkew + late[c]
  <1> DEFINE owed == Window * losses
             b == bucket[c]
  <1>1. /\ owed \in Nat /\ Window * (1 + losses) = Window + owed
        /\ Window \in Nat /\ MaxSkew \in Nat /\ clock \in Nat /\ late[c] \in Int
        /\ Spent(c) \in Nat
    BY OneMore, RateLimitAssumption, SpentType DEF RateInv, RateTyped
  <1>2. b.tokens \in Int /\ b.ts \in Int /\ b.dies \in Int
    BY DEF RateInv, RateTyped, BucketSet
  <1>3. /\ b.tokens >= 0 /\ b.ts <= clock + MaxSkew
        /\ b.ts <= b.dies - Window + MaxSkew
        /\ Spent(c) + b.tokens - b.ts <= Window + owed + late[c]
    BY <1>1 DEF RateInv, RatesPaid, BucketPays
  <1> HIDE DEF owed, b
  <1>4. Spent(c) <= Window + owed + clock + MaxSkew + late[c]
    BY <1>1, <1>2, <1>3
  <1>5. \A t \in Nat : b.dies <= t => Spent(c) <= owed + t + MaxSkew + late[c]
    BY <1>1, <1>2, <1>3
  <1> QED BY <1>1, <1>4, <1>5 DEF owed, b

LEMMA NextRatesPaid ==
  ASSUME RateInv, [RateNext]_rateVars PROVE RatesPaid'
  <1>a. /\ Window \in Nat /\ MaxSkew \in Nat /\ clock \in Nat /\ losses \in Nat
        /\ Window * losses \in Nat
        /\ Window * (1 + losses) = Window + Window * losses
        /\ Window * (losses + 1) = Window + Window * losses
        /\ Window * (1 + (losses + 1)) = Window + Window + Window * losses
    BY OneMore, RateLimitAssumption DEF RateInv, RateTyped
  <1>1. CASE RateTick
    <2>1. ASSUME NEW c \in Callers
          PROVE  IF bucket'[c] = NoBucket
                 THEN Spent(c)' <= Window * losses' + clock' + MaxSkew + late'[c]
                 ELSE BucketPays(c)'
      <3>1. /\ Spent(c)' = Spent(c) /\ late'[c] = late[c] /\ late[c] \in Int
            /\ losses' = losses /\ clock' = clock + 1 /\ Spent(c) \in Nat
        BY <1>1, SpentType DEF RateTick, Spent, RateInv, RateTyped
      <3>2. bucket'[c] = IF bucket[c] = NoBucket THEN NoBucket
                         ELSE IF bucket[c].dies <= clock' THEN NoBucket
                         ELSE bucket[c]
        BY <1>1 DEF RateTick
      <3>3. CASE bucket[c] = NoBucket
        <4>1. Spent(c) <= Window * losses + clock + MaxSkew + late[c]
          BY <3>3 DEF RateInv, RatesPaid
        <4> QED BY <1>a, <3>1, <3>2, <3>3, <4>1
      <3>4. CASE bucket[c] # NoBucket /\ bucket[c].dies <= clock'
        <4>1. Spent(c) <= Window * losses + clock' + MaxSkew + late[c]
          BY <1>a, <3>1, <3>4, BucketGone
        <4> QED BY <3>1, <3>2, <3>4, <4>1
      <3>5. CASE bucket[c] # NoBucket /\ ~ bucket[c].dies <= clock'
        <4>1. bucket'[c] = bucket[c] /\ BucketPays(c) /\ bucket[c].ts \in Int
          BY <3>2, <3>5 DEF RateInv, RateTyped, RatesPaid, BucketSet
        <4> QED BY <1>a, <3>1, <3>5, <4>1 DEF BucketPays
      <3> QED BY <3>3, <3>4, <3>5
    <2> QED BY <2>1 DEF RatesPaid
  <1>2. ASSUME UNCHANGED <<clock, stock>>, losses' \in {losses, losses + 1}
        PROVE  RatesPaid'
    <2>1. ASSUME NEW c \in Callers
          PROVE  IF bucket'[c] = NoBucket
                 THEN Spent(c)' <= Window * losses' + clock' + MaxSkew + late'[c]
                 ELSE BucketPays(c)'
      <3>1. /\ Spent(c)' = Spent(c) /\ late' = late /\ late[c] \in Int
            /\ clock' = clock /\ bucket' = bucket /\ Spent(c) \in Nat
        BY <1>2, SpentType DEF stock, Spent, RateInv, RateTyped
      <3>2. /\ Window * losses' >= Window * losses
            /\ Window * (1 + losses') >= Window * (1 + losses)
            /\ Window * losses' \in Nat /\ Window * (1 + losses') \in Nat
        <4>1. CASE losses' = losses
          BY <1>a, <4>1
        <4>2. CASE losses' = losses + 1
          BY <1>a, <4>2
        <4> QED BY <1>2, <4>1, <4>2
      <3>3. CASE bucket[c] = NoBucket
        <4>1. Spent(c) <= Window * losses + clock + MaxSkew + late[c]
          BY <3>3 DEF RateInv, RatesPaid
        <4> QED BY <1>a, <3>1, <3>2, <3>3, <4>1
      <3>4. CASE bucket[c] # NoBucket
        <4>1. BucketPays(c) /\ bucket[c].ts \in Int /\ bucket[c].tokens \in Int
          BY <3>4 DEF RateInv, RateTyped, RatesPaid, BucketSet
        <4>2. Spent(c) + bucket[c].tokens - bucket[c].ts
                <= Window * (1 + losses') + late[c]
          BY <1>a, <3>1, <3>2, <4>1 DEF BucketPays
        <4> QED BY <3>1, <3>4, <4>1, <4>2 DEF BucketPays
      <3> QED BY <3>3, <3>4
    <2> QED BY <2>1 DEF RatesPaid
  <1>3. CASE RestartRedis
    <2>1. ASSUME NEW c \in Callers
          PROVE  /\ bucket'[c] = NoBucket
                 /\ Spent(c)' <= Window * losses' + clock' + MaxSkew + late'[c]
      <3>1. /\ Spent(c)' = Spent(c) /\ late' = late /\ late[c] \in Int
            /\ clock' = clock /\ losses' = losses + 1 /\ bucket'[c] = NoBucket
            /\ Spent(c) \in Nat
        BY <1>3, SpentType DEF RestartRedis, Empty, Spent, RateInv, RateTyped
      <3>2. Spent(c) <= Window * (1 + losses) + clock + MaxSkew + late[c]
        <4>1. CASE bucket[c] = NoBucket
          <5>1. Spent(c) <= Window * losses + clock + MaxSkew + late[c]
            BY <4>1 DEF RateInv, RatesPaid
          <5> QED BY <1>a, <3>1, <5>1
        <4> QED BY <4>1, BucketGone
      <3> QED BY <1>a, <3>1, <3>2
    <2> QED BY <2>1 DEF RatesPaid
  <1>4. ASSUME NEW q \in Requests, Evaluate(q) PROVE RatesPaid'
    BY <1>4, EvaluatePaid
  <1>5. ASSUME NEW q \in Requests, LoadScript(q) PROVE RatesPaid'
    BY <1>5 DEF LoadScript, RateInv, RatesPaid, BucketPays, Spent
  <1>6. ASSUME NEW r \in Replicas, RestartReplica(r) PROVE RatesPaid'
    BY <1>2, <1>6 DEF RestartReplica
  <1>7. CASE UNCHANGED <<clock, stock, losses>>
    BY <1>2, <1>7
  <1> QED BY <1>1, <1>3, <1>4, <1>5, <1>6, <1>7 DEF RateNext, rateVars, Arrive,
             AskChaos, ReadClock, SetChaos

LEMMA BoundedFromPaid == RateInv => RateBounded
  <1> SUFFICES ASSUME RateInv, NEW c \in Callers
               PROVE  Spent(c) <= Window * (1 + losses) + clock + MaxSkew + late[c]
    BY DEF RateBounded
  <1>1. CASE bucket[c] = NoBucket
    <2>1. /\ Window \in Nat /\ MaxSkew \in Nat /\ clock \in Nat
          /\ late[c] \in Int /\ Spent(c) \in Nat /\ Window * losses \in Nat
          /\ Window * (1 + losses) = Window + Window * losses
      BY OneMore, RateLimitAssumption, SpentType DEF RateInv, RateTyped
    <2>2. Spent(c) <= Window * losses + clock + MaxSkew + late[c]
      BY <1>1 DEF RateInv, RatesPaid
    <2> QED BY <2>1, <2>2
  <1> QED BY <1>1, BucketGone

LEMMA NextRate == RateInv /\ [RateNext]_rateVars => RateInv'
  BY NextRateTyped, NextTimesTrue, NextRatesPaid, NextScriptThere DEF RateInv

-----------------------------------------------------------------------------
(* Exactness.  While no timestamp comes late the script sees the present     *)
(* time, and what it keeps is what the log of the admitted requests leaves.  *)

\* What a full bucket at the i-th admitted request leaves at a given time.
LeftSince(log, at, i) == Window + at - log[i] - Cost * (Len(log) - i + 1)

\* x is LeftOver, said without a minimum.
IsLeft(x, log, at) ==
    /\ x <= Window /\ \A i \in DOMAIN log : x <= LeftSince(log, at, i)
    /\ x = Window \/ \E i \in DOMAIN log : x = LeftSince(log, at, i)

BucketExact ==
    \A c \in Callers :
        /\ late[c] >= 0
        /\ late[c] = 0 /\ losses = 0 =>
              IF bucket[c] = NoBucket
              THEN IsLeft(Window, admitted[c], clock + MaxSkew)
              ELSE IsLeft(bucket[c].tokens, admitted[c], bucket[c].ts)

LEMMA LeftSinceInt ==
  ASSUME NEW log \in Seq(Int), NEW at \in Int, NEW i \in DOMAIN log
  PROVE  /\ LeftSince(log, at, i) \in Int
         /\ \A t \in Int : LeftSince(log, t, i) = LeftSince(log, at, i) + (t - at)
  <1>1. /\ i \in Nat /\ i <= Len(log) /\ Len(log) \in Nat /\ log[i] \in Int
        /\ Window \in Int /\ Cost \in Int
    BY RateLimitAssumption
  <1>2. PICK k \in Int : k = Cost * (Len(log) - i + 1)
    <2>1. Cost * (Len(log) - i + 1) \in Int
      BY <1>1
    <2> QED BY <2>1
  <1>3. \A t \in Int : LeftSince(log, t, i) = Window + t - log[i] - k
    BY <1>2, Zenon DEF LeftSince
  <1>4. LeftSince(log, at, i) = Window + at - log[i] - k
    BY <1>3
  <1>5. LeftSince(log, at, i) \in Int
    BY <1>1, <1>4
  <1>6. ASSUME NEW t \in Int
        PROVE  LeftSince(log, t, i) = LeftSince(log, at, i) + (t - at)
    <2>1. LeftSince(log, t, i) = Window + t - log[i] - k
      BY <1>3
    <2> QED BY <1>1, <1>4, <2>1
  <1> QED BY <1>5, <1>6

\* Time gives back what has passed, up to a full bucket.
LEMMA LeftLater ==
  ASSUME NEW log \in Seq(Int), NEW x \in Int, NEW at \in Int, NEW t \in Int,
         at <= t, IsLeft(x, log, at), NEW y \in Int,
         y = IF Window <= x + (t - at) THEN Window ELSE x + (t - at)
  PROVE  IsLeft(y, log, t)
  <1> DEFINE Old(i) == LeftSince(log, at, i)
             Now(i) == LeftSince(log, t, i)
  <1>1. \A i \in DOMAIN log : Old(i) \in Int /\ Now(i) = Old(i) + (t - at)
    BY LeftSinceInt
  <1>2. /\ x <= Window /\ \A i \in DOMAIN log : x <= Old(i)
        /\ x = Window \/ \E i \in DOMAIN log : x = Old(i)
    BY DEF IsLeft
  <1>3. Window \in Int
    BY RateLimitAssumption
  <1> HIDE DEF Old, Now
  <1>4. y <= Window /\ y <= x + (t - at)
    BY <1>3
  <1>5. \A i \in DOMAIN log : y <= Now(i)
    BY <1>1, <1>2, <1>4
  <1>6. y = Window \/ \E i \in DOMAIN log : y = Now(i)
    <2>1. CASE Window <= x + (t - at)
      BY <2>1
    <2>2. CASE ~(Window <= x + (t - at))
      <3>1. y = x + (t - at) /\ x # Window
        BY <1>3, <2>2
      <3>2. PICK i \in DOMAIN log : x = Old(i)
        BY <1>2, <3>1
      <3>3. y = Now(i)
        BY <1>1, <3>1, <3>2
      <3> QED BY <3>3
    <2> QED BY <2>1, <2>2
  <1> QED BY <1>4, <1>5, <1>6 DEF IsLeft, Now

\* An admitted request takes its cost from what was left.
LEMMA LeftAdmitted ==
  ASSUME NEW log \in Seq(Int), NEW at \in Int, NEW x \in Int,
         IsLeft(x, log, at)
  PROVE  IsLeft(x - Cost, Append(log, at), at)
  <1> DEFINE new == Append(log, at)
             n == Len(log)
             Old(i) == LeftSince(log, at, i)
             Now(i) == LeftSince(new, at, i)
  <1>1. /\ n \in Nat /\ Len(new) = n + 1 /\ new[n + 1] = at
        /\ DOMAIN log = 1..n /\ DOMAIN new = 1..(n + 1)
        /\ \A i \in 1..n : new[i] = log[i] /\ log[i] \in Int
    OBVIOUS
  <1>2. Window \in Int /\ Cost \in Int /\ Cost > 0
    BY RateLimitAssumption
  <1>3. ASSUME NEW i \in 1..n PROVE Now(i) = Old(i) - Cost /\ Old(i) \in Int
    <2> HIDE DEF n, new
    <2>1. PICK m \in Nat : /\ m = n - i + 1
                           /\ n + 1 - i + 1 = m + 1
      <3>1. n - i + 1 \in Nat /\ n + 1 - i + 1 = (n - i + 1) + 1
        BY <1>1
      <3> QED BY <3>1
    <2>2. /\ Cost * m \in Int
          /\ Cost * (m + 1) = Cost + Cost * m
      <3>1. Cost \in Nat
        BY <1>2
      <3>2. Cost * m \in Nat /\ Cost * (m + 1) = Cost + Cost * m
        BY <3>1, OneMore, Zenon
      <3> QED BY <3>2
    <2>3. /\ Now(i) = Window + at - log[i] - Cost * (n + 1 - i + 1)
          /\ Old(i) = Window + at - log[i] - Cost * (n - i + 1)
      BY <1>1 DEF LeftSince, n
    <2>4. /\ Now(i) = Window + at - log[i] - Cost * (m + 1)
          /\ Old(i) = Window + at - log[i] - Cost * m
      BY <2>1, <2>3, Zenon
    <2> HIDE DEF Now, Old
    <2> QED BY <1>1, <1>2, <2>2, <2>4
  <1>4. Now(n + 1) = Window - Cost
    <2>1. Now(n + 1) = Window + at - at - Cost * (n + 1 - (n + 1) + 1)
      BY <1>1 DEF LeftSince
    <2>2. n + 1 - (n + 1) + 1 = 1
      BY <1>1
    <2> HIDE DEF Now, n
    <2> QED BY <1>2, <2>1, <2>2
  <1>5. /\ x <= Window /\ \A i \in 1..n : x <= Old(i)
        /\ x = Window \/ \E i \in 1..n : x = Old(i)
    BY <1>1 DEF IsLeft
  <1> HIDE DEF Now, Old, n, new
  <1>6. \A i \in DOMAIN new : i \in 1..n \/ i = n + 1
    BY <1>1
  <1>7. \A i \in DOMAIN new : x - Cost <= Now(i)
    BY <1>2, <1>3, <1>4, <1>5, <1>6
  <1>8. \E i \in DOMAIN new : x - Cost = Now(i)
    <2>1. CASE x = Window
      <3>1. n + 1 \in DOMAIN new /\ x - Cost = Now(n + 1)
        BY <1>1, <1>4, <2>1
      <3> QED BY <3>1
    <2>2. ASSUME NEW i \in 1..n, x = Old(i)
          PROVE  \E j \in DOMAIN new : x - Cost = Now(j)
      <3>1. i \in DOMAIN new /\ x - Cost = Now(i)
        BY <1>1, <1>3, <2>2
      <3> QED BY <3>1
    <2> QED BY <1>5, <2>1, <2>2
  <1>9. x - Cost <= Window
    BY <1>2, <1>5
  <1> QED BY <1>7, <1>8, <1>9 DEF IsLeft, Now, new

LEMMA InitExact == RateInit => BucketExact
  <1> SUFFICES ASSUME RateInit, NEW c \in Callers
               PROVE  /\ late[c] >= 0 /\ bucket[c] = NoBucket
                      /\ IsLeft(Window, admitted[c], clock + MaxSkew)
    BY DEF BucketExact
  <1>1. late[c] = 0 /\ bucket[c] = NoBucket /\ admitted[c] = <<>>
    BY DEF RateInit, Empty
  <1>2. Window <= Window
    BY RateLimitAssumption
  <1> QED BY <1>1, <1>2 DEF IsLeft

\* Of a caller whose calls came on time, the script sees the present.
LEMMA EvaluateExact ==
  ASSUME RateInv, BucketExact, NEW q \in Requests, Evaluate(q)
  PROVE  BucketExact'
  <1>1. CASE ~script
    BY <1>1, EvaluateKeeps DEF BucketExact
  <1>2. CASE script
    <2>1. PICK c \in Callers, at \in Int, left \in Nat, paid \in {0, Cost} :
            /\ at <= clock + MaxSkew
            /\ left + paid = Tokens(bucket[c], at)
            /\ bucket' = [bucket EXCEPT ![c] =
                  [tokens |-> left, ts |-> at, dies |-> clock + Window]]
            /\ late' = [late EXCEPT ![c] = @ + (clock + MaxSkew - at)]
            /\ admitted' = IF paid = 0 THEN admitted
                           ELSE [admitted EXCEPT ![c] = Append(@, at)]
      BY <1>2, EvaluateEffect
    <2>2. UNCHANGED <<clock, losses>>
      BY EvaluateKeeps
    <2>3. ASSUME NEW d \in Callers, d # c
          PROVE  /\ late'[d] >= 0
                 /\ late'[d] = 0 /\ losses' = 0 =>
                       IF bucket'[d] = NoBucket
                       THEN IsLeft(Window, admitted'[d], clock' + MaxSkew)
                       ELSE IsLeft(bucket'[d].tokens, admitted'[d], bucket'[d].ts)
      <3>1. /\ bucket'[d] = bucket[d] /\ late'[d] = late[d]
            /\ admitted'[d] = admitted[d]
        BY <2>1, <2>3 DEF RateInv, RateTyped
      <3> QED BY <2>2, <3>1 DEF BucketExact
    <2>4. /\ clock \in Nat /\ MaxSkew \in Nat /\ Window \in Nat /\ Cost \in Nat
          /\ late[c] \in Int /\ late[c] >= 0 /\ admitted[c] \in Seq(Int)
      BY RateLimitAssumption DEF RateInv, RateTyped, BucketExact
    <2>5. /\ bucket'[c] = [tokens |-> left, ts |-> at, dies |-> clock + Window]
          /\ late'[c] = late[c] + (clock + MaxSkew - at)
          /\ admitted'[c] = IF paid = 0 THEN admitted[c] ELSE Append(admitted[c], at)
      BY <2>1 DEF RateInv, RateTyped
    <2>6. late'[c] >= 0
      BY <2>1, <2>4, <2>5
    <2>7. bucket'[c] # NoBucket /\ bucket'[c].tokens = left /\ bucket'[c].ts = at
      <3>1. bucket'[c] \in BucketSet
        BY <2>1, <2>4, <2>5 DEF BucketSet
      <3> QED BY <2>5, <3>1, RateLimitAssumption DEF BucketSet
    <2>8. ASSUME late'[c] = 0, losses' = 0
          PROVE  IsLeft(left, admitted'[c], at)
      <3>1. late[c] = 0 /\ losses = 0 /\ at = clock + MaxSkew
        BY <2>1, <2>2, <2>4, <2>5, <2>8
      <3>2. IsLeft(left + paid, admitted[c], at)
        <4>1. CASE bucket[c] = NoBucket
          <5>1. left + paid = Window
            BY <2>1, <4>1 DEF Tokens
          <5> QED BY <3>1, <4>1, <5>1 DEF BucketExact
        <4>2. CASE bucket[c] # NoBucket
          <5> DEFINE b == bucket[c]
                     aged == Max({0, at - b.ts})
          <5>1. /\ b.tokens \in Int /\ b.ts \in Int /\ b.ts <= at
                /\ IsLeft(b.tokens, admitted[c], b.ts)
            BY <3>1, <4>2
            DEF RateInv, RateTyped, RatesPaid, BucketPays, BucketSet, BucketExact
          <5>2. left + paid = Min({Window, b.tokens + aged})
            BY <2>1, <4>2 DEF Tokens
          <5> HIDE DEF b
          <5>3. at - b.ts \in Int
            BY <2>1, <5>1
          <5>4. aged = at - b.ts
            BY <5>1, <5>3, MaxOfTwo
          <5> HIDE DEF aged
          <5>5. left + paid = IF Window <= b.tokens + (at - b.ts) THEN Window
                              ELSE b.tokens + (at - b.ts)
            <6>1. b.tokens + (at - b.ts) \in Int
              BY <5>1, <5>3
            <6> QED BY <2>4, <5>2, <5>4, <6>1, MinOfTwo
          <5>6. left + paid \in Int
            BY <2>1, <2>4
          <5> QED BY <2>1, <2>4, <5>1, <5>5, <5>6, LeftLater
        <4> QED BY <4>1, <4>2
      <3>3. CASE paid = 0
        BY <2>5, <3>2, <3>3
      <3>4. CASE paid # 0
        <4>1. paid = Cost /\ left + paid \in Int /\ (left + paid) - Cost = left
          BY <2>1, <2>4, <3>4
        <4>2. IsLeft((left + paid) - Cost, Append(admitted[c], at), at)
          BY <2>1, <2>4, <3>2, <4>1, LeftAdmitted
        <4> QED BY <2>5, <3>4, <4>1, <4>2
      <3> QED BY <3>3, <3>4
    <2>9. ASSUME NEW d \in Callers
          PROVE  /\ late'[d] >= 0
                 /\ late'[d] = 0 /\ losses' = 0 =>
                       IF bucket'[d] = NoBucket
                       THEN IsLeft(Window, admitted'[d], clock' + MaxSkew)
                       ELSE IsLeft(bucket'[d].tokens, admitted'[d], bucket'[d].ts)
      <3>1. CASE d = c
        BY <2>6, <2>7, <2>8, <3>1
      <3> QED BY <2>3, <3>1
    <2> QED BY <2>9 DEF BucketExact
  <1> QED BY <1>1, <1>2

\* A key expires only once its bucket would be full.
LEMMA TickExact ==
  ASSUME RateInv, BucketExact, RateTick PROVE BucketExact'
  <1>1. /\ clock \in Nat /\ MaxSkew \in Nat /\ Window \in Nat /\ clock' = clock + 1
        /\ UNCHANGED <<late, admitted, losses>>
    BY RateLimitAssumption DEF RateInv, RateTyped, RateTick
  <1>2. ASSUME NEW c \in Callers, late[c] = 0, losses = 0
        PROVE  IF bucket'[c] = NoBucket
               THEN IsLeft(Window, admitted[c], clock' + MaxSkew)
               ELSE IsLeft(bucket'[c].tokens, admitted[c], bucket'[c].ts)
    <2>1. bucket'[c] = IF bucket[c] = NoBucket THEN NoBucket
                       ELSE IF bucket[c].dies <= clock' THEN NoBucket
                       ELSE bucket[c]
      BY DEF RateTick
    <2>2. admitted[c] \in Seq(Int)
      BY DEF RateInv, RateTyped
    <2>3. CASE bucket[c] = NoBucket
      <3>1. IsLeft(Window, admitted[c], clock + MaxSkew)
        BY <1>2, <2>3 DEF BucketExact
      <3>2. /\ clock + MaxSkew \in Int /\ clock' + MaxSkew \in Int
            /\ clock + MaxSkew <= clock' + MaxSkew
            /\ Window <= Window + ((clock' + MaxSkew) - (clock + MaxSkew))
        BY <1>1
      <3>3. IsLeft(Window, admitted[c], clock' + MaxSkew)
        BY <1>1, <2>2, <3>1, <3>2, LeftLater
      <3> QED BY <2>1, <2>3, <3>3
    <2>4. CASE bucket[c] # NoBucket /\ bucket[c].dies <= clock'
      <3> DEFINE b == bucket[c]
      <3>1. /\ b.tokens \in Int /\ b.ts \in Int /\ b.dies \in Int
            /\ b.tokens >= 0 /\ b.ts <= b.dies - Window + MaxSkew
            /\ IsLeft(b.tokens, admitted[c], b.ts)
        BY <1>2, <2>4
        DEF RateInv, RateTyped, RatesPaid, BucketPays, BucketSet, BucketExact
      <3> HIDE DEF b
      <3>2. /\ clock' + MaxSkew \in Int /\ b.ts <= clock' + MaxSkew
            /\ Window <= b.tokens + ((clock' + MaxSkew) - b.ts)
        BY <1>1, <2>4, <3>1 DEF b
      <3>3. IsLeft(Window, admitted[c], clock' + MaxSkew)
        BY <1>1, <2>2, <3>1, <3>2, LeftLater
      <3> QED BY <2>1, <2>4, <3>3
    <2>5. CASE bucket[c] # NoBucket /\ ~(bucket[c].dies <= clock')
      BY <1>2, <2>1, <2>5 DEF BucketExact
    <2> QED BY <2>3, <2>4, <2>5
  <1> QED BY <1>1, <1>2 DEF BucketExact

LEMMA NextExact ==
  ASSUME RateInv, BucketExact, [RateNext]_rateVars PROVE BucketExact'
  <1>1. CASE UNCHANGED <<clock, bucket, admitted, late, losses>>
    BY <1>1 DEF BucketExact
  <1>2. CASE UNCHANGED late /\ losses' = losses + 1
    <2>1. losses' # 0
      BY <1>2 DEF RateInv, RateTyped
    <2> QED BY <1>2, <2>1 DEF BucketExact
  <1> QED
    BY <1>1, <1>2, EvaluateExact, TickExact
    DEF RateNext, rateVars, stock, Arrive, AskChaos, ReadClock, LoadScript,
        SetChaos, RestartReplica, RestartRedis

LEMMA LeftIsLeftOver ==
  ASSUME RateInv, NEW c \in Callers, NEW at \in Int, NEW x \in Int,
         IsLeft(x, admitted[c], at)
  PROVE  LeftOver(c, at) = x
  <1> DEFINE log == admitted[c]
             all == {Window} \cup {Window + at - log[i] - Cost * (Len(log) - i + 1) :
                                      i \in DOMAIN log}
  <1>1. LeftOver(c, at) = Min(all)
    BY DEF LeftOver
  <1>2. x \in all /\ \A y \in all : x <= y
    BY DEF IsLeft, LeftSince
  <1>3. \A y \in all : y \in Int
    <2>1. log \in Seq(Int) /\ Window \in Int
      BY RateLimitAssumption DEF RateInv, RateTyped
    <2> QED BY <2>1, LeftSinceInt DEF LeftSince
  <1> HIDE DEF all
  <1>4. \A y \in all : (\A z \in all : y <= z) => y = x
    BY <1>2, <1>3
  <1>5. Min(all) = CHOOSE y \in all : \A z \in all : y <= z
    BY DEF Min
  <1> QED BY <1>1, <1>2, <1>4, <1>5

LEMMA ExactFromInv == RateInv /\ BucketExact => BucketIsExact
  <1> SUFFICES ASSUME RateInv, BucketExact, NEW c \in Callers,
                      late[c] = 0, losses = 0
               PROVE  IF bucket[c] = NoBucket
                      THEN LeftOver(c, clock + MaxSkew) = Window
                      ELSE bucket[c].tokens = LeftOver(c, bucket[c].ts)
    BY DEF BucketIsExact
  <1>1. clock + MaxSkew \in Int /\ Window \in Int
    BY RateLimitAssumption DEF RateInv, RateTyped
  <1>2. CASE bucket[c] = NoBucket
    BY <1>1, <1>2, LeftIsLeftOver DEF BucketExact
  <1>3. CASE bucket[c] # NoBucket
    <2>1. bucket[c].tokens \in Int /\ bucket[c].ts \in Int
      BY <1>3 DEF RateInv, RateTyped, BucketSet
    <2> QED BY <1>3, <2>1, LeftIsLeftOver DEF BucketExact
  <1> QED BY <1>2, <1>3

-----------------------------------------------------------------------------
(* The theorems.                                                             *)

\* Replicas whose clocks differ and calls that are late let no caller through
\* more often than the window, the time and their lateness pay for.
THEOREM LimitHolds == RateSpec => []RateBounded
  <1> QED BY InitRate, NextRate, BoundedFromPaid, PTL DEF RateSpec

\* No replica calls the script before it is there, unless something was lost.
THEOREM ErrorsHaveCause == RateSpec => []FailureHasCause
  <1>1. RateInv => FailureHasCause
    BY DEF RateInv, ScriptThere, FailureHasCause
  <1> QED BY <1>1, InitRate, NextRate, PTL DEF RateSpec

\* With clocks that agree, prompt calls and no restart, the bucket holds exactly
\* what the requests admitted so far leave, at every moment.
THEOREM BucketHoldsWhatIsLeft == RateSpec => []BucketIsExact
  <1>1. RateInit => RateInv /\ BucketExact
    BY InitRate, InitExact
  <1>2. RateInv /\ BucketExact /\ [RateNext]_rateVars => (RateInv /\ BucketExact)'
    BY NextRate, NextExact
  <1> QED BY <1>1, <1>2, ExactFromInv, PTL DEF RateSpec
=============================================================================
