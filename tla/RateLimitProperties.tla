------------------------ MODULE RateLimitProperties ------------------------
(* What the limiter promises when clocks differ and Redis restarts.          *)
EXTENDS RateLimit

BucketTyped(b) ==
    b # NoBucket => /\ b.tokens \in 0..Window /\ b.ts \in 0..(clock + MaxSkew)
                    /\ b.dies \in (clock + 1)..(clock + Window)

\* Type correctness; no bucket ever holds more than it was made for.
RateTypeOK ==
    /\ clock \in 0..MaxClock /\ skew \in [Replicas -> 0..MaxSkew]
    /\ DOMAIN bucket = Callers /\ \A c \in Callers : BucketTyped(bucket[c])
    /\ loaded \subseteq Replicas /\ script \in BOOLEAN
    /\ chaos \in {"never", "sometimes", "always"}
    /\ \A q \in Requests : asks[q] # Idle =>
          asks[q].caller \in Callers /\ asks[q].at \in 0..(clock + MaxSkew)
    /\ late \in [Callers -> Nat]

Spent(c) == Cost * Len(admitted[c])

\* However requests of a caller are spread over replicas whose clocks differ,
\* and however late their timestamps arrive, no more of them are admitted than
\* a full bucket and the time that has passed pay for, plus the lateness of
\* the timestamps, which the bucket refunds, and a full bucket for every
\* restart.
RateBounded ==
    \A c \in Callers :
        Spent(c) <= Window * (1 + losses) + clock + MaxSkew + late[c]

\* The reference: over every stretch of time that begins with an admitted
\* request, no more than a window and the length of the stretch.
LeftOver(c, at) ==
    LET log == admitted[c] IN
    Min({Window} \cup {Window + at - log[i] - Cost * (Len(log) - i + 1) :
                          i \in DOMAIN log})

\* With clocks that agree, prompt calls and no restart the bucket is exact:
\* it holds what the admitted requests of the past leave, neither a refusal
\* nor the rounding nor the expiry of its key costs or gives the caller
\* anything.
BucketIsExact ==
    \A c \in Callers : late[c] = 0 /\ losses = 0 =>
        IF bucket[c] = NoBucket THEN LeftOver(c, clock + MaxSkew) = Window
        ELSE bucket[c].tokens = LeftOver(c, bucket[c].ts)

\* The limiter answers with an error only after Redis has lost the script: a
\* replica never calls it before it is there, however its first requests
\* overlap.
FailureHasCause == failed => losses > 0
=============================================================================
