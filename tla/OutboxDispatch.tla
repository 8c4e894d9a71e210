---------------------------- MODULE OutboxDispatch ----------------------------
(* The outbox dispatcher of src/worker/main.ts (dispatchOutbox): loops that  *)
(* read a batch of due rows, claim them one by one, publish and mark them    *)
(* SENT, or count a failed attempt.  Several loops run when several workers  *)
(* do, and one more after each reconnection, because the loop of the lost    *)
(* connection is never stopped.                                              *)
(*                                                                           *)
(* Every await is a boundary between two actions.  Times are seconds; the    *)
(* clock moves through Instants.  Abstracted: what a row carries, its type   *)
(* and exchange, lockedBy (written, never read).  The circuit breaker is a   *)
(* library: after a failure it opens or not as it judges, and closes again   *)
(* after a while.                                                            *)
EXTENDS Integers, FiniteSets

CONSTANTS
    Events,       \* outbox rows, numbered in the order of createdAt
    Dispatchers,  \* incarnations of the dispatch loop
    Started,      \* those a worker process starts with
    WorkerOf,     \* WorkerOf[d]: the process that runs loop d
    BatchSize,    \* rows read at a time
    Instants,     \* the seconds at which something may happen
    FailureKinds, \* the failures this instance has
    MaxFailures   \* bound: how many of them in a run

StaleAfter == 60    \* seconds after which a lock may be taken over
DeadAfter == 7      \* failed attempts that make a row DEAD
NoLock == -1

ASSUME EventsAssumption == Events \subseteq Nat /\ IsFiniteSet(Events)
ASSUME LoopsAssumption ==
    Started \subseteq Dispatchers /\ DOMAIN WorkerOf = Dispatchers
ASSUME InstantsAssumption == Instants \subseteq Nat /\ 0 \in Instants
ASSUME BatchAssumption == BatchSize \in Nat \ {0}
ASSUME FailuresAssumption ==
    /\ FailureKinds \subseteq
          {"publish", "circuit", "mark", "query", "crash", "reconnect"}
    /\ MaxFailures \in Nat

VARIABLES
    rows,       \* rows[e]: status, attempts, availableAt, lockedAt
    loop,       \* loop[d]: what each dispatch loop is doing
    channel,    \* channel[d]: whether its AMQP channel is open
    opened,     \* opened[d]: whether its circuit breaker is open
    clock,
    failures,   \* failures so far, bounded by MaxFailures
    published,  \* history: times the broker accepted each event
    failed,     \* history: failed attempts of each event
    late        \* history: a claim has been held for more than StaleAfter

history == <<published, failed>>
links == <<channel, opened>>
vars == <<rows, loop, links, clock, failures, history, late>>

NoBatch == [e \in {} |-> [attempts |-> 0, lockedAt |-> NoLock]]
Resting == [phase |-> "idle", now |-> 0, batch |-> NoBatch]

Stopped(phase) == [Resting EXCEPT !.phase = phase]
AtStart(d) == IF d \in Started THEN Resting ELSE Stopped("off")

Init ==
    /\ rows = [e \in Events |-> [status |-> "NONE", attempts |-> 0,
                                 availableAt |-> 0, lockedAt |-> NoLock]]
    /\ loop = [d \in Dispatchers |-> AtStart(d)]
    /\ channel = [d \in Dispatchers |-> TRUE]
    /\ opened = [d \in Dispatchers |-> FALSE]
    /\ clock = 0
    /\ failures = 0
    /\ published = [e \in Events |-> 0]
    /\ failed = [e \in Events |-> 0]
    /\ late = FALSE

\* Bounds: so many failures, and none the clock does not outlast by the
\* longest backoff or lock.
Fails(kind) ==
    /\ kind \in FailureKinds
    /\ failures < MaxFailures
    /\ \E t \in Instants : t > clock + StaleAfter
    /\ failures' = failures + 1

-----------------------------------------------------------------------------
\* A transaction commits the next row; it is due at once.
Create(e) ==
    /\ rows[e].status = "NONE"
    /\ \A f \in Events : f < e => rows[f].status # "NONE"
    /\ rows' = [rows EXCEPT ![e].status = "PENDING", ![e].availableAt = clock]
    /\ UNCHANGED <<loop, links, clock, failures, history>>

\* Mutants: a lock is never taken over; the status, or the lock, not asked.
DueUnlockedOnly ==
    {e \in Events :
        /\ rows[e].status = "PENDING"
        /\ rows[e].availableAt <= clock
        /\ rows[e].lockedAt = NoLock}
DueAnyStatus ==
    {e \in Events :
        /\ rows[e].status # "NONE"
        /\ rows[e].availableAt <= clock
        /\ rows[e].lockedAt = NoLock \/ rows[e].lockedAt < clock - StaleAfter}
DueLocked ==
    {e \in Events :
        /\ rows[e].status = "PENDING"
        /\ rows[e].availableAt <= clock}

Due ==
    {e \in Events :
        /\ rows[e].status = "PENDING"
        /\ rows[e].availableAt <= clock
        /\ rows[e].lockedAt = NoLock \/ rows[e].lockedAt < clock - StaleAfter}

\* findMany: the oldest due rows.  The copy, and now, serve the whole batch.
ReadBatch(d) ==
    LET page == {e \in Due : Cardinality({f \in Due : f < e}) < BatchSize} IN
    /\ loop[d].phase = "idle"
    /\ ~opened[d]
    /\ page # {}
    /\ loop' = [loop EXCEPT ![d] =
          [phase |-> "batch", now |-> clock,
           batch |-> [e \in page |-> [attempts |-> rows[e].attempts,
                                      lockedAt |-> rows[e].lockedAt]]]]
    /\ UNCHANGED <<rows, links, clock, failures, history>>

\* The row the loop is at.
At(d, e, phase) ==
    /\ loop[d].phase = phase
    /\ e \in DOMAIN loop[d].batch
    /\ \A f \in DOMAIN loop[d].batch : e <= f

Enter(d, phase) == loop' = [loop EXCEPT ![d].phase = phase]

\* On to the next row, or to sleep.
Advance(d, e) ==
    LET rest == DOMAIN loop[d].batch \ {e} IN
    loop' = [loop EXCEPT ![d] =
        IF rest = {} THEN Resting
        ELSE [phase |-> "batch", now |-> loop[d].now,
              batch |-> [f \in rest |-> loop[d].batch[f]]]]

\* Mutant: updateMany by id alone.
ClaimUnchecked(d, e) ==
    /\ At(d, e, "batch")
    /\ rows' = [rows EXCEPT ![e].lockedAt = loop[d].now]
    /\ Enter(d, "claimed")
    /\ UNCHANGED <<links, clock, failures, history>>

\* updateMany where lockedAt is still what was read; the status is not asked.
Claim(d, e) ==
    /\ At(d, e, "batch")
    /\ rows[e].lockedAt = loop[d].batch[e].lockedAt
    /\ rows' = [rows EXCEPT ![e].lockedAt = loop[d].now]
    /\ Enter(d, "claimed")
    /\ UNCHANGED <<links, clock, failures, history>>

LoseClaim(d, e) ==
    /\ At(d, e, "batch")
    /\ rows[e].lockedAt # loop[d].batch[e].lockedAt
    /\ Advance(d, e)
    /\ UNCHANGED <<rows, links, clock, failures, history>>

Publish(d, e) ==
    /\ At(d, e, "claimed")
    /\ channel[d] /\ ~opened[d]
    /\ published' = [published EXCEPT ![e] = @ + 1]
    /\ Enter(d, "published")
    /\ UNCHANGED <<rows, links, clock, failures, failed>>

Broken(d) == opened[d] \/ ~channel[d]

\* Mutant: the rejection is swallowed.
PublishFailsSwallowed(d, e) ==
    /\ At(d, e, "claimed")
    /\ IF Broken(d) THEN UNCHANGED failures ELSE Fails("publish")
    /\ Enter(d, "published")
    /\ UNCHANGED <<rows, links, clock, history>>

\* fire rejects: the circuit is open, the channel is closed, or publish
\* throws.  The breaker may open.
PublishFails(d, e) ==
    /\ At(d, e, "claimed")
    /\ IF Broken(d) THEN UNCHANGED failures ELSE Fails("publish")
    /\ \/ UNCHANGED opened
       \/ "circuit" \in FailureKinds /\ opened' = [opened EXCEPT ![d] = TRUE]
    /\ Enter(d, "failed")
    /\ UNCHANGED <<rows, channel, clock, history>>

\* Mutants: leaves the row PENDING; writes a status nobody knows.
MarkSentForgotten(d, e) ==
    /\ At(d, e, "published")
    /\ rows' = [rows EXCEPT ![e].lockedAt = NoLock]
    /\ Advance(d, e)
    /\ UNCHANGED <<links, clock, failures, history>>

MarkSent(d, e) ==
    /\ At(d, e, "published")
    /\ rows' = [rows EXCEPT ![e].status = "SENT", ![e].lockedAt = NoLock]
    /\ Advance(d, e)
    /\ UNCHANGED <<links, clock, failures, history>>

\* The update to SENT throws: it shares the try with the publish.
MarkFails(d, e) ==
    /\ At(d, e, "published")
    /\ Fails("mark")
    /\ Enter(d, "failed")
    /\ UNCHANGED <<rows, links, clock, history>>

Backoff(attempts) ==
    LET seconds == 2 ^ (IF attempts < 6 THEN attempts ELSE 6)
    IN  IF seconds < 60 THEN seconds ELSE 60

\* The catch: attempts counts on from the copy, the update is by id alone.
Reschedule(d, e) ==
    LET attempts == loop[d].batch[e].attempts + 1 IN
    /\ At(d, e, "failed")
    /\ rows' = [rows EXCEPT ![e] =
          [status |-> IF attempts >= DeadAfter THEN "DEAD" ELSE "PENDING",
           attempts |-> attempts,
           availableAt |-> clock + Backoff(attempts),
           lockedAt |-> NoLock]]
    /\ failed' = [failed EXCEPT ![e] = @ + 1]
    /\ Advance(d, e)
    /\ UNCHANGED <<links, clock, failures, published>>

\* findMany, updateMany or the catch's own update throws: nothing catches it,
\* dispatchOutbox.fatal is logged and the loop is over.
LoopDies(d) ==
    /\ Fails("query")
    /\ loop[d].phase \in {"idle", "batch", "failed"}
    /\ loop' = [loop EXCEPT ![d] = Stopped("stopped")]
    /\ UNCHANGED <<rows, links, clock, history>>

\* A worker process dies at any await and is started again.
Crash(w) ==
    LET lives == {d \in Dispatchers : WorkerOf[d] = w} IN
    /\ Fails("crash")
    /\ loop' = [d \in Dispatchers |-> IF d \in lives THEN AtStart(d) ELSE loop[d]]
    /\ channel' = [d \in Dispatchers |-> d \in lives \/ channel[d]]
    /\ opened' = [d \in Dispatchers |-> d \notin lives /\ opened[d]]
    /\ UNCHANGED <<rows, clock, history>>

\* The connection closes and reconnect starts another loop; this one goes on.
Reconnect(d, next) ==
    /\ Fails("reconnect")
    /\ loop[d].phase # "off" /\ channel[d]
    /\ loop[next].phase = "off" /\ WorkerOf[next] = WorkerOf[d]
    /\ channel' = [channel EXCEPT ![d] = FALSE]
    /\ loop' = [loop EXCEPT ![next] = Resting]
    /\ UNCHANGED <<rows, opened, clock, history>>

\* External: the breaker goes half open after its reset timeout.
HalfOpen(d) ==
    /\ opened[d]
    /\ opened' = [opened EXCEPT ![d] = FALSE]
    /\ UNCHANGED <<rows, loop, channel, clock, failures, history>>

\* Bound: the clock does not run out on a failure that has yet to be handled.
Tick ==
    /\ \E t \in Instants :
          /\ t > clock
          /\ \A u \in Instants : u <= clock \/ u >= t
          /\ \/ \E u \in Instants : u > t
             \/ \A d \in Dispatchers : loop[d].phase # "failed" /\ ~opened[d]
          /\ clock' = t
    /\ UNCHANGED <<rows, loop, links, failures, history>>

-----------------------------------------------------------------------------
\* A loop that has claimed e and not yet let go of it.
Holds(d, e) == \E p \in {"claimed", "published", "failed"} : At(d, e, p)

Overdue ==
    \E d \in Dispatchers, e \in Events :
        Holds(d, e) /\ loop[d].now < clock - StaleAfter

\* History, not code: remembers a claim held for too long.
Watch == late' = (late \/ Overdue')

RowStep(d, e) ==
    \/ Claim(d, e) \/ LoseClaim(d, e)
    \/ Publish(d, e) \/ PublishFails(d, e)
    \/ MarkSent(d, e) \/ MarkFails(d, e)
    \/ Reschedule(d, e)

DispatchStep(d) == ReadBatch(d) \/ \E e \in Events : RowStep(d, e)

Next ==
    /\ \/ \E e \in Events : Create(e)
       \/ \E d \in Dispatchers : DispatchStep(d)
       \/ \E d \in Dispatchers : LoopDies(d) \/ HalfOpen(d)
       \/ \E d \in Dispatchers : Crash(WorkerOf[d])
       \/ \E d, next \in Dispatchers : Reconnect(d, next)
       \/ Tick
    /\ Watch

Spec == Init /\ [][Next]_vars

\* A running loop goes on, the clock advances, and a breaker does not stay
\* open for ever.
Fairness ==
    /\ \A d \in Dispatchers : WF_vars(DispatchStep(d) /\ Watch)
    /\ \A d \in Dispatchers : WF_vars(HalfOpen(d) /\ Watch)
    /\ WF_vars(Tick /\ Watch)

FairSpec == Spec /\ Fairness
=============================================================================
