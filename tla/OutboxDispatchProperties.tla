----------------------- MODULE OutboxDispatchProperties -----------------------
(* What the outbox dispatcher guarantees, alone and next to other loops, and *)
(* what the documentation says of it that it does not do.                    *)
EXTENDS OutboxDispatch

RowStatuses == {"NONE", "PENDING", "SENT", "DEAD"}
LoopPhases == {"off", "idle", "batch", "claimed", "published", "failed", "stopped"}

Row == [status : RowStatuses, attempts : Nat, availableAt : Int,
        lockedAt : Nat \cup {NoLock}]
Copy == [attempts : Nat, lockedAt : Nat \cup {NoLock}]

LoopTyped(l) ==
    /\ l = [phase |-> l.phase, now |-> l.now, batch |-> l.batch]
    /\ l.phase \in LoopPhases
    /\ l.now \in Nat
    /\ DOMAIN l.batch \subseteq Events
    /\ l.batch \in [DOMAIN l.batch -> Copy]

LoopsTyped ==
    /\ loop = [d \in Dispatchers |-> loop[d]]
    /\ \A d \in Dispatchers : LoopTyped(loop[d])

\* Type correctness of the rows, the loops and the histories.
TypeOK ==
    /\ rows \in [Events -> Row]
    /\ LoopsTyped
    /\ channel \in [Dispatchers -> BOOLEAN]
    /\ opened \in [Dispatchers -> BOOLEAN]
    /\ clock \in Instants
    /\ failures \in 0..MaxFailures
    /\ published \in [Events -> Nat] /\ failed \in [Events -> Nat]
    /\ late \in BOOLEAN

\* However many loops fight over a row with stale copies of it, SENT is only
\* written after the broker accepted the event, attempts never counts more
\* failures than there were, a row that can be read again has attempts left,
\* and a DEAD one has used all seven.
HonestRows ==
    \A e \in Events : LET row == rows[e] IN
        /\ row.status = "SENT" => published[e] > 0
        /\ row.attempts <= failed[e]
        /\ row.status = "PENDING" => row.attempts < DeadAfter
        /\ row.status = "DEAD" => row.attempts = DeadAfter

\* As long as no claim has been held for more than sixty seconds, the
\* comparison of lockedAt alone keeps two loops from holding one row, though
\* the status is never asked, copies are stale and locks are taken over.
LockExcludes ==
    ~late =>
        \A c, d \in Dispatchers, e \in Events :
            Holds(c, e) /\ Holds(d, e) => c = d

\* With one loop, each further copy of an event is the price of a failure:
\* a crash or an update that threw after the publish.
CopiesHaveCauses == \A e \in Events : published[e] <= 1 + failures

\* A committed row does not stay pending, whether the loop that claimed it
\* crashes, its publication or the update after it fails, or the circuit
\* opens: it is sent, or DEAD after seven failures.
PendingIsSettled ==
    \A e \in Events :
        rows[e].status = "PENDING" ~> rows[e].status \in {"SENT", "DEAD"}

-----------------------------------------------------------------------------
\* Refinement: the rows as the relay's stages.
StageOf(status) ==
    CASE status = "NONE"    -> "none"
      [] status = "PENDING" -> "pending"
      [] status = "SENT"    -> "sent"
      [] status = "DEAD"    -> "dead"

Stages == [e \in Events |-> StageOf(rows[e].status)]
Offered == {e \in Events : published[e] > 0}

Relay == INSTANCE OutboxRelay WITH stage <- Stages, offered <- Offered

\* One loop, through crashes, failed updates and failed publications, is a
\* relay: it never forgets a row, and SENT and DEAD are final.
RefinesRelay == Relay!Spec

-----------------------------------------------------------------------------
(* The inductive invariant behind HonestRows and LockExcludes.              *)

\* A row no transaction has written yet.
Unwritten == \A e \in Events : rows[e].status = "NONE" => rows[e].attempts = 0

\* However old a copy is, it was due when it was read, and it never counts
\* more failures than there have been.
CopiesWereDue ==
    \A d \in Dispatchers : \A e \in DOMAIN loop[d].batch :
        LET copy == loop[d].batch[e] IN
        /\ copy.attempts < DeadAfter
        /\ copy.attempts <= failed[e]
        /\ copy.lockedAt = NoLock \/ copy.lockedAt < loop[d].now - StaleAfter

\* A loop between the publish and the update to SENT has published.
PublishedIs ==
    \A d \in Dispatchers, e \in Events :
        At(d, e, "published") => published[e] > 0

\* The lock of a claim that is not overdue is that of its holder.
LockIsHolders ==
    /\ \A d \in Dispatchers : loop[d].now <= clock
    /\ Overdue => late
    /\ ~late => \A d \in Dispatchers, e \in Events :
                   Holds(d, e) => rows[e].lockedAt = loop[d].now

\* What a loop that runs alone has in its batch is pending.
BatchIsPending ==
    \A d \in Dispatchers : \A e \in DOMAIN loop[d].batch :
        rows[e].status = "PENDING"

DispatchInv ==
    /\ TypeOK
    /\ Unwritten /\ CopiesWereDue /\ PublishedIs /\ HonestRows
    /\ LockIsHolders /\ LockExcludes
=============================================================================
