------------------------ MODULE OutboxDispatch_proofs ------------------------
(* Proofs about OutboxDispatch for every set of rows, loops and processes,   *)
(* every batch size, every instant, and any number of failures.              *)
EXTENDS OutboxDispatchProperties, TLAPS

-----------------------------------------------------------------------------
(* What a step does to the loop that takes it, and to the others.           *)

LEMMA BackoffType == ASSUME NEW attempts \in Nat PROVE Backoff(attempts) \in Int
  BY DEF Backoff

\* One loop gets a new record.
LEMMA LoopUpdate ==
  ASSUME LoopsTyped, NEW d \in Dispatchers, NEW l, LoopTyped(l),
         loop' = [loop EXCEPT ![d] = l]
  PROVE  /\ LoopsTyped'
         /\ loop'[d] = l
         /\ \A c \in Dispatchers \ {d} : loop'[c] = loop[c]
  BY DEF LoopsTyped, LoopTyped

LEMMA RestingTyped ==
  ASSUME NEW phase \in LoopPhases
  PROVE  LoopTyped(Resting) /\ LoopTyped(Stopped(phase))
         /\ Resting.phase = "idle" /\ Resting.now = 0
         /\ DOMAIN Resting.batch = {}
         /\ Stopped(phase).phase = phase /\ Stopped(phase).now = 0
         /\ DOMAIN Stopped(phase).batch = {}
  <1>1. DOMAIN NoBatch = {} /\ NoBatch \in [DOMAIN NoBatch -> Copy]
    BY DEF NoBatch
  <1> QED BY <1>1 DEF Resting, Stopped, LoopTyped, LoopPhases

LEMMA AtStartTyped ==
  ASSUME NEW d \in Dispatchers
  PROVE  /\ LoopTyped(AtStart(d))
         /\ AtStart(d).phase \in {"idle", "off"} /\ AtStart(d).now = 0
         /\ DOMAIN AtStart(d).batch = {}
  BY RestingTyped DEF AtStart, LoopPhases

LEMMA EnterStep ==
  ASSUME LoopsTyped, NEW d \in Dispatchers, NEW phase \in LoopPhases,
         Enter(d, phase)
  PROVE  /\ LoopsTyped'
         /\ loop'[d].phase = phase
         /\ loop'[d].now = loop[d].now
         /\ loop'[d].batch = loop[d].batch
         /\ \A c \in Dispatchers \ {d} : loop'[c] = loop[c]
  <1> DEFINE l == [phase |-> phase, now |-> loop[d].now,
                   batch |-> loop[d].batch]
  <1>1. LoopTyped(loop[d])
    BY DEF LoopsTyped
  <1>2. LoopTyped(l)
    BY <1>1 DEF LoopTyped
  <1>3. [loop[d] EXCEPT !.phase = phase] = l
    BY <1>1 DEF LoopTyped
  <1>4. loop' = [loop EXCEPT ![d] = l]
    BY <1>3 DEF Enter
  <1>5. l.phase = phase /\ l.now = loop[d].now /\ l.batch = loop[d].batch
    OBVIOUS
  <1> HIDE DEF l
  <1> QED BY <1>2, <1>4, <1>5, LoopUpdate

LEMMA AdvanceStep ==
  ASSUME LoopsTyped, NEW d \in Dispatchers, NEW e \in Events, Advance(d, e)
  PROVE  /\ LoopsTyped'
         /\ loop'[d].phase \in {"idle", "batch"}
         /\ loop'[d].now \in {0, loop[d].now}
         /\ DOMAIN loop'[d].batch \subseteq DOMAIN loop[d].batch
         /\ \A f \in DOMAIN loop'[d].batch :
               /\ loop'[d].batch[f] = loop[d].batch[f]
               /\ loop'[d].now = loop[d].now
         /\ \A c \in Dispatchers \ {d} : loop'[c] = loop[c]
  <1> DEFINE rest == DOMAIN loop[d].batch \ {e}
             page == [f \in rest |-> loop[d].batch[f]]
             next == [phase |-> "batch", now |-> loop[d].now, batch |-> page]
  <1>1. LoopTyped(loop[d])
    BY DEF LoopsTyped
  <1>2. CASE rest = {}
    <2>1. loop' = [loop EXCEPT ![d] = Resting]
      BY <1>2 DEF Advance
    <2> QED BY <2>1, LoopUpdate, RestingTyped, ZenonT(60) DEF LoopPhases
  <1>3. CASE rest # {}
    <2>1. loop' = [loop EXCEPT ![d] = next]
      BY <1>3 DEF Advance
    <2>2. LoopTyped(next)
      BY <1>1 DEF LoopTyped, LoopPhases
    <2>3. loop'[d] = next /\ LoopsTyped'
          /\ \A c \in Dispatchers \ {d} : loop'[c] = loop[c]
      <3> HIDE DEF next
      <3> QED BY <2>1, <2>2, LoopUpdate
    <2> QED BY <2>3
  <1> QED BY <1>2, <1>3

\* A loop keeps what it has of its batch.
Keeps(d) ==
    /\ DOMAIN loop'[d].batch \subseteq DOMAIN loop[d].batch
    /\ \A f \in DOMAIN loop'[d].batch :
          /\ loop'[d].batch[f] = loop[d].batch[f]
          /\ loop'[d].now = loop[d].now

LEMMA HoldsMeans ==
  ASSUME NEW d \in Dispatchers, NEW e \in Events
  PROVE  Holds(d, e) <=>
            /\ loop[d].phase \in {"claimed", "published", "failed"}
            /\ e \in DOMAIN loop[d].batch
            /\ \A f \in DOMAIN loop[d].batch : e <= f
  BY DEF Holds, At

-----------------------------------------------------------------------------
(* Types.                                                                    *)

LEMMA TypeInit == Init => TypeOK
  <1> SUFFICES ASSUME Init PROVE TypeOK
    OBVIOUS
  <1>1. LoopsTyped
    BY AtStartTyped DEF Init, LoopsTyped
  <1>2. rows \in [Events -> Row]
    BY DEF Init, Row, RowStatuses, NoLock
  <1>3. late \in BOOLEAN
    BY DEF Init
  <1>4. clock \in Instants /\ failures \in 0..MaxFailures
    BY InstantsAssumption, FailuresAssumption DEF Init
  <1> QED BY <1>1, <1>2, <1>3, <1>4 DEF Init, TypeOK

\* The update of one row by a loop, or its attempt to.
LEMMA RowTypeStep ==
  ASSUME TypeOK, NEW d \in Dispatchers, NEW e \in Events, RowStep(d, e)
  PROVE  /\ rows' \in [Events -> Row]
         /\ LoopsTyped'
         /\ opened' \in [Dispatchers -> BOOLEAN]
         /\ failures' \in 0..MaxFailures
         /\ published' \in [Events -> Nat] /\ failed' \in [Events -> Nat]
         /\ UNCHANGED <<clock, channel>>
  <1> USE DEF TypeOK, links, history
  <1>1. LoopTyped(loop[d]) /\ loop[d].now \in Nat
    BY DEF LoopsTyped, LoopTyped
  <1>2. \A kind : Fails(kind) => failures' \in 0..MaxFailures
    BY FailuresAssumption DEF Fails
  <1>3. CASE Claim(d, e)
    <2>1. rows' \in [Events -> Row]
      BY <1>1, <1>3 DEF Claim, Row
    <2> QED BY <1>3, <2>1, EnterStep DEF Claim, LoopPhases
  <1>4. CASE LoseClaim(d, e)
    BY <1>4, AdvanceStep DEF LoseClaim
  <1>5. CASE Publish(d, e)
    BY <1>5, EnterStep DEF Publish, LoopPhases
  <1>6. CASE PublishFails(d, e)
    <2>1. LoopsTyped'
      BY <1>6, EnterStep DEF PublishFails, LoopPhases
    <2>2. failures' \in 0..MaxFailures
      BY <1>6, <1>2 DEF PublishFails
    <2> QED BY <1>6, <2>1, <2>2 DEF PublishFails
  <1>7. CASE MarkSent(d, e)
    <2>1. rows' \in [Events -> Row]
      BY <1>7, ZenonT(60) DEF MarkSent, Row, RowStatuses
    <2> QED BY <1>7, <2>1, AdvanceStep DEF MarkSent
  <1>8. CASE MarkFails(d, e)
    BY <1>8, <1>2, EnterStep DEF MarkFails, LoopPhases
  <1>9. CASE Reschedule(d, e)
    <2> DEFINE attempts == loop[d].batch[e].attempts + 1
               row == [status |-> IF attempts >= DeadAfter THEN "DEAD"
                                                          ELSE "PENDING",
                       attempts |-> attempts,
                       availableAt |-> clock + Backoff(attempts),
                       lockedAt |-> NoLock]
    <2>1. attempts \in Nat
      BY <1>1, <1>9 DEF Reschedule, At, LoopTyped, Copy
    <2>2. row \in Row
      <3>1. clock \in Nat
        BY InstantsAssumption
      <3>2. Backoff(attempts) \in Int
        BY <2>1, BackoffType
      <3> QED BY <2>1, <3>1, <3>2 DEF Row, RowStatuses, NoLock
    <2>3. rows' = [rows EXCEPT ![e] = row]
      BY <1>9 DEF Reschedule
    <2>4. rows' \in [Events -> Row]
      <3> HIDE DEF row
      <3> QED BY <2>2, <2>3
    <2>5. LoopsTyped'
      BY <1>9, AdvanceStep DEF Reschedule
    <2> QED BY <1>9, <2>4, <2>5 DEF Reschedule
  <1> QED BY <1>3, <1>4, <1>5, <1>6, <1>7, <1>8, <1>9 DEF RowStep

LEMMA ReadBatchStep ==
  ASSUME TypeOK, NEW d \in Dispatchers, ReadBatch(d)
  PROVE  /\ LoopsTyped'
         /\ loop'[d].phase = "batch" /\ loop'[d].now = clock
         /\ \A e \in DOMAIN loop'[d].batch :
               /\ e \in Due
               /\ loop'[d].batch[e].attempts = rows[e].attempts
               /\ loop'[d].batch[e].lockedAt = rows[e].lockedAt
         /\ \A c \in Dispatchers \ {d} : loop'[c] = loop[c]
  <1> DEFINE page == {e \in Due : Cardinality({f \in Due : f < e}) < BatchSize}
             copies == [e \in page |-> [attempts |-> rows[e].attempts,
                                        lockedAt |-> rows[e].lockedAt]]
             next == [phase |-> "batch", now |-> clock, batch |-> copies]
  <1>1. page \subseteq Due /\ Due \subseteq Events
    BY DEF Due
  <1>2. loop' = [loop EXCEPT ![d] = next]
    BY DEF ReadBatch
  <1> HIDE DEF page
  <1>3. LoopTyped(next)
    <2>1. copies \in [page -> Copy]
      BY <1>1 DEF TypeOK, Row, Copy
    <2>2. clock \in Nat
      BY InstantsAssumption DEF TypeOK
    <2> QED BY <1>1, <2>1, <2>2 DEF LoopTyped, LoopPhases
  <1>4. loop'[d] = next /\ LoopsTyped'
        /\ \A c \in Dispatchers \ {d} : loop'[c] = loop[c]
    <2> HIDE DEF next
    <2> QED BY <1>2, <1>3, LoopUpdate DEF TypeOK
  <1> QED BY <1>1, <1>4

LEMMA TypeStep ==
  ASSUME TypeOK, [Next]_vars
  PROVE  TypeOK'
  <1> USE DEF TypeOK, links, history
  <1>0. \A kind : Fails(kind) => failures' \in 0..MaxFailures
    BY FailuresAssumption DEF Fails
  <1>1. \A d \in Dispatchers : LoopTyped(loop[d])
    BY DEF LoopsTyped
  <1>2. Watch => late' \in BOOLEAN
    BY DEF Watch
  <1>3. ASSUME NEW e \in Events, Create(e), Watch PROVE TypeOK'
    <2>1. rows' \in [Events -> Row]
      <3>1. clock \in Int
        BY InstantsAssumption
      <3> QED BY <1>3, <3>1, ZenonT(60) DEF Create, Row, RowStatuses
    <2>2. LoopsTyped'
      BY <1>3 DEF Create, LoopsTyped
    <2> QED BY <1>2, <1>3, <2>1, <2>2 DEF Create
  <1>4. ASSUME NEW d \in Dispatchers, ReadBatch(d), Watch PROVE TypeOK'
    <2>1. LoopsTyped'
      BY <1>4, ReadBatchStep
    <2> QED BY <1>2, <1>4, <2>1 DEF ReadBatch
  <1>5. ASSUME NEW d \in Dispatchers, NEW e \in Events, RowStep(d, e), Watch
        PROVE  TypeOK'
    BY <1>2, <1>5, RowTypeStep
  <1>6. ASSUME NEW d \in Dispatchers, LoopDies(d), Watch PROVE TypeOK'
    <2>1. LoopsTyped'
      BY <1>6, RestingTyped, LoopUpdate DEF LoopDies, LoopPhases
    <2> QED BY <1>0, <1>2, <1>6, <2>1 DEF LoopDies
  <1>7. ASSUME NEW d \in Dispatchers, HalfOpen(d), Watch PROVE TypeOK'
    <2>1. LoopsTyped'
      BY <1>7 DEF HalfOpen, LoopsTyped
    <2>2. opened' \in [Dispatchers -> BOOLEAN]
      BY <1>7 DEF HalfOpen
    <2> QED BY <1>2, <1>7, <2>1, <2>2 DEF HalfOpen
  <1>8. ASSUME NEW d \in Dispatchers, Crash(WorkerOf[d]), Watch PROVE TypeOK'
    <2>1. LoopsTyped'
      BY <1>1, <1>8, AtStartTyped DEF Crash, LoopsTyped
    <2>2. channel' \in [Dispatchers -> BOOLEAN]
      BY <1>8 DEF Crash
    <2>3. opened' \in [Dispatchers -> BOOLEAN]
      BY <1>8 DEF Crash
    <2> QED BY <1>0, <1>2, <1>8, <2>1, <2>2, <2>3 DEF Crash
  <1>9. ASSUME NEW d \in Dispatchers, NEW next \in Dispatchers,
               Reconnect(d, next), Watch
        PROVE  TypeOK'
    <2>1. LoopsTyped'
      BY <1>9, RestingTyped, LoopUpdate DEF Reconnect, LoopPhases
    <2>2. channel' \in [Dispatchers -> BOOLEAN]
      BY <1>9 DEF Reconnect
    <2> QED BY <1>0, <1>2, <1>9, <2>1, <2>2 DEF Reconnect
  <1>10. ASSUME Tick, Watch PROVE TypeOK'
    <2>1. LoopsTyped'
      BY <1>10 DEF Tick, LoopsTyped
    <2>2. clock' \in Instants
      BY <1>10 DEF Tick
    <2> QED BY <1>2, <1>10, <2>1, <2>2 DEF Tick
  <1>11. CASE UNCHANGED vars
    BY <1>11 DEF vars, LoopsTyped
  <1> QED
    BY <1>3, <1>4, <1>5, <1>6, <1>7, <1>8, <1>9, <1>10, <1>11
       DEF Next, DispatchStep

\* Rows, loops and histories are well typed for every instance.
THEOREM TypeCorrect == Spec => []TypeOK
  <1> QED BY TypeInit, TypeStep, PTL DEF Spec

-----------------------------------------------------------------------------
(* Rows tell what happened to them.                                          *)

HonestInv == Unwritten /\ CopiesWereDue /\ PublishedIs /\ HonestRows

LEMMA HonestInit == Init => HonestInv
  <1> SUFFICES ASSUME Init PROVE HonestInv
    OBVIOUS
  <1>1. \A d \in Dispatchers : DOMAIN loop[d].batch = {}
                               /\ loop[d].phase \in {"idle", "off"}
    BY AtStartTyped DEF Init
  <1>2. CopiesWereDue
    BY <1>1 DEF CopiesWereDue
  <1>3. PublishedIs
    BY <1>1 DEF PublishedIs, At
  <1>4. Unwritten /\ HonestRows
    BY DEF Init, Unwritten, HonestRows, DeadAfter
  <1> QED BY <1>2, <1>3, <1>4 DEF HonestInv

\* Copies that no step renews stay true as failures are only counted up.
LEMMA CopiesKept ==
  ASSUME TypeOK, TypeOK', CopiesWereDue, \A d \in Dispatchers : Keeps(d),
         \A e \in Events : failed'[e] >= failed[e]
  PROVE  CopiesWereDue'
  <1> SUFFICES ASSUME NEW d \in Dispatchers, NEW e \in DOMAIN loop'[d].batch
               PROVE  LET copy == loop'[d].batch[e] IN
                      /\ copy.attempts < DeadAfter
                      /\ copy.attempts <= failed'[e]
                      /\ copy.lockedAt = NoLock
                         \/ copy.lockedAt < loop'[d].now - StaleAfter
    BY DEF CopiesWereDue
  <1>1. /\ e \in DOMAIN loop[d].batch
        /\ loop'[d].batch[e] = loop[d].batch[e]
        /\ loop'[d].now = loop[d].now
    BY DEF Keeps
  <1>2. e \in Events /\ loop[d].batch[e].attempts \in Nat
    BY <1>1 DEF TypeOK, LoopsTyped, LoopTyped, Copy
  <1>3. failed[e] \in Nat /\ failed'[e] \in Nat
    BY <1>2 DEF TypeOK
  <1> QED BY <1>1, <1>2, <1>3 DEF CopiesWereDue

\* No loop comes to the phase after the publish but by publishing.
LEMMA PublishedKept ==
  ASSUME TypeOK, TypeOK', PublishedIs,
         \A d \in Dispatchers : loop'[d].phase = "published" =>
             loop'[d].phase = loop[d].phase /\ loop'[d].batch = loop[d].batch,
         \A e \in Events : published'[e] >= published[e]
  PROVE  PublishedIs'
  <1> SUFFICES ASSUME NEW d \in Dispatchers, NEW e \in Events,
                      At(d, e, "published")'
               PROVE  published'[e] > 0
    BY DEF PublishedIs
  <1>1. At(d, e, "published")
    BY DEF At
  <1>2. published[e] > 0 /\ published[e] \in Nat /\ published'[e] \in Nat
    BY <1>1 DEF PublishedIs, TypeOK
  <1> QED BY <1>2

\* The loop is at the row of its own copy.
LEMMA CopyAt ==
  ASSUME TypeOK, CopiesWereDue, NEW d \in Dispatchers, NEW e \in Events,
         NEW phase, At(d, e, phase)
  PROVE  /\ loop[d].batch[e].attempts \in Nat
         /\ loop[d].batch[e].attempts < DeadAfter
         /\ loop[d].batch[e].attempts <= failed[e]
  <1>1. e \in DOMAIN loop[d].batch /\ loop[d].batch[e] \in Copy
    BY DEF At, TypeOK, LoopsTyped, LoopTyped
  <1> QED BY <1>1 DEF CopiesWereDue, Copy

LEMMA RowHonestStep ==
  ASSUME TypeOK, TypeOK', HonestInv,
         NEW d \in Dispatchers, NEW e \in Events, RowStep(d, e)
  PROVE  HonestInv'
  <1> USE DEF HonestInv, history
  <1>1. /\ \A f \in Events : published[f] \in Nat /\ failed[f] \in Nat
        /\ LoopsTyped
    BY DEF TypeOK
  <1>2. CASE Claim(d, e)
    <2>1. \A f \in Events : /\ rows'[f].status = rows[f].status
                            /\ rows'[f].attempts = rows[f].attempts
      BY <1>2 DEF Claim, TypeOK, Row
    <2>2. UNCHANGED <<published, failed>>
      BY <1>2 DEF Claim
    <2>3. (\A c \in Dispatchers : Keeps(c)) /\ loop'[d].phase = "claimed"
          /\ \A c \in Dispatchers \ {d} : loop'[c] = loop[c]
      BY <1>1, <1>2, EnterStep DEF Claim, LoopPhases, Keeps
    <2>4. CopiesWereDue' /\ PublishedIs'
      BY <1>1, <2>2, <2>3, CopiesKept, PublishedKept
    <2> QED BY <2>1, <2>2, <2>4 DEF Unwritten, HonestRows
  <1>3. CASE LoseClaim(d, e)
    <2>1. UNCHANGED <<rows, published, failed>>
      BY <1>3 DEF LoseClaim
    <2>2. (\A c \in Dispatchers : Keeps(c)) /\ loop'[d].phase # "published"
          /\ \A c \in Dispatchers \ {d} : loop'[c] = loop[c]
      BY <1>1, <1>3, AdvanceStep DEF LoseClaim, Keeps
    <2>3. CopiesWereDue' /\ PublishedIs'
      BY <1>1, <2>1, <2>2, CopiesKept, PublishedKept
    <2> QED BY <2>1, <2>3 DEF Unwritten, HonestRows
  <1>4. CASE Publish(d, e)
    <2>1. UNCHANGED <<rows, failed>>
          /\ published' = [published EXCEPT ![e] = @ + 1]
      BY <1>4 DEF Publish
    <2>2. /\ \A c \in Dispatchers : Keeps(c)
          /\ loop'[d].batch = loop[d].batch
          /\ \A c \in Dispatchers \ {d} : loop'[c] = loop[c]
      BY <1>1, <1>4, EnterStep DEF Publish, LoopPhases, Keeps
    <2>3. CopiesWereDue'
      BY <1>1, <2>1, <2>2, CopiesKept
    <2>4. published'[e] > 0
          /\ \A f \in Events : published[f] > 0 => published'[f] > 0
      BY <1>1, <2>1 DEF TypeOK
    <2>5. PublishedIs'
      <3> SUFFICES ASSUME NEW c \in Dispatchers, NEW f \in Events,
                          At(c, f, "published")'
                   PROVE  published'[f] > 0
        BY DEF PublishedIs
      <3>1. CASE c # d
        BY <2>2, <2>4, <3>1 DEF At, PublishedIs
      <3>2. CASE c = d
        <4>1. e \in DOMAIN loop[d].batch /\ f \in DOMAIN loop[d].batch
              /\ f <= e /\ e <= f
          BY <1>4, <2>2, <3>2 DEF At, Publish
        <4>2. e = f
          BY <4>1, EventsAssumption
        <4> QED BY <2>4, <4>2
      <3> QED BY <3>1, <3>2
    <2> QED BY <2>1, <2>3, <2>4, <2>5 DEF Unwritten, HonestRows
  <1>5. CASE PublishFails(d, e)
    <2>1. UNCHANGED <<rows, published, failed>>
      BY <1>5 DEF PublishFails
    <2>2. (\A c \in Dispatchers : Keeps(c)) /\ loop'[d].phase = "failed"
          /\ \A c \in Dispatchers \ {d} : loop'[c] = loop[c]
      BY <1>1, <1>5, EnterStep DEF PublishFails, LoopPhases, Keeps
    <2>3. CopiesWereDue' /\ PublishedIs'
      BY <1>1, <2>1, <2>2, CopiesKept, PublishedKept
    <2> QED BY <2>1, <2>3 DEF Unwritten, HonestRows
  <1>6. CASE MarkSent(d, e)
    <2>1. /\ \A f \in Events \ {e} : rows'[f] = rows[f]
          /\ rows'[e].status = "SENT" /\ rows'[e].attempts = rows[e].attempts
      BY <1>6 DEF MarkSent, TypeOK, Row
    <2>2. UNCHANGED <<published, failed>> /\ published[e] > 0
      BY <1>6 DEF MarkSent, PublishedIs
    <2>3. (\A c \in Dispatchers : Keeps(c)) /\ loop'[d].phase # "published"
          /\ \A c \in Dispatchers \ {d} : loop'[c] = loop[c]
      BY <1>1, <1>6, AdvanceStep DEF MarkSent, Keeps
    <2>4. CopiesWereDue' /\ PublishedIs'
      BY <1>1, <2>2, <2>3, CopiesKept, PublishedKept
    <2> QED BY <2>1, <2>2, <2>4 DEF Unwritten, HonestRows
  <1>7. CASE MarkFails(d, e)
    <2>1. UNCHANGED <<rows, published, failed>>
      BY <1>7 DEF MarkFails
    <2>2. (\A c \in Dispatchers : Keeps(c)) /\ loop'[d].phase = "failed"
          /\ \A c \in Dispatchers \ {d} : loop'[c] = loop[c]
      BY <1>1, <1>7, EnterStep DEF MarkFails, LoopPhases, Keeps
    <2>3. CopiesWereDue' /\ PublishedIs'
      BY <1>1, <2>1, <2>2, CopiesKept, PublishedKept
    <2> QED BY <2>1, <2>3 DEF Unwritten, HonestRows
  <1>8. CASE Reschedule(d, e)
    <2> DEFINE attempts == loop[d].batch[e].attempts + 1
    <2>1. attempts \in Nat /\ attempts <= DeadAfter /\ attempts <= failed[e] + 1
      BY <1>1, <1>8, CopyAt DEF Reschedule, DeadAfter
    <2>2. /\ \A f \in Events \ {e} : rows'[f] = rows[f]
          /\ rows'[e].attempts = attempts
          /\ rows'[e].status = IF attempts >= DeadAfter THEN "DEAD"
                                                        ELSE "PENDING"
      BY <1>8 DEF Reschedule, TypeOK, Row
    <2>3. UNCHANGED published /\ failed' = [failed EXCEPT ![e] = @ + 1]
      BY <1>8 DEF Reschedule
    <2>4. (\A c \in Dispatchers : Keeps(c)) /\ loop'[d].phase # "published"
          /\ \A c \in Dispatchers \ {d} : loop'[c] = loop[c]
      BY <1>1, <1>8, AdvanceStep DEF Reschedule, Keeps
    <2>5. \A f \in Events : failed'[f] >= failed[f]
      BY <1>1, <2>3 DEF TypeOK
    <2>6. CopiesWereDue' /\ PublishedIs'
      BY <1>1, <2>3, <2>4, <2>5, CopiesKept, PublishedKept
    <2>7. failed'[e] = failed[e] + 1
          /\ \A f \in Events \ {e} : failed'[f] = failed[f]
      BY <1>1, <2>3 DEF TypeOK
    <2>8. Unwritten' /\ HonestRows'
      <3> HIDE DEF attempts
      <3> QED BY <2>1, <2>2, <2>3, <2>7 DEF Unwritten, HonestRows, DeadAfter
    <2> QED BY <2>6, <2>8
  <1> QED
    BY <1>2, <1>3, <1>4, <1>5, <1>6, <1>7, <1>8 DEF RowStep

LEMMA HonestStep ==
  ASSUME TypeOK, TypeOK', HonestInv, [Next]_vars
  PROVE  HonestInv'
  <1> USE DEF HonestInv, history
  <1>1. /\ \A f \in Events : published[f] \in Nat /\ failed[f] \in Nat
        /\ LoopsTyped
    BY DEF TypeOK
  \* A step that leaves rows and histories alone and only lets go of batches.
  <1>2. ASSUME UNCHANGED <<rows, published, failed>>,
               \A d \in Dispatchers : Keeps(d),
               \A d \in Dispatchers : loop'[d].phase = "published" =>
                   loop'[d].phase = loop[d].phase
                   /\ loop'[d].batch = loop[d].batch
        PROVE  HonestInv'
    <2>1. CopiesWereDue' /\ PublishedIs'
      BY <1>1, <1>2, CopiesKept, PublishedKept
    <2> QED BY <1>2, <2>1 DEF Unwritten, HonestRows
  <1>3. ASSUME NEW e \in Events, Create(e) PROVE HonestInv'
    <2>1. UNCHANGED <<loop, published, failed>>
      BY <1>3 DEF Create
    <2>2. CopiesWereDue' /\ PublishedIs'
      BY <1>1, <2>1, CopiesKept, PublishedKept DEF Keeps
    <2>3. /\ \A f \in Events \ {e} : rows'[f] = rows[f]
          /\ rows'[e].status = "PENDING" /\ rows'[e].attempts = 0
      BY <1>3 DEF Create, TypeOK, Row, Unwritten
    <2> QED BY <1>1, <2>1, <2>2, <2>3 DEF Unwritten, HonestRows, DeadAfter
  <1>4. ASSUME NEW d \in Dispatchers, ReadBatch(d) PROVE HonestInv'
    <2>1. UNCHANGED <<rows, published, failed>>
      BY <1>4 DEF ReadBatch
    <2>2. CopiesWereDue'
      <3> SUFFICES ASSUME NEW c \in Dispatchers, NEW e \in DOMAIN loop'[c].batch
                   PROVE  LET copy == loop'[c].batch[e] IN
                          /\ copy.attempts < DeadAfter
                          /\ copy.attempts <= failed'[e]
                          /\ copy.lockedAt = NoLock
                             \/ copy.lockedAt < loop'[c].now - StaleAfter
        BY DEF CopiesWereDue
      <3>1. CASE c = d
        <4>1. /\ e \in Due
              /\ loop'[c].batch[e].attempts = rows[e].attempts
              /\ loop'[c].batch[e].lockedAt = rows[e].lockedAt
              /\ loop'[c].now = clock
          BY <1>4, <3>1, ReadBatchStep
        <4> QED BY <2>1, <4>1 DEF Due, HonestRows
      <3>2. CASE c # d
        BY <1>4, <2>1, <3>2, ReadBatchStep DEF CopiesWereDue
      <3> QED BY <3>1, <3>2
    <2>3. PublishedIs'
      BY <1>1, <1>4, <2>1, ReadBatchStep, PublishedKept
    <2> QED BY <2>1, <2>2, <2>3 DEF Unwritten, HonestRows
  <1>5. ASSUME NEW d \in Dispatchers, NEW e \in Events, RowStep(d, e)
        PROVE  HonestInv'
    BY <1>5, RowHonestStep
  <1>6. ASSUME NEW d \in Dispatchers, LoopDies(d) PROVE HonestInv'
    <2>1. UNCHANGED <<rows, published, failed>>
      BY <1>6 DEF LoopDies
    <2>2. /\ DOMAIN loop'[d].batch = {} /\ loop'[d].phase = "stopped"
          /\ \A c \in Dispatchers \ {d} : loop'[c] = loop[c]
      BY <1>1, <1>6, RestingTyped, LoopUpdate DEF LoopDies, LoopPhases
    <2> QED BY <1>2, <2>1, <2>2 DEF Keeps
  <1>7. ASSUME NEW d \in Dispatchers, HalfOpen(d) PROVE HonestInv'
    BY <1>2, <1>7 DEF HalfOpen, Keeps
  <1>8. ASSUME NEW d \in Dispatchers, Crash(WorkerOf[d]) PROVE HonestInv'
    <2>1. UNCHANGED <<rows, published, failed>>
      BY <1>8 DEF Crash
    <2>2. \A c \in Dispatchers : \/ loop'[c] = loop[c]
                                 \/ loop'[c] = AtStart(c)
      BY <1>8 DEF Crash
    <2> QED BY <1>2, <2>1, <2>2, AtStartTyped DEF Keeps
  <1>9. ASSUME NEW d \in Dispatchers, NEW next \in Dispatchers,
               Reconnect(d, next)
        PROVE  HonestInv'
    <2>1. UNCHANGED <<rows, published, failed>>
      BY <1>9 DEF Reconnect
    <2>2. /\ DOMAIN loop'[next].batch = {} /\ loop'[next].phase = "idle"
          /\ \A c \in Dispatchers \ {next} : loop'[c] = loop[c]
      BY <1>1, <1>9, RestingTyped, LoopUpdate, ZenonT(60) DEF Reconnect, LoopPhases
    <2> QED BY <1>2, <2>1, <2>2 DEF Keeps
  <1>10. ASSUME Tick PROVE HonestInv'
    BY <1>2, <1>10 DEF Tick, Keeps
  <1>11. CASE UNCHANGED vars
    BY <1>2, <1>11 DEF vars, Keeps
  <1> QED
    BY <1>3, <1>4, <1>5, <1>6, <1>7, <1>8, <1>9, <1>10, <1>11
       DEF Next, DispatchStep

\* For every number of rows, loops, processes and failures, and every batch
\* size: SENT only after the broker accepted the event, attempts no more than
\* failures, PENDING with attempts left, DEAD with all of them used.
THEOREM RowsAreHonest == Spec => []HonestRows
  <1>1. Init => TypeOK /\ HonestInv
    BY TypeInit, HonestInit
  <1>2. TypeOK /\ HonestInv /\ [Next]_vars => TypeOK' /\ HonestInv'
    BY TypeStep, HonestStep
  <1>3. HonestInv => HonestRows
    BY DEF HonestInv
  <1> QED BY <1>1, <1>2, <1>3, PTL DEF Spec

-----------------------------------------------------------------------------
(* The lock.                                                                 *)

LockInv == CopiesWereDue /\ LockIsHolders /\ LockExcludes

LEMMA LockInit == Init => LockIsHolders /\ LockExcludes
  <1> SUFFICES ASSUME Init PROVE LockIsHolders /\ LockExcludes
    OBVIOUS
  <1>1. \A d \in Dispatchers : loop[d].phase \in {"idle", "off"}
                               /\ loop[d].now = 0
    BY AtStartTyped DEF Init
  <1>2. \A d \in Dispatchers, e \in Events : ~Holds(d, e)
    BY <1>1, HoldsMeans
  <1>3. clock = 0
    BY DEF Init
  <1> QED BY <1>1, <1>2, <1>3 DEF LockIsHolders, LockExcludes, Overdue

\* A step that makes no holder, and leaves the locks of those that remain.
LEMMA LockKept ==
  ASSUME TypeOK, LockIsHolders, LockExcludes, Watch,
         \A d \in Dispatchers : loop'[d].now <= clock',
         \A d \in Dispatchers, e \in Events : Holds(d, e)' =>
            /\ Holds(d, e)
            /\ loop'[d].now = loop[d].now
            /\ ~late => rows'[e].lockedAt = rows[e].lockedAt
  PROVE  LockIsHolders' /\ LockExcludes'
  <1>1. (Overdue' => late') /\ (~late' => ~late)
    BY DEF Watch
  <1>2. LockIsHolders'
    BY <1>1 DEF LockIsHolders
  <1>3. LockExcludes'
    BY <1>1 DEF LockExcludes
  <1> QED BY <1>2, <1>3

\* A claim succeeds on a free row only, unless somebody is late.
LEMMA ClaimFree ==
  ASSUME TypeOK, LockInv, ~late,
         NEW d \in Dispatchers, NEW e \in Events, Claim(d, e),
         NEW c \in Dispatchers
  PROVE  ~Holds(c, e)
  <1> SUFFICES ASSUME Holds(c, e) PROVE FALSE
    OBVIOUS
  <1>1. rows[e].lockedAt = loop[c].now
    BY DEF LockInv, LockIsHolders
  <1>2. loop[c].now \in Nat /\ loop[d].now \in Nat /\ loop[d].now <= clock
        /\ clock \in Nat
    BY InstantsAssumption
       DEF TypeOK, LoopsTyped, LoopTyped, LockInv, LockIsHolders
  <1>3. rows[e].lockedAt < loop[d].now - StaleAfter
    <2>1. e \in DOMAIN loop[d].batch
          /\ rows[e].lockedAt = loop[d].batch[e].lockedAt
      BY DEF Claim, At
    <2>2. rows[e].lockedAt = NoLock
          \/ rows[e].lockedAt < loop[d].now - StaleAfter
      BY <2>1 DEF LockInv, CopiesWereDue
    <2>3. rows[e].lockedAt # NoLock
      BY <1>1, <1>2 DEF NoLock
    <2> QED BY <2>2, <2>3
  <1>4. Overdue
    BY <1>1, <1>2, <1>3 DEF Overdue, StaleAfter
  <1> QED BY <1>4 DEF LockInv, LockIsHolders

LEMMA ClaimLockStep ==
  ASSUME TypeOK, LockInv, Watch,
         NEW d \in Dispatchers, NEW e \in Events, Claim(d, e)
  PROVE  LockIsHolders' /\ LockExcludes'
  <1>1. /\ loop'[d].phase = "claimed" /\ loop'[d].now = loop[d].now
        /\ loop'[d].batch = loop[d].batch
        /\ \A c \in Dispatchers \ {d} : loop'[c] = loop[c]
    BY EnterStep DEF Claim, LoopPhases, TypeOK
  <1>2. /\ rows'[e].lockedAt = loop[d].now
        /\ \A f \in Events \ {e} : rows'[f] = rows[f]
    BY DEF Claim, TypeOK, Row
  <1>3. UNCHANGED clock /\ (Overdue' => late') /\ (~late' => ~late)
    BY DEF Claim, Watch
  <1>4. \A f \in Events : Holds(d, f)' => f = e
    <2> SUFFICES ASSUME NEW f \in Events, Holds(d, f)' PROVE f = e
      OBVIOUS
    <2>1. f \in DOMAIN loop[d].batch /\ \A g \in DOMAIN loop[d].batch : f <= g
      BY <1>1 DEF Holds, At
    <2>2. e \in DOMAIN loop[d].batch /\ \A g \in DOMAIN loop[d].batch : e <= g
      BY DEF Claim, At
    <2> QED BY <2>1, <2>2, EventsAssumption
  <1>5. \A c \in Dispatchers \ {d}, f \in Events : Holds(c, f)' => Holds(c, f)
    BY <1>1 DEF Holds, At
  <1>6. ~late => \A c \in Dispatchers : ~Holds(c, e)
    BY ClaimFree
  <1>7. LockIsHolders'
    BY <1>1, <1>2, <1>3, <1>4, <1>5, <1>6 DEF LockIsHolders, LockInv
  <1>8. LockExcludes'
    BY <1>3, <1>4, <1>5, <1>6 DEF LockExcludes, LockInv
  <1> QED BY <1>7, <1>8

LEMMA RowLockStep ==
  ASSUME TypeOK, LockInv, Watch,
         NEW d \in Dispatchers, NEW e \in Events, RowStep(d, e)
  PROVE  LockIsHolders' /\ LockExcludes'
  <1>1. /\ LoopsTyped /\ LockIsHolders /\ LockExcludes
        /\ \A c \in Dispatchers : loop[c].now \in Nat /\ loop[c].now <= clock
        /\ clock \in Nat
    BY InstantsAssumption DEF TypeOK, LoopsTyped, LoopTyped, LockInv, LockIsHolders
  \* A step on a row the loop already holds, or does not come to hold.
  <1>2. ASSUME UNCHANGED clock, loop'[d].now \in {0, loop[d].now},
               \A c \in Dispatchers \ {d} : loop'[c] = loop[c],
               \A f \in Events : Holds(d, f)' =>
                   Holds(d, f) /\ loop'[d].now = loop[d].now
                   /\ rows'[f].lockedAt = rows[f].lockedAt,
               \A c \in Dispatchers \ {d}, f \in Events :
                   Holds(c, f) /\ ~late => rows'[f].lockedAt = rows[f].lockedAt
        PROVE  LockIsHolders' /\ LockExcludes'
    <2>1. \A c \in Dispatchers \ {d}, f \in Events : Holds(c, f)' => Holds(c, f)
      BY <1>2 DEF Holds, At
    <2>2. \A c \in Dispatchers : loop'[c].now <= clock'
      BY <1>1, <1>2
    <2>3. \A c \in Dispatchers, f \in Events : Holds(c, f)' =>
             /\ Holds(c, f)
             /\ loop'[c].now = loop[c].now
             /\ ~late => rows'[f].lockedAt = rows[f].lockedAt
      BY <1>2, <2>1
    <2> QED BY <1>1, <2>2, <2>3, LockKept
  \* The loop lets go of the row, and nobody else held it.
  <1>3. ASSUME Holds(d, e), Advance(d, e), UNCHANGED clock,
               \A f \in Events \ {e} : rows'[f] = rows[f]
        PROVE  LockIsHolders' /\ LockExcludes'
    <2>1. /\ loop'[d].phase \in {"idle", "batch"}
          /\ loop'[d].now \in {0, loop[d].now}
          /\ \A c \in Dispatchers \ {d} : loop'[c] = loop[c]
      BY <1>1, <1>3, AdvanceStep
    <2>2. \A f \in Events : ~Holds(d, f)'
      BY <2>1 DEF Holds, At
    <2>3. \A c \in Dispatchers \ {d}, f \in Events :
             Holds(c, f) /\ ~late => f # e
      BY <1>1, <1>3 DEF LockExcludes
    <2> QED BY <1>2, <1>3, <2>1, <2>2, <2>3
  \* The loop stays at the row it holds.
  <1>4. ASSUME NEW phase \in {"published", "failed"}, Holds(d, e),
               Enter(d, phase), UNCHANGED <<rows, clock>>
        PROVE  LockIsHolders' /\ LockExcludes'
    <2>1. /\ loop'[d].phase = phase /\ loop'[d].now = loop[d].now
          /\ loop'[d].batch = loop[d].batch
          /\ \A c \in Dispatchers \ {d} : loop'[c] = loop[c]
      BY <1>1, <1>4, EnterStep DEF LoopPhases
    <2>2. loop[d].phase \in {"claimed", "published", "failed"}
      BY <1>4, HoldsMeans
    <2>3. \A f \in Events : Holds(d, f)' => Holds(d, f)
      BY <2>1, <2>2, HoldsMeans DEF Holds, At
    <2> QED BY <1>2, <1>4, <2>1, <2>3
  <1>5. CASE Claim(d, e)
    BY <1>5, ClaimLockStep
  <1>6. CASE LoseClaim(d, e)
    <2>1. /\ loop'[d].phase \in {"idle", "batch"}
          /\ loop'[d].now \in {0, loop[d].now}
          /\ \A c \in Dispatchers \ {d} : loop'[c] = loop[c]
      BY <1>1, <1>6, AdvanceStep DEF LoseClaim
    <2>2. \A f \in Events : ~Holds(d, f)'
      BY <2>1 DEF Holds, At
    <2> QED BY <1>2, <1>6, <2>1, <2>2 DEF LoseClaim
  <1>7. CASE Publish(d, e)
    <2>1. Holds(d, e)
      BY <1>7 DEF Publish, Holds
    <2> QED BY <1>4, <1>7, <2>1 DEF Publish
  <1>8. CASE PublishFails(d, e)
    <2>1. Holds(d, e)
      BY <1>8 DEF PublishFails, Holds
    <2> QED BY <1>4, <1>8, <2>1 DEF PublishFails
  <1>9. CASE MarkSent(d, e)
    <2>1. Holds(d, e)
      BY <1>9 DEF MarkSent, Holds
    <2>2. \A f \in Events \ {e} : rows'[f] = rows[f]
      BY <1>9 DEF MarkSent, TypeOK
    <2> QED BY <1>3, <1>9, <2>1, <2>2 DEF MarkSent
  <1>10. CASE MarkFails(d, e)
    <2>1. Holds(d, e)
      BY <1>10 DEF MarkFails, Holds
    <2> QED BY <1>4, <1>10, <2>1 DEF MarkFails
  <1>11. CASE Reschedule(d, e)
    <2>1. Holds(d, e)
      BY <1>11 DEF Reschedule, Holds
    <2>2. \A f \in Events \ {e} : rows'[f] = rows[f]
      BY <1>11 DEF Reschedule, TypeOK
    <2> QED BY <1>3, <1>11, <2>1, <2>2 DEF Reschedule
  <1> QED
    BY <1>5, <1>6, <1>7, <1>8, <1>9, <1>10, <1>11 DEF RowStep

LEMMA LockStep ==
  ASSUME TypeOK, LockInv, [Next]_vars
  PROVE  LockIsHolders' /\ LockExcludes'
  <1>1. /\ LoopsTyped /\ LockIsHolders /\ LockExcludes
        /\ \A d \in Dispatchers : loop[d].now \in Nat /\ loop[d].now <= clock
        /\ clock \in Nat
    BY InstantsAssumption DEF TypeOK, LoopsTyped, LoopTyped, LockInv, LockIsHolders
  \* A step in which the loops that change hold nothing.
  <1>2. ASSUME Watch, clock' \in Nat, clock' >= clock,
               \A e \in Events : rows'[e].lockedAt = rows[e].lockedAt,
               \A d \in Dispatchers :
                   \/ loop'[d] = loop[d]
                   \/ /\ loop'[d].phase \in {"idle", "batch", "off", "stopped"}
                      /\ loop'[d].now <= clock'
        PROVE  LockIsHolders' /\ LockExcludes'
    <2>1. \A d \in Dispatchers : loop'[d].now <= clock'
      BY <1>1, <1>2
    <2>2. \A d \in Dispatchers, e \in Events :
             Holds(d, e)' => loop'[d] = loop[d] /\ Holds(d, e)
      BY <1>2 DEF Holds, At
    <2> QED BY <1>1, <1>2, <2>1, <2>2, LockKept
  <1>3. ASSUME NEW e \in Events, Create(e), Watch
        PROVE  LockIsHolders' /\ LockExcludes'
    <2>1. \A f \in Events : rows'[f].lockedAt = rows[f].lockedAt
      BY <1>3 DEF Create, TypeOK, Row
    <2>2. UNCHANGED <<loop, clock>>
      BY <1>3 DEF Create
    <2> QED BY <1>1, <1>2, <1>3, <2>1, <2>2
  <1>4. ASSUME NEW d \in Dispatchers, ReadBatch(d), Watch
        PROVE  LockIsHolders' /\ LockExcludes'
    <2>1. /\ loop'[d].phase = "batch" /\ loop'[d].now = clock
          /\ \A c \in Dispatchers \ {d} : loop'[c] = loop[c]
      BY <1>4, ReadBatchStep
    <2>2. UNCHANGED <<rows, clock>>
      BY <1>4 DEF ReadBatch
    <2> QED BY <1>1, <1>2, <1>4, <2>1, <2>2
  <1>5. ASSUME NEW d \in Dispatchers, NEW e \in Events, RowStep(d, e), Watch
        PROVE  LockIsHolders' /\ LockExcludes'
    BY <1>5, RowLockStep
  <1>6. ASSUME NEW d \in Dispatchers, LoopDies(d), Watch
        PROVE  LockIsHolders' /\ LockExcludes'
    <2>1. /\ loop'[d].phase = "stopped" /\ loop'[d].now = 0
          /\ \A c \in Dispatchers \ {d} : loop'[c] = loop[c]
      BY <1>1, <1>6, RestingTyped, LoopUpdate DEF LoopDies, LoopPhases
    <2> QED BY <1>1, <1>2, <1>6, <2>1 DEF LoopDies
  <1>7. ASSUME NEW d \in Dispatchers, HalfOpen(d), Watch
        PROVE  LockIsHolders' /\ LockExcludes'
    BY <1>1, <1>2, <1>7 DEF HalfOpen
  <1>8. ASSUME NEW d \in Dispatchers, Crash(WorkerOf[d]), Watch
        PROVE  LockIsHolders' /\ LockExcludes'
    <2>1. \A c \in Dispatchers : loop'[c] = loop[c] \/ loop'[c] = AtStart(c)
      BY <1>8 DEF Crash
    <2> QED BY <1>1, <1>2, <1>8, <2>1, AtStartTyped DEF Crash
  <1>9. ASSUME NEW d \in Dispatchers, NEW next \in Dispatchers,
               Reconnect(d, next), Watch
        PROVE  LockIsHolders' /\ LockExcludes'
    <2>1. /\ loop'[next].phase = "idle" /\ loop'[next].now = 0
          /\ \A c \in Dispatchers \ {next} : loop'[c] = loop[c]
      <3>1. LoopTyped(Resting) /\ Resting.phase = "idle" /\ Resting.now = 0
        BY RestingTyped DEF LoopPhases
      <3>2. loop' = [loop EXCEPT ![next] = Resting]
        BY <1>9 DEF Reconnect
      <3> QED BY <1>1, <3>1, <3>2, LoopUpdate
    <2> QED BY <1>1, <1>2, <1>9, <2>1 DEF Reconnect
  <1>10. ASSUME Tick, Watch PROVE LockIsHolders' /\ LockExcludes'
    <2>1. clock' \in Nat /\ clock' > clock
      BY <1>10, InstantsAssumption DEF Tick
    <2> QED BY <1>1, <1>2, <1>10, <2>1 DEF Tick
  <1>11. CASE UNCHANGED vars
    BY <1>1, <1>11
       DEF vars, LockIsHolders, LockExcludes, Overdue, Holds, At
  <1> QED
    BY <1>3, <1>4, <1>5, <1>6, <1>7, <1>8, <1>9, <1>10, <1>11
       DEF Next, DispatchStep

\* The whole invariant: a copy of a row was due when it was read, a row is
\* SENT only if the broker has it, and a lock belongs to whoever works under it.
THEOREM DispatchHolds == Spec => []DispatchInv
  <1>1. Init => DispatchInv
    BY TypeInit, HonestInit, LockInit DEF DispatchInv, HonestInv
  <1>2. DispatchInv /\ [Next]_vars => DispatchInv'
    BY TypeStep, HonestStep, LockStep DEF DispatchInv, HonestInv, LockInv
  <1> QED BY <1>1, <1>2, PTL DEF Spec

\* For every number of loops, processes and failures: as long as no claim has
\* been held for more than sixty seconds, no two loops hold one row.
THEOREM LocksExclude == Spec => []LockExcludes
  <1>1. DispatchInv => LockExcludes
    BY DEF DispatchInv
  <1> QED BY <1>1, DispatchHolds, PTL

-----------------------------------------------------------------------------
(* A loop that runs alone is a relay.                                        *)

Alone == \A c, d \in Dispatchers : c = d

LEMMA PendingInit == Init => BatchIsPending
  BY AtStartTyped DEF Init, BatchIsPending

LEMMA StageNames ==
  /\ StageOf("NONE") = "none" /\ StageOf("PENDING") = "pending"
  /\ StageOf("SENT") = "sent" /\ StageOf("DEAD") = "dead"
  BY DEF StageOf

\* The stages and the offers after a step, row by row.
LEMMA RelaySame ==
  ASSUME \A e \in Events : rows'[e].status = rows[e].status,
         \A e \in Events : published'[e] = published[e]
  PROVE  UNCHANGED <<Stages, Offered>>
  BY DEF Stages, Offered

LEMMA RowRelayStep ==
  ASSUME Alone, TypeOK, TypeOK', BatchIsPending, HonestInv,
         NEW d \in Dispatchers, NEW e \in Events, RowStep(d, e)
  PROVE  BatchIsPending' /\ (Relay!Next \/ UNCHANGED <<Stages, Offered>>)
  <1> USE DEF history
  <1>1. LoopsTyped /\ Dispatchers = {d}
        /\ \A f \in Events : published[f] \in Nat
    BY DEF TypeOK, Alone
  <1>2. /\ e \in DOMAIN loop[d].batch
        /\ rows[e].status = "PENDING"
        /\ DOMAIN loop[d].batch \subseteq Events
    BY DEF RowStep, Claim, LoseClaim, Publish, PublishFails, MarkSent,
           MarkFails, Reschedule, At, BatchIsPending, TypeOK, LoopsTyped,
           LoopTyped
  <1>3. ASSUME \A f \in Events : rows'[f].status = rows[f].status,
               DOMAIN loop'[d].batch \subseteq DOMAIN loop[d].batch
        PROVE  BatchIsPending'
    BY <1>1, <1>2, <1>3 DEF BatchIsPending
  \* A row that is done with leaves the batch.
  <1>4. ASSUME Advance(d, e), \A f \in Events \ {e} : rows'[f] = rows[f]
        PROVE  BatchIsPending'
    <2>1. DOMAIN loop'[d].batch \subseteq DOMAIN loop[d].batch \ {e}
      <3>1. CASE DOMAIN loop[d].batch \ {e} = {}
        <4>1. loop' = [loop EXCEPT ![d] = Resting]
          BY <1>4, <3>1 DEF Advance
        <4>2. LoopTyped(Resting) /\ DOMAIN Resting.batch = {}
          BY RestingTyped DEF LoopPhases
        <4> QED BY <1>1, <4>1, <4>2, LoopUpdate
      <3>2. CASE DOMAIN loop[d].batch \ {e} # {}
        <4>1. loop'[d] = [phase |-> "batch", now |-> loop[d].now,
                 batch |-> [f \in DOMAIN loop[d].batch \ {e} |->
                               loop[d].batch[f]]]
          BY <1>1, <1>4, <3>2 DEF Advance, LoopsTyped
        <4> QED BY <4>1
      <3> QED BY <3>1, <3>2
    <2> QED BY <1>1, <1>2, <1>4, <2>1 DEF BatchIsPending
  <1>5. CASE Claim(d, e) \/ PublishFails(d, e) \/ MarkFails(d, e)
    <2>1. \A f \in Events : rows'[f].status = rows[f].status
      BY <1>5 DEF Claim, PublishFails, MarkFails, TypeOK, Row
    <2>2. UNCHANGED published
      BY <1>5 DEF Claim, PublishFails, MarkFails
    <2>3. loop'[d].batch = loop[d].batch
      BY <1>1, <1>5, EnterStep DEF Claim, PublishFails, MarkFails, LoopPhases
    <2> QED BY <1>3, <2>1, <2>2, <2>3, RelaySame
  <1>6. CASE LoseClaim(d, e)
    <2>1. UNCHANGED <<rows, published>> /\ Advance(d, e)
      BY <1>6 DEF LoseClaim
    <2> QED BY <1>4, <2>1, RelaySame
  <1>7. CASE Publish(d, e)
    <2>1. UNCHANGED rows /\ published' = [published EXCEPT ![e] = @ + 1]
      BY <1>7 DEF Publish
    <2>2. loop'[d].batch = loop[d].batch
      BY <1>1, <1>7, EnterStep DEF Publish, LoopPhases
    <2>3. published'[e] > 0
          /\ \A f \in Events \ {e} : published'[f] = published[f]
      BY <1>1, <2>1 DEF TypeOK
    <2>4. Offered' = Offered \cup {e} /\ UNCHANGED Stages
      BY <2>1, <2>3 DEF Offered, Stages
    <2>5. Stages[e] = "pending"
      BY <1>2, StageNames DEF Stages
    <2> QED BY <1>3, <2>1, <2>2, <2>4, <2>5 DEF Relay!Next, Relay!Offer
  <1>8. CASE MarkSent(d, e)
    <2>1. /\ \A f \in Events \ {e} : rows'[f] = rows[f]
          /\ rows'[e].status = "SENT"
      BY <1>8 DEF MarkSent, TypeOK, Row
    <2>2. UNCHANGED published /\ Advance(d, e) /\ published[e] > 0
      BY <1>8 DEF MarkSent, HonestInv, PublishedIs
    <2>3. Stages' = [Stages EXCEPT ![e] = "sent"] /\ UNCHANGED Offered
      BY <2>1, <2>2, StageNames DEF Stages, Offered
    <2>4. Stages[e] = "pending" /\ e \in Offered
      BY <1>2, <2>2, StageNames DEF Stages, Offered
    <2> QED BY <1>4, <2>1, <2>2, <2>3, <2>4 DEF Relay!Next, Relay!Settle
  <1>9. CASE Reschedule(d, e)
    <2>1. /\ \A f \in Events \ {e} : rows'[f] = rows[f]
          /\ rows'[e].status \in {"PENDING", "DEAD"}
      BY <1>9 DEF Reschedule, TypeOK, Row
    <2>2. UNCHANGED published /\ Advance(d, e)
      BY <1>9 DEF Reschedule
    <2>3. CASE rows'[e].status = "PENDING"
      <3>1. \A f \in Events : rows'[f].status = rows[f].status
        BY <1>2, <2>1, <2>3
      <3> QED BY <1>4, <2>1, <2>2, <3>1, RelaySame
    <2>4. CASE rows'[e].status = "DEAD"
      <3>1. Stages' = [Stages EXCEPT ![e] = "dead"] /\ UNCHANGED Offered
        BY <2>1, <2>2, <2>4, StageNames DEF Stages, Offered
      <3>2. Stages[e] = "pending"
        BY <1>2, StageNames DEF Stages
      <3> QED BY <1>4, <2>1, <2>2, <3>1, <3>2 DEF Relay!Next, Relay!Settle
    <2> QED BY <2>1, <2>3, <2>4
  <1> QED BY <1>5, <1>6, <1>7, <1>8, <1>9 DEF RowStep

LEMMA RelayStep ==
  ASSUME Alone, TypeOK, TypeOK', BatchIsPending, HonestInv, [Next]_vars
  PROVE  BatchIsPending' /\ [Relay!Next]_(Relay!vars)
  <1> USE DEF history
  <1>1. LoopsTyped /\ \A d \in Dispatchers : DOMAIN loop[d].batch \subseteq Events
    BY DEF TypeOK, LoopsTyped, LoopTyped
  <1>2. SUFFICES BatchIsPending' /\ (Relay!Next \/ UNCHANGED <<Stages, Offered>>)
    BY DEF Relay!vars
  \* Rows and published events stay, batches only lose rows.
  <1>3. ASSUME UNCHANGED <<rows, published>>,
               \A d \in Dispatchers :
                   DOMAIN loop'[d].batch \subseteq DOMAIN loop[d].batch
        PROVE  BatchIsPending' /\ UNCHANGED <<Stages, Offered>>
    BY <1>1, <1>3, RelaySame DEF BatchIsPending
  <1>4. ASSUME NEW e \in Events, Create(e)
        PROVE  BatchIsPending' /\ Relay!Next
    <2>1. /\ UNCHANGED <<loop, published>>
          /\ \A f \in Events \ {e} : rows'[f] = rows[f]
          /\ rows[e].status = "NONE" /\ rows'[e].status = "PENDING"
      BY <1>4 DEF Create, TypeOK, Row
    <2>2. BatchIsPending'
      BY <1>1, <2>1 DEF BatchIsPending
    <2>3. Stages' = [Stages EXCEPT ![e] = "pending"] /\ UNCHANGED Offered
      BY <2>1, StageNames DEF Stages, Offered
    <2>4. Stages[e] = "none"
      BY <2>1, StageNames DEF Stages
    <2> QED BY <2>2, <2>3, <2>4 DEF Relay!Next, Relay!Announce
  <1>5. ASSUME NEW d \in Dispatchers, ReadBatch(d)
        PROVE  BatchIsPending' /\ UNCHANGED <<Stages, Offered>>
    <2>1. UNCHANGED <<rows, published>>
      BY <1>5 DEF ReadBatch
    <2>2. /\ \A e \in DOMAIN loop'[d].batch : e \in Due
          /\ \A c \in Dispatchers \ {d} : loop'[c] = loop[c]
      BY <1>5, ReadBatchStep
    <2>3. BatchIsPending'
      BY <2>1, <2>2 DEF BatchIsPending, Due
    <2> QED BY <2>1, <2>3, RelaySame
  <1>6. ASSUME NEW d \in Dispatchers, LoopDies(d)
        PROVE  BatchIsPending' /\ UNCHANGED <<Stages, Offered>>
    <2>1. LoopTyped(Stopped("stopped")) /\ DOMAIN Stopped("stopped").batch = {}
      BY RestingTyped DEF LoopPhases
    <2>2. UNCHANGED <<rows, published>>
          /\ loop' = [loop EXCEPT ![d] = Stopped("stopped")]
      BY <1>6 DEF LoopDies
    <2> QED BY <1>1, <1>3, <2>1, <2>2, LoopUpdate
  <1>7. ASSUME NEW d \in Dispatchers, Crash(WorkerOf[d])
        PROVE  BatchIsPending' /\ UNCHANGED <<Stages, Offered>>
    <2>1. UNCHANGED <<rows, published>>
          /\ \A c \in Dispatchers : loop'[c] = loop[c] \/ loop'[c] = AtStart(c)
      BY <1>7 DEF Crash
    <2> QED BY <1>3, <2>1, AtStartTyped
  <1>8. ASSUME NEW d \in Dispatchers, NEW next \in Dispatchers,
               Reconnect(d, next)
        PROVE  BatchIsPending' /\ UNCHANGED <<Stages, Offered>>
    <2>1. LoopTyped(Resting) /\ DOMAIN Resting.batch = {}
      BY RestingTyped DEF LoopPhases
    <2>2. UNCHANGED <<rows, published>>
          /\ loop' = [loop EXCEPT ![next] = Resting]
      BY <1>8 DEF Reconnect
    <2> QED BY <1>1, <1>3, <2>1, <2>2, LoopUpdate
  <1>9. CASE Tick \/ (\E d \in Dispatchers : HalfOpen(d)) \/ UNCHANGED vars
    <2>1. UNCHANGED <<rows, published, loop>>
      BY <1>9 DEF Tick, HalfOpen, vars
    <2> QED BY <1>3, <2>1
  <1> QED
    BY <1>4, <1>5, <1>6, <1>7, <1>8, <1>9, RowRelayStep
       DEF Next, DispatchStep

\* A loop that runs alone implements the relay, for every number of rows,
\* every batch size, and any number of crashes, failed publications and failed
\* updates: it forgets no row, and SENT and DEAD are final.
THEOREM RelayImplemented ==
  ASSUME Alone
  PROVE  Spec => RefinesRelay
  <1>1. Init => Relay!Init
    BY StageNames DEF Init, Relay!Init, Stages, Offered
  <1>2. Init => TypeOK /\ HonestInv /\ BatchIsPending
    BY TypeInit, HonestInit, PendingInit
  <1>3. TypeOK /\ HonestInv /\ BatchIsPending /\ [Next]_vars =>
           TypeOK' /\ HonestInv' /\ BatchIsPending'
           /\ [Relay!Next]_(Relay!vars)
    BY TypeStep, HonestStep, RelayStep
  <1> QED BY <1>1, <1>2, <1>3, PTL DEF Spec, RefinesRelay, Relay!Spec

-----------------------------------------------------------------------------
(* Copies of a loop that runs alone.  What it published and has not marked   *)
(* is either the row it is at, or has been paid for by a failure.            *)

Offering(e) == \E d \in Dispatchers : At(d, e, "published")

CopiesPaid ==
    \A e \in Events :
        /\ rows[e].status = "NONE" => published[e] = 0
        /\ published[e] <= failures + 1
        /\ rows[e].status = "PENDING" /\ ~Offering(e) => published[e] <= failures

LEMMA PaidInit == Init => CopiesPaid
  BY FailuresAssumption DEF Init, CopiesPaid

\* A step that publishes nothing, and leaves an unmarked row only by failing.
LEMMA PaidKept ==
  ASSUME TypeOK, TypeOK', CopiesPaid, UNCHANGED published, failures' >= failures,
         \A e \in Events : rows'[e].status = "NONE" => rows[e].status = "NONE",
         \A e \in Events :
            rows'[e].status = "PENDING" /\ ~Offering(e)' =>
               /\ rows[e].status \in {"NONE", "PENDING"}
               /\ Offering(e) => failures' > failures
  PROVE  CopiesPaid'
  <1>1. /\ \A e \in Events : published[e] \in Nat
        /\ failures \in Nat /\ failures' \in Nat
    BY FailuresAssumption DEF TypeOK
  <1> SUFFICES ASSUME NEW e \in Events
               PROVE  /\ rows'[e].status = "NONE" => published[e] = 0
                      /\ published[e] <= failures' + 1
                      /\ rows'[e].status = "PENDING" /\ ~Offering(e)' =>
                            published[e] <= failures'
    BY DEF CopiesPaid
  <1>2. /\ rows[e].status = "NONE" => published[e] = 0
        /\ published[e] <= failures + 1
        /\ rows[e].status = "PENDING" /\ ~Offering(e) => published[e] <= failures
    BY DEF CopiesPaid
  <1>3. published[e] <= failures' + 1
    BY <1>1, <1>2
  <1>4. rows'[e].status = "NONE" => published[e] = 0
    BY <1>2
  <1>5. ASSUME rows'[e].status = "PENDING", ~Offering(e)'
        PROVE  published[e] <= failures'
    <2>1. CASE rows[e].status = "NONE"
      BY <1>1, <1>2, <2>1
    <2>2. CASE Offering(e)
      BY <1>1, <1>2, <1>5, <2>2
    <2>3. CASE rows[e].status = "PENDING" /\ ~Offering(e)
      BY <1>1, <1>2, <2>3
    <2> QED BY <1>5, <2>1, <2>2, <2>3
  <1> QED BY <1>3, <1>4, <1>5

LEMMA RowPaidStep ==
  ASSUME Alone, TypeOK, TypeOK', BatchIsPending, CopiesPaid,
         NEW d \in Dispatchers, NEW e \in Events, RowStep(d, e)
  PROVE  CopiesPaid'
  <1> USE DEF history
  <1>1. /\ LoopsTyped /\ Dispatchers = {d}
        /\ \A f \in Events : published[f] \in Nat
        /\ failures \in Nat /\ failures' \in Nat
        /\ Events \subseteq Nat
    BY EventsAssumption, FailuresAssumption DEF TypeOK, Alone
  <1>2. /\ e \in DOMAIN loop[d].batch /\ \A f \in DOMAIN loop[d].batch : e <= f
        /\ rows[e].status = "PENDING"
    BY DEF RowStep, Claim, LoseClaim, Publish, PublishFails, MarkSent,
           MarkFails, Reschedule, At, BatchIsPending, TypeOK, LoopsTyped,
           LoopTyped
  <1>3. \A f \in Events : Offering(f) <=> At(d, f, "published")
    BY <1>1 DEF Offering
  <1>4. \A f \in Events : f # e => ~Offering(f)
    BY <1>1, <1>2, <1>3 DEF At
  <1>5. loop[d].phase # "published" => \A f \in Events : ~Offering(f)
    BY <1>3 DEF At
  <1>6. CASE Claim(d, e) \/ LoseClaim(d, e) \/ PublishFails(d, e) \/ Reschedule(d, e)
    <2>1. loop[d].phase # "published" /\ UNCHANGED published /\ failures' >= failures
      BY <1>1, <1>6
      DEF Claim, LoseClaim, PublishFails, Reschedule, At, Fails
    <2>2. /\ \A f \in Events \ {e} : rows'[f].status = rows[f].status
          /\ rows'[e].status # "NONE"
      BY <1>2, <1>6
      DEF Claim, LoseClaim, PublishFails, Reschedule, TypeOK, Row
    <2> QED BY <1>2, <1>5, <2>1, <2>2, PaidKept
  <1>7. CASE MarkFails(d, e)
    <2>1. UNCHANGED <<rows, published>> /\ failures' > failures
      BY <1>1, <1>7 DEF MarkFails, Fails
    <2>2. failures' >= failures
      BY <1>1, <2>1
    <2>3. \A f \in Events : rows'[f].status = "PENDING" =>
                               rows[f].status \in {"NONE", "PENDING"}
      BY <2>1
    <2> QED BY <2>1, <2>2, <2>3, PaidKept
  <1>8. CASE MarkSent(d, e)
    <2>1. /\ UNCHANGED published /\ failures' >= failures
          /\ \A f \in Events \ {e} : rows'[f] = rows[f]
          /\ rows'[e].status = "SENT"
      BY <1>1, <1>8 DEF MarkSent, TypeOK, Row
    <2> QED BY <1>4, <2>1, PaidKept
  <1>9. CASE Publish(d, e)
    <2>1. /\ UNCHANGED <<rows, failures>>
          /\ published' = [published EXCEPT ![e] = @ + 1]
          /\ loop[d].phase = "claimed"
      BY <1>9 DEF Publish, At
    <2>2. loop'[d].phase = "published" /\ loop'[d].batch = loop[d].batch
      BY <1>1, <1>9, EnterStep DEF Publish, LoopPhases
    <2>3. Offering(e)'
      BY <1>2, <2>2 DEF Offering, At
    <2>4. published[e] <= failures
      BY <1>2, <1>5, <2>1 DEF CopiesPaid
    <2>5. published'[e] <= failures' + 1
          /\ \A f \in Events \ {e} : published'[f] = published[f]
      BY <1>1, <2>1, <2>4 DEF TypeOK
    <2>6. ASSUME NEW f \in Events
          PROVE  /\ rows'[f].status = "NONE" => published'[f] = 0
                 /\ published'[f] <= failures' + 1
                 /\ rows'[f].status = "PENDING" /\ ~Offering(f)' =>
                       published'[f] <= failures'
      <3>1. CASE f = e
        BY <1>2, <2>1, <2>3, <2>5, <3>1
      <3>2. CASE f # e
        <4>1. ~Offering(f)
          BY <1>5, <2>1
        <4> QED BY <2>1, <2>5, <3>2, <4>1 DEF CopiesPaid
      <3> QED BY <3>1, <3>2
    <2> QED BY <2>6 DEF CopiesPaid
  <1> QED BY <1>6, <1>7, <1>8, <1>9 DEF RowStep

LEMMA PaidStep ==
  ASSUME Alone, TypeOK, TypeOK', BatchIsPending, CopiesPaid, [Next]_vars
  PROVE  CopiesPaid'
  <1> USE DEF history
  <1>1. failures \in Nat /\ failures' \in Nat
    BY FailuresAssumption DEF TypeOK
  <1>2. ASSUME NEW d \in Dispatchers,
               LoopDies(d) \/ Crash(WorkerOf[d]) \/ \E n \in Dispatchers : Reconnect(d, n)
        PROVE  CopiesPaid'
    <2>1. UNCHANGED <<rows, published>> /\ failures' = failures + 1
      BY <1>2 DEF LoopDies, Crash, Reconnect, Fails
    <2>2. failures' >= failures /\ failures' > failures
      BY <1>1, <2>1
    <2>3. \A f \in Events : rows'[f].status = "PENDING" =>
                               rows[f].status \in {"NONE", "PENDING"}
      BY <2>1
    <2> QED BY <2>1, <2>2, <2>3, PaidKept
  <1>3. CASE Tick \/ (\E d \in Dispatchers : HalfOpen(d)) \/ UNCHANGED vars
    <2>1. UNCHANGED <<rows, published, loop, failures>>
      BY <1>3 DEF Tick, HalfOpen, vars
    <2> QED BY <2>1 DEF CopiesPaid, Offering, At
  <1>4. ASSUME NEW e \in Events, Create(e) PROVE CopiesPaid'
    <2>1. /\ UNCHANGED <<loop, published, failures>>
          /\ \A f \in Events \ {e} : rows'[f] = rows[f]
          /\ rows[e].status = "NONE" /\ rows'[e].status = "PENDING"
      BY <1>4 DEF Create, TypeOK, Row
    <2>2. \A f \in Events : Offering(f)' <=> Offering(f)
      BY <2>1 DEF Offering, At
    <2>3. failures' >= failures
      BY <1>1, <2>1
    <2>4. ~Offering(e)
      BY <2>1 DEF Offering, At, BatchIsPending
    <2> QED BY <2>1, <2>2, <2>3, <2>4, PaidKept
  <1>5. ASSUME NEW d \in Dispatchers, ReadBatch(d) PROVE CopiesPaid'
    <2>1. UNCHANGED <<rows, published, failures>> /\ loop[d].phase = "idle"
      BY <1>5 DEF ReadBatch
    <2>2. \A f \in Events : ~Offering(f)
      BY <2>1 DEF Offering, At, Alone
    <2>3. failures' >= failures
      BY <1>1, <2>1
    <2> QED BY <2>1, <2>2, <2>3, PaidKept
  <1> QED
    BY <1>2, <1>3, <1>4, <1>5, RowPaidStep DEF Next, DispatchStep

\* A loop that runs alone publishes a row again only after a failure, however
\* many rows it reads at a time and whatever fails.
THEOREM CopiesAreCaused ==
  ASSUME Alone
  PROVE  Spec => []CopiesHaveCauses
  <1>1. Init => TypeOK /\ HonestInv /\ BatchIsPending /\ CopiesPaid
    BY TypeInit, HonestInit, PendingInit, PaidInit
  <1>2. TypeOK /\ HonestInv /\ BatchIsPending /\ CopiesPaid /\ [Next]_vars =>
           TypeOK' /\ HonestInv' /\ BatchIsPending' /\ CopiesPaid'
    BY TypeStep, HonestStep, RelayStep, PaidStep
  <1>3. TypeOK /\ CopiesPaid => CopiesHaveCauses
    BY FailuresAssumption DEF TypeOK, CopiesPaid, CopiesHaveCauses
  <1> QED BY <1>1, <1>2, <1>3, PTL DEF Spec
=============================================================================
