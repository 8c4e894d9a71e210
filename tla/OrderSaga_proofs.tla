-------------------------- MODULE OrderSaga_proofs --------------------------
(* Proofs about OrderSaga for every set of orders, skus, keys, requests and  *)
(* consumers, every stock and demand, and every number of failures.          *)
EXTENDS OrderSagaProperties, FiniteSetTheorems, WellFoundedInduction, TLAPS

-----------------------------------------------------------------------------
(* Types.                                                                    *)

LEMMA TypeInit == Init => TypeOK /\ WellFormed
  <1> SUFFICES ASSUME Init PROVE TypeOK /\ WellFormed
    OBVIOUS
  <1> USE NullAssumption, StockAssumption, FailuresAssumption
      DEF Init, IdleRequest, IdleConsumer
  <1>1. OrdersTyped /\ StockTyped /\ BrokerTyped /\ CachesTyped
    BY DEF OrdersTyped, StockTyped, BrokerTyped, CachesTyped, Statuses
  <1>2. request \in [Requests -> RequestRecord]
    BY DEF RequestRecord, RequestPhases
  <1>3. consumer \in [Consumers -> ConsumerRecord]
    BY DEF ConsumerRecord, ConsumerPhases, Statuses
  <1>4. WellFormed
    BY DEF WellFormed, RequestWellFormed, ConsumerWellFormed
  <1>5. failures \in 0..MaxFailures
    OBVIOUS
  <1> QED BY <1>1, <1>2, <1>3, <1>4, <1>5 DEF TypeOK

\* What the writes the transactions share do to the types.
LEMMA EmitType ==
  ASSUME OrdersTyped, NEW t \in OutboxTypes, NEW o \in Orders, Emit(t, o)
  PROVE  /\ outbox' \in [OutboxTypes -> [Orders -> Nat]]
         /\ unsent' \subseteq Messages
  <1>1. outbox' \in [OutboxTypes -> [Orders -> Nat]]
    BY DEF OrdersTyped, Emit
  <1>2. unsent' \subseteq Messages
    BY DEF OrdersTyped, Emit, Messages, Msg
  <1> QED BY <1>1, <1>2

LEMMA StockType ==
  ASSUME StockTyped, NEW o \in Orders, NEW sign \in {-1, 1}
  PROVE  /\ AddReserved(o, sign) => reserved' \in [Skus -> Int]
         /\ AddAvailable(o, sign) => available' \in [Skus -> Int]
  BY DemandAssumption DEF StockTyped, AddReserved, AddAvailable

\* A step that gives one request, or one consumer, a new record.
LEMMA RequestUpdate ==
  ASSUME TypeOK, WellFormed, NEW r \in Requests, NEW q \in RequestRecord,
         RequestWellFormed(q),
         request' = [request EXCEPT ![r] = q], UNCHANGED consumer
  PROVE  /\ request' \in [Requests -> RequestRecord]
         /\ consumer' \in [Consumers -> ConsumerRecord]
         /\ WellFormed'
  BY DEF TypeOK, WellFormed

LEMMA ConsumerUpdate ==
  ASSUME TypeOK, WellFormed, NEW c \in Consumers, NEW w \in ConsumerRecord,
         ConsumerWellFormed(w),
         consumer' = [consumer EXCEPT ![c] = w], UNCHANGED request
  PROVE  /\ request' \in [Requests -> RequestRecord]
         /\ consumer' \in [Consumers -> ConsumerRecord]
         /\ WellFormed'
  BY DEF TypeOK, WellFormed

LEMMA IdleRecords ==
  /\ IdleRequest \in RequestRecord /\ RequestWellFormed(IdleRequest)
  /\ IdleConsumer \in ConsumerRecord /\ ConsumerWellFormed(IdleConsumer)
  BY DEF IdleRequest, RequestRecord, RequestPhases, RequestWellFormed,
         IdleConsumer, ConsumerRecord, ConsumerPhases, ConsumerWellFormed,
         Statuses

LEMMA CommittedType ==
  ASSUME TypeOK, WellFormed, NEW r \in Requests, NEW o \in Orders,
         request[r].phase # "idle", Committed(r, o), UNCHANGED consumer
  PROVE  /\ request' \in [Requests -> RequestRecord]
         /\ consumer' \in [Consumers -> ConsumerRecord]
         /\ WellFormed'
  <1> DEFINE q == [request[r] EXCEPT !.phase = "committed", !.order = o]
  <1>1. request[r] \in RequestRecord /\ RequestWellFormed(request[r])
    BY DEF TypeOK, WellFormed
  <1>2. q \in RequestRecord /\ RequestWellFormed(q)
    BY <1>1 DEF RequestRecord, RequestPhases, RequestWellFormed
  <1>3. request' = [request EXCEPT ![r] = q]
    BY <1>1 DEF Committed, TypeOK, RequestRecord
  <1> HIDE DEF q
  <1> QED BY <1>2, <1>3, RequestUpdate

LEMMA RequestTypeStep ==
  ASSUME TypeOK, WellFormed, NEW r \in Requests,
         RequestStep(r) \/ RequestFails(r)
  PROVE  TypeOK' /\ WellFormed'
  <1> USE DEF orderVars, stockVars, brokerVars, cacheVars, restVars
  <1>0. request[r] \in RequestRecord /\ RequestWellFormed(request[r])
    BY DEF TypeOK, WellFormed
  <1>1. CASE RefuseOrder(r) \/ RequestFails(r)
    <2>1. request' = [request EXCEPT ![r] = IdleRequest] /\ UNCHANGED consumer
      BY <1>1 DEF RefuseOrder, RequestFails
    <2>2. failures' \in 0..MaxFailures
      BY <1>1, FailuresAssumption DEF RefuseOrder, RequestFails, Fails, TypeOK
    <2>3. UNCHANGED <<orderVars, stockVars, brokerVars, cacheVars>>
      BY <1>1 DEF RefuseOrder, RequestFails
    <2> QED
      BY <2>1, <2>2, <2>3, IdleRecords, RequestUpdate
      DEF TypeOK, OrdersTyped, StockTyped, BrokerTyped, CachesTyped
  <1>2. CASE ReadOrder(r)
    <2> DEFINE q == [request[r] EXCEPT !.phase = "read"]
    <2>1. q \in RequestRecord /\ RequestWellFormed(q)
      BY <1>0, <1>2 DEF ReadOrder, RequestRecord, RequestPhases, RequestWellFormed
    <2>2. request' = [request EXCEPT ![r] = q] /\ UNCHANGED consumer
      BY <1>0, <1>2 DEF ReadOrder, TypeOK
    <2>3. UNCHANGED <<orderVars, stockVars, brokerVars, cacheVars, failures>>
      BY <1>2 DEF ReadOrder
    <2> HIDE DEF q
    <2> QED
      BY <2>1, <2>2, <2>3, RequestUpdate
      DEF TypeOK, OrdersTyped, StockTyped, BrokerTyped, CachesTyped
  <1>3. ASSUME NEW o \in Orders, CreateOrder(r, o)
        PROVE  TypeOK' /\ WellFormed'
    <2>1. OrdersTyped'
      BY <1>3, EmitType
      DEF CreateOrder, SetStatus, OrdersTyped, OutboxTypes, ConsumedTypes, Statuses,
          TypeOK
    <2>2. UNCHANGED <<stockVars, restVars>> /\ Committed(r, o)
      BY <1>3 DEF CreateOrder
    <2>3. request[r].phase # "idle"
      BY <1>3 DEF CreateOrder
    <2> QED
      BY <2>1, <2>2, <2>3, CommittedType
      DEF TypeOK, StockTyped, BrokerTyped, CachesTyped
  <1>4. CASE ConfirmOrder(r)
    <2> DEFINE o == request[r].order
    <2>1. o \in Orders /\ request[r].phase # "idle"
      BY <1>0, <1>4 DEF ConfirmOrder, Ready, RequestWellFormed
    <2>2. OrdersTyped'
      BY <1>4, <2>1, EmitType
      DEF ConfirmOrder, SetStatus, OrdersTyped, OutboxTypes, ConsumedTypes,
          Statuses, TypeOK
    <2>3. reserved' \in [Skus -> Int]
      BY <1>4, <2>1, StockType DEF ConfirmOrder, TypeOK
    <2>4. UNCHANGED <<available, inStock, released, restVars>> /\ Committed(r, o)
      BY <1>4 DEF ConfirmOrder
    <2> HIDE DEF o
    <2> QED
      BY <2>1, <2>2, <2>3, <2>4, CommittedType
      DEF TypeOK, StockTyped, BrokerTyped, CachesTyped
  <1>5. ASSUME NEW op \in {"cancel", "ship", "deliver"}, NEW s \in Statuses,
               NEW t \in OutboxTypes, Move(r, op, s, t)
        PROVE  TypeOK' /\ WellFormed'
    <2> DEFINE o == request[r].order
    <2>1. o \in Orders /\ request[r].phase # "idle"
      BY <1>0, <1>5 DEF Move, Ready, RequestWellFormed
    <2>2. OrdersTyped'
      BY <1>5, <2>1, EmitType DEF Move, SetStatus, OrdersTyped, TypeOK
    <2>3. UNCHANGED <<stockVars, restVars>> /\ Committed(r, o)
      BY <1>5 DEF Move
    <2> HIDE DEF o
    <2> QED
      BY <2>1, <2>2, <2>3, CommittedType
      DEF TypeOK, StockTyped, BrokerTyped, CachesTyped
  <1>6. CASE Answer(r)
    <2>1. request' = [request EXCEPT ![r] = IdleRequest] /\ UNCHANGED consumer
      BY <1>6 DEF Answer
    <2>2. CachesTyped'
      BY <1>0, <1>6 DEF Answer, CachesTyped, TypeOK, RequestRecord, RequestWellFormed
    <2>3. UNCHANGED <<orderVars, stockVars, brokerVars, failures>>
      BY <1>6 DEF Answer
    <2> QED
      BY <2>1, <2>2, <2>3, IdleRecords, RequestUpdate
      DEF TypeOK, OrdersTyped, StockTyped, BrokerTyped
  <1> QED
    BY <1>1, <1>2, <1>3, <1>4, <1>5, <1>6
    DEF RequestStep, CancelOrder, ShipOrder, DeliverOrder, OutboxTypes,
        ConsumedTypes, Statuses

LEMMA ReceiveTypeStep ==
  ASSUME TypeOK, WellFormed, NEW r \in Requests, NEW op \in Commands,
         NEW o \in Orders \cup {NoOrder}, NEW k \in Keys \cup {NoKey},
         Receive(r, op, o, k)
  PROVE  TypeOK' /\ WellFormed'
  <1> DEFINE q == [phase |-> "received", op |-> op, order |-> o, key |-> k]
  <1>1. q \in RequestRecord /\ RequestWellFormed(q)
    BY CommandsAssumption
    DEF Receive, RequestRecord, RequestPhases, RequestWellFormed, AllCommands
  <1>2. request' = [request EXCEPT ![r] = q]
    BY DEF Receive
  <1>3. UNCHANGED <<orderVars, stockVars, restVars>>
    BY DEF Receive
  <1> HIDE DEF q
  <1> QED
    BY <1>1, <1>2, <1>3, RequestUpdate
    DEF TypeOK, OrdersTyped, StockTyped, BrokerTyped, CachesTyped, orderVars,
        stockVars, restVars, brokerVars, cacheVars

LEMMA RelayTypeStep ==
  ASSUME TypeOK, WellFormed,
         \/ \E m \in Messages : Publish(m) \/ PublishUnmarked(m) \/ GiveUp(m)
         \/ \E o \in Orders : Settle(o)
  PROVE  TypeOK' /\ WellFormed'
  <1>1. UNCHANGED <<status, outbox, stockVars, processed, apiVars, consumer>>
    BY DEF Publish, PublishUnmarked, GiveUp, Settle, orderVars
  <1>2. /\ unsent' \subseteq Messages
        /\ queue' \subseteq Messages
        /\ parked' \subseteq Messages
    <2>1. \A o \in Orders : Msg("payment.settled", o) \in Messages
      BY DEF Messages, Msg
    <2>2. /\ unsent \subseteq Messages
          /\ queue \subseteq Messages
          /\ parked \subseteq Messages
      BY DEF TypeOK, OrdersTyped, BrokerTyped
    <2> QED
      BY <2>1, <2>2 DEF Publish, PublishUnmarked, GiveUp, Settle, orderVars
  <1>3. failures' \in 0..MaxFailures
    BY FailuresAssumption
    DEF Publish, PublishUnmarked, GiveUp, Settle, Fails, TypeOK
  <1>4. OrdersTyped' /\ StockTyped' /\ BrokerTyped' /\ CachesTyped'
    BY <1>1, <1>2
    DEF TypeOK, OrdersTyped, StockTyped, BrokerTyped, CachesTyped, stockVars,
        apiVars, cacheVars
  <1>5. UNCHANGED <<request, consumer>>
    BY <1>1 DEF apiVars
  <1> QED BY <1>3, <1>4, <1>5 DEF TypeOK, WellFormed

LEMMA ConsumerTypeStep ==
  ASSUME TypeOK, WellFormed, NEW c \in Consumers,
         ConsumerStep(c) \/ HandlerFails(c)
           \/ \E m \in Messages : Deliver(c, m)
  PROVE  TypeOK' /\ WellFormed'
  <1> USE DEF orderVars, stockVars, brokerVars, apiVars, cacheVars
  <1> DEFINE w == consumer[c]
  <1>0. w \in ConsumerRecord /\ ConsumerWellFormed(w)
    BY DEF TypeOK, WellFormed
  <1>a. ASSUME NEW v \in ConsumerRecord, ConsumerWellFormed(v),
               consumer' = [consumer EXCEPT ![c] = v], UNCHANGED apiVars,
               OrdersTyped', StockTyped', BrokerTyped', failures' \in 0..MaxFailures
        PROVE  TypeOK' /\ WellFormed'
    BY <1>a, ConsumerUpdate DEF TypeOK, CachesTyped
  <1>b. ASSUME UNCHANGED <<orderVars, stockVars>>
        PROVE  OrdersTyped' /\ StockTyped'
    BY <1>b DEF TypeOK, OrdersTyped, StockTyped
  <1>c. ASSUME UNCHANGED brokerVars PROVE BrokerTyped'
    BY <1>c DEF TypeOK, BrokerTyped
  <1>d. ASSUME UNCHANGED failures PROVE failures' \in 0..MaxFailures
    BY <1>d DEF TypeOK
  <1>e. ASSUME w.phase # "idle"
        PROVE  w.msg \in Messages /\ w.msg.order \in Orders
    BY <1>0, <1>e DEF ConsumerWellFormed, Messages
  <1>1. ASSUME NEW m \in Messages, Deliver(c, m)
        PROVE  TypeOK' /\ WellFormed'
    <2> DEFINE v == [phase |-> "delivered", msg |-> m, seen |-> "NONE", left |-> {}]
    <2>1. v \in ConsumerRecord /\ ConsumerWellFormed(v)
      BY DEF ConsumerRecord, ConsumerPhases, ConsumerWellFormed, Statuses
    <2>2. consumer' = [consumer EXCEPT ![c] = v]
      BY <1>1 DEF Deliver
    <2>3. BrokerTyped'
      BY <1>1 DEF Deliver, BrokerTyped, TypeOK
    <2> HIDE DEF v
    <2> QED BY <1>1, <2>1, <2>2, <2>3, <1>a, <1>b, <1>d DEF Deliver
  <1>2. CASE SkipDuplicate(c) \/ Ack(c)
    BY <1>2, <1>a, <1>b, <1>c, <1>d, IdleRecords DEF SkipDuplicate, Ack
  <1>3. CASE HandlerFails(c)
    <2>1. BrokerTyped'
      BY <1>3, <1>e DEF HandlerFails, BrokerTyped, TypeOK
    <2>2. failures' \in 0..MaxFailures
      BY <1>3, FailuresAssumption DEF HandlerFails, Fails, TypeOK
    <2> QED
      BY <1>3, <2>1, <2>2, <1>a, <1>b, IdleRecords DEF HandlerFails
  <1>4. ASSUME NEW p \in {"claimed", "fetched", "short", "done"},
               NEW s \in Statuses, NEW l \in SUBSET Skus, w.phase # "idle"
        PROVE  LET v == [w EXCEPT !.phase = p, !.seen = s, !.left = l]
               IN  v \in ConsumerRecord /\ ConsumerWellFormed(v)
    BY <1>0, <1>4 DEF ConsumerRecord, ConsumerPhases, ConsumerWellFormed
  <1>5. ASSUME NEW p \in {"claimed", "fetched", "short", "done"},
               consumer' = [consumer EXCEPT ![c].phase = p], w.phase # "idle"
        PROVE  \E v \in ConsumerRecord :
                  ConsumerWellFormed(v) /\ consumer' = [consumer EXCEPT ![c] = v]
    <2> DEFINE v == [w EXCEPT !.phase = p, !.seen = w.seen, !.left = w.left]
    <2>1. v \in ConsumerRecord /\ ConsumerWellFormed(v)
      BY <1>0, <1>4, <1>5, ZenonT(60) DEF ConsumerRecord
    <2>2. consumer' = [consumer EXCEPT ![c] = v]
      BY <1>0, <1>5 DEF TypeOK, ConsumerRecord
    <2> QED BY <2>1, <2>2
  <1>6. CASE Claim(c)
    <2>1. BrokerTyped'
      BY <1>6, <1>e DEF Claim, BrokerTyped, TypeOK
    <2> QED BY <1>6, <2>1, <1>a, <1>b, <1>d, <1>5 DEF Claim
  <1>7. CASE FetchConfirmed(c) \/ SkipWrongStatus(c) \/ \E s \in Skus : SkuShort(c, s)
    BY <1>7, <1>a, <1>b, <1>c, <1>d, <1>5
    DEF FetchConfirmed, SkipWrongStatus, NeedsConfirmed, SkuShort, Handles
  <1>8. CASE FetchCreated(c) \/ FetchCancelled(c) \/ \E s \in Skus : SkuSuffices(c, s)
    <2>1. PICK v \in ConsumerRecord :
             ConsumerWellFormed(v) /\ consumer' = [consumer EXCEPT ![c] = v]
      <3>1. CASE FetchCreated(c)
        <4> DEFINE l == {s \in Skus : Demand[w.msg.order][s] > 0}
                   v == [w EXCEPT !.phase = "fetched", !.seen = w.seen, !.left = l]
        <4>1. v \in ConsumerRecord /\ ConsumerWellFormed(v)
          BY <1>0, <1>4, <3>1 DEF ConsumerRecord, FetchCreated, Handles
        <4>2. consumer' = [consumer EXCEPT ![c] = v]
          BY <1>0, <3>1 DEF TypeOK, ConsumerRecord, FetchCreated
        <4> QED BY <4>1, <4>2
      <3>2. CASE FetchCancelled(c)
        <4> DEFINE v == [w EXCEPT !.phase = "fetched",
                                  !.seen = status[w.msg.order], !.left = w.left]
        <4>1. status[w.msg.order] \in Statuses
          BY <1>e, <3>2 DEF TypeOK, OrdersTyped, FetchCancelled, Handles
        <4>2. v \in ConsumerRecord /\ ConsumerWellFormed(v)
          BY <1>0, <1>4, <3>2, <4>1 DEF ConsumerRecord, FetchCancelled, Handles
        <4>3. consumer' = [consumer EXCEPT ![c] = v]
          BY <1>0, <3>2 DEF TypeOK, ConsumerRecord, FetchCancelled
        <4> QED BY <4>2, <4>3
      <3>3. ASSUME NEW s \in Skus, SkuSuffices(c, s)
            PROVE  \E v \in ConsumerRecord :
                      ConsumerWellFormed(v) /\ consumer' = [consumer EXCEPT ![c] = v]
        <4> DEFINE v == [w EXCEPT !.phase = "fetched", !.seen = w.seen,
                                  !.left = w.left \ {s}]
        <4>1. v \in ConsumerRecord /\ ConsumerWellFormed(v)
          BY <1>0, <1>4, <3>3 DEF ConsumerRecord, SkuSuffices, Handles
        <4>2. consumer' = [consumer EXCEPT ![c] = v]
          BY <1>0, <3>3 DEF TypeOK, ConsumerRecord, SkuSuffices, Handles
        <4> QED BY <4>1, <4>2
      <3> QED BY <1>8, <3>1, <3>2, <3>3
    <2>2. UNCHANGED <<orderVars, stockVars, brokerVars, apiVars, failures>>
      BY <1>8 DEF FetchCreated, FetchCancelled, SkuSuffices
    <2> QED BY <2>1, <2>2, <1>a, <1>b, <1>c, <1>d
  <1>9. CASE Reserve(c) \/ CancelShort(c) \/ Release(c) \/ CancelOnly(c)
             \/ RequestCharge(c) \/ MarkPaid(c)
    <2> DEFINE o == w.msg.order
    <2> USE DEF Reserve, CancelShort, Release, CancelOnly, RequestCharge, MarkPaid
    <2>1. w.phase # "idle" /\ o \in Orders /\ Done(c)
      BY <1>9, <1>e DEF Handles
    <2>2. UNCHANGED <<brokerVars, apiVars, failures>>
      BY <1>9
    <2>3. status' \in [Orders -> Statuses]
      BY <1>9, <2>1 DEF SetStatus, TypeOK, OrdersTyped, Statuses
    <2>4. outbox' \in [OutboxTypes -> [Orders -> Nat]] /\ unsent' \subseteq Messages
      <3>1. \/ UNCHANGED <<outbox, unsent>>
            \/ \E t \in OutboxTypes : Emit(t, o)
        BY <1>9 DEF OutboxTypes, ConsumedTypes
      <3> HIDE DEF o
      <3> QED BY <2>1, <3>1, EmitType DEF TypeOK, OrdersTyped
    <2>5. available' \in [Skus -> Int] /\ reserved' \in [Skus -> Int]
      BY <1>9, <2>1, StockType DEF TypeOK, StockTyped
    <2>6. inStock' \in [Skus -> BOOLEAN]
      <3>1. PICK S \in SUBSET Skus :
               \/ inStock' = inStock
               \/ inStock' = [s \in Skus |-> IF s \in S THEN FALSE ELSE inStock[s]]
               \/ inStock' = [s \in Skus |-> IF s \in S THEN TRUE ELSE inStock[s]]
        <4>1. CASE Reserve(c)
          <5> WITNESS {s \in Skus : Demand[o][s] > 0 /\ available'[s] <= 0}
                        \in SUBSET Skus
          <5> QED BY <4>1
        <4>2. CASE Release(c)
          <5> WITNESS {s \in Skus : Demand[o][s] > 0 /\ available'[s] > 0}
                        \in SUBSET Skus
          <5> QED BY <4>2
        <4> QED BY <1>9, <4>1, <4>2
      <3> QED BY <3>1, Zenon DEF TypeOK, StockTyped
    <2>7. released' \in [Orders -> Nat]
      <3>1. released' = released \/ released' = [released EXCEPT ![o] = @ + 1]
        BY <1>9
      <3> QED BY <2>1, <3>1 DEF TypeOK, StockTyped
    <2> HIDE DEF Reserve, CancelShort, Release, CancelOnly, RequestCharge, MarkPaid, o
    <2> QED
      BY <2>1, <2>2, <2>3, <2>4, <2>5, <2>6, <2>7, <1>a, <1>c, <1>d, <1>5
      DEF OrdersTyped, StockTyped, Done
  <1> QED
    BY <1>1, <1>2, <1>3, <1>6, <1>7, <1>8, <1>9 DEF ConsumerStep

LEMMA WorkerDiesTypeStep ==
  ASSUME TypeOK, WellFormed, NEW slots \in SUBSET Consumers, WorkerDies(slots)
  PROVE  TypeOK' /\ WellFormed'
  <1>1. UNCHANGED <<orderVars, stockVars, parked, processed, apiVars>>
    BY DEF WorkerDies
  <1>2. queue' \subseteq Messages
    BY DEF WorkerDies, Busy, TypeOK, BrokerTyped, WellFormed, ConsumerWellFormed
  <1>3. failures' \in 0..MaxFailures
    BY FailuresAssumption DEF WorkerDies, Fails, TypeOK
  <1>4. /\ consumer' \in [Consumers -> ConsumerRecord]
        /\ \A c \in Consumers : ConsumerWellFormed(consumer'[c])
    BY IdleRecords DEF WorkerDies, Idled, TypeOK, WellFormed
  <1>5. OrdersTyped' /\ StockTyped' /\ BrokerTyped' /\ CachesTyped'
    BY <1>1, <1>2
    DEF TypeOK, OrdersTyped, StockTyped, BrokerTyped, CachesTyped, orderVars,
        stockVars, apiVars, cacheVars
  <1>6. UNCHANGED request
    BY <1>1 DEF apiVars
  <1> QED BY <1>3, <1>4, <1>5, <1>6 DEF TypeOK, WellFormed

LEMMA TypeStep ==
  TypeOK /\ WellFormed /\ [Next]_vars => TypeOK' /\ WellFormed'
  <1> SUFFICES ASSUME TypeOK, WellFormed, [Next]_vars
               PROVE  TypeOK' /\ WellFormed'
    OBVIOUS
  <1>1. CASE Next
    BY <1>1, RequestTypeStep, ReceiveTypeStep, RelayTypeStep, ConsumerTypeStep,
       WorkerDiesTypeStep
    DEF Next
  <1>2. CASE UNCHANGED vars
    BY <1>2
    DEF TypeOK, OrdersTyped, StockTyped, BrokerTyped, CachesTyped, WellFormed,
        vars, orderVars, stockVars, brokerVars, apiVars, cacheVars
  <1> QED BY <1>1, <1>2

\* Type correctness, whatever the instance.
THEOREM TypeCorrect == Spec => []TypeOK
  <1> QED BY TypeInit, TypeStep, PTL DEF Spec

-----------------------------------------------------------------------------
(* At most once.  The dedup key makes a message a lock nobody gives back:    *)
(* the consumer that set it is the only one ever active for the message, and *)
(* once its effect is committed nobody is.                                   *)

OnceInv == Exclusive /\ EffectSpent /\ AtMostOnce

LEMMA OnceInit == Init => OnceInv
  BY DEF Init, OnceInv, Exclusive, EffectSpent, AtMostOnce, Active, PastKey,
         IdleConsumer, OutboxTypes, ConsumedTypes

SameEffects ==
    \A o \in Orders :
        /\ outbox'["stock.reserved"][o] = outbox["stock.reserved"][o]
        /\ released'[o] = released[o]
        /\ outbox'["payment.charge_requested"][o] =
              outbox["payment.charge_requested"][o]

\* A step that makes no consumer active and commits no effect.
LEMMA QuietStep ==
  ASSUME OnceInv, SameEffects, processed' = processed,
         \A c \in Consumers :
            /\ Active(c)' => Active(c)
            /\ PastKey(c)' => PastKey(c) /\ consumer'[c].msg = consumer[c].msg
  PROVE  OnceInv'
  <1>1. \A c \in Consumers : Active(c)' => consumer'[c].msg = consumer[c].msg
    BY DEF Active, PastKey
  <1>2. Exclusive'
    BY <1>1 DEF OnceInv, Exclusive
  <1>3. \A m : Spent(m) => Spent(m)'
    BY <1>1 DEF Spent
  <1>4. EffectSpent'
    BY <1>3 DEF OnceInv, SameEffects, EffectSpent
  <1>5. AtMostOnce'
    BY DEF OnceInv, SameEffects, AtMostOnce
  <1> QED BY <1>2, <1>4, <1>5 DEF OnceInv

LEMMA EmitOthers ==
  ASSUME OrdersTyped, NEW t \in OutboxTypes, NEW o \in Orders, Emit(t, o)
  PROVE  /\ \A u \in OutboxTypes, p \in Orders :
               u # t \/ p # o => outbox'[u][p] = outbox[u][p]
         /\ outbox'[t][o] = outbox[t][o] + 1
  BY DEF OrdersTyped, Emit

\* Requests, the dispatcher and the payment service commit no worker effect.
LEMMA OnceOutside ==
  ASSUME TypeOK, WellFormed, OnceInv,
         \/ \E r \in Requests : RequestStep(r) \/ RequestFails(r)
         \/ \E r \in Requests, op \in Commands, o \in Orders \cup {NoOrder},
               k \in Keys \cup {NoKey} : Receive(r, op, o, k)
         \/ \E m \in Messages : Publish(m) \/ PublishUnmarked(m) \/ GiveUp(m)
         \/ \E o \in Orders : Settle(o)
  PROVE  OnceInv'
  <1> USE DEF orderVars, stockVars, brokerVars, cacheVars, restVars
  <1>1. UNCHANGED <<processed, consumer, released>>
    BY DEF RequestStep, RequestFails, ReadOrder, RefuseOrder, CreateOrder,
           ConfirmOrder, CancelOrder, ShipOrder, DeliverOrder, Move, Answer,
           Receive, Publish, PublishUnmarked, GiveUp, Settle
  <1>2. \/ outbox' = outbox
        \/ \E t \in {"order.created", "order.confirmed", "order.cancelled",
                     "order.shipped", "order.delivered"}, o \in Orders : Emit(t, o)
    <2>1. \A r \in Requests : RequestWellFormed(request[r])
      BY DEF WellFormed
    <2>2. ASSUME NEW r \in Requests, NEW op \in {"confirm", "cancel", "ship", "deliver"},
                 Ready(r, op)
          PROVE  request[r].order \in Orders
      BY <2>1, <2>2 DEF RequestWellFormed, Ready
    <2> QED
      BY <2>2
      DEF RequestStep, RequestFails, ReadOrder, RefuseOrder, CreateOrder,
          ConfirmOrder, CancelOrder, ShipOrder, DeliverOrder, Move, Answer,
          Receive, Publish, PublishUnmarked, GiveUp, Settle
  <1>3. SameEffects
    BY <1>1, <1>2, EmitOthers
    DEF SameEffects, TypeOK, OutboxTypes, ConsumedTypes
  <1> QED BY <1>1, <1>3, QuietStep DEF Active, PastKey

\* A consumer whose message has not had its effect takes the dedup key.
LEMMA OnceClaim ==
  ASSUME TypeOK, OnceInv, NEW c \in Consumers, Claim(c)
  PROVE  OnceInv'
  <1> DEFINE m == consumer[c].msg
  <1>1. /\ m \notin processed /\ processed' = processed \cup {m}
        /\ ~PastKey(c)
        /\ UNCHANGED <<outbox, released>>
    BY DEF Claim, PastKey, orderVars, stockVars
  <1>2. /\ \A d \in Consumers : consumer'[d].msg = consumer[d].msg
        /\ \A d \in Consumers \ {c} : consumer'[d] = consumer[d]
    BY DEF Claim, TypeOK, ConsumerRecord
  <1>3. \A d \in Consumers \ {c} : /\ Active(d)' <=> Active(d)
                                   /\ PastKey(d)' <=> PastKey(d)
    BY <1>2 DEF Active, PastKey
  <1>4. \A d \in Consumers : Active(d) => consumer[d].msg \in processed
    BY DEF OnceInv, Exclusive, Active, PastKey
  <1>5. Exclusive'
    <2>1. \A d \in Consumers : PastKey(d)' => consumer'[d].msg \in processed'
      BY <1>1, <1>2, <1>3 DEF OnceInv, Exclusive
    <2>2. \A d, e \in Consumers :
             Active(d)' /\ Active(e)' /\ consumer'[d].msg = consumer'[e].msg => d = e
      BY <1>1, <1>2, <1>3, <1>4 DEF OnceInv, Exclusive
    <2> QED BY <2>1, <2>2 DEF Exclusive
  <1>6. \A n : Spent(n) => Spent(n)'
    BY <1>1, <1>2, <1>3 DEF Spent
  <1>7. EffectSpent'
    BY <1>1, <1>6 DEF OnceInv, EffectSpent
  <1>8. AtMostOnce'
    BY <1>1 DEF OnceInv, AtMostOnce
  <1> QED BY <1>5, <1>7, <1>8 DEF OnceInv

\* A consumer that finishes spends its message, which nothing had spent.
LEMMA FinishSpends ==
  ASSUME TypeOK, OnceInv, NEW c \in Consumers, Active(c), Done(c),
         processed' = processed
  PROVE  /\ Exclusive'
         /\ ~Spent(consumer[c].msg) /\ Spent(consumer[c].msg)'
         /\ \A m : Spent(m) => Spent(m)'
  <1>1. \A d \in Consumers : consumer'[d].msg = consumer[d].msg
    BY DEF Done, TypeOK, ConsumerRecord
  <1>2. ~Active(c)'
    BY DEF Active, Done, TypeOK, ConsumerRecord
  <1>3. \A d \in Consumers \ {c} : /\ Active(d)' <=> Active(d)
                                   /\ PastKey(d)' <=> PastKey(d)
    BY DEF Active, PastKey, Done, TypeOK
  <1>4. PastKey(c)
    BY DEF Active, PastKey
  <1>5. Exclusive'
    BY <1>1, <1>2, <1>3, <1>4 DEF OnceInv, Exclusive
  <1>6. \A m : Spent(m) => Spent(m)'
    BY <1>1, <1>2, <1>3 DEF Spent
  <1>7. ~Spent(consumer[c].msg)
    BY DEF Spent
  <1>8. consumer[c].msg \in processed
    BY <1>4 DEF OnceInv, Exclusive
  <1>9. \A d \in Consumers : Active(d)' => consumer'[d].msg # consumer[c].msg
    BY <1>1, <1>2, <1>3 DEF OnceInv, Exclusive
  <1>10. Spent(consumer[c].msg)'
    <2> DEFINE m == consumer[c].msg
    <2>1. m \in processed' /\ \A d \in Consumers : Active(d)' => consumer'[d].msg # m
      BY <1>8, <1>9
    <2>2. consumer'[c].msg = m
      BY <1>1
    <2> QED BY <2>1, <2>2 DEF Spent
  <1> QED BY <1>5, <1>6, <1>7, <1>10

\* The three steps that commit an effect.
LEMMA OnceReserve ==
  ASSUME TypeOK, WellFormed, OnceInv, NEW c \in Consumers, Reserve(c)
  PROVE  OnceInv'
  <1>1. PICK o \in Orders : consumer[c].msg = Msg("order.created", o)
    BY DEF Reserve, Handles, WellFormed, ConsumerWellFormed, Messages, Msg
  <1> DEFINE m == Msg("order.created", o)
  <1>2. /\ Active(c) /\ Done(c) /\ Emit("stock.reserved", o)
        /\ UNCHANGED <<processed, released>>
    BY <1>1 DEF Msg, Reserve, Handles, Active, brokerVars
  <1>3. /\ Exclusive' /\ ~Spent(m) /\ Spent(m)'
        /\ \A n : Spent(n) => Spent(n)'
    <2>1. consumer'[c].msg = m
      BY <1>1, <1>2 DEF Done, TypeOK, ConsumerRecord
    <2>2. Spent(consumer[c].msg)' => Spent(m)'
      BY <2>1 DEF Spent
    <2> QED BY <1>1, <1>2, <2>2, FinishSpends
  <1>4. /\ \A u \in OutboxTypes, p \in Orders :
              u # "stock.reserved" \/ p # o => outbox'[u][p] = outbox[u][p]
        /\ outbox'["stock.reserved"][o] = outbox["stock.reserved"][o] + 1
    BY <1>2, EmitOthers DEF TypeOK, OutboxTypes
  <1>5. outbox["stock.reserved"][o] = 0
    BY <1>3 DEF OnceInv, EffectSpent, TypeOK, OrdersTyped, OutboxTypes
  <1>6. EffectSpent'
    BY <1>2, <1>3, <1>4 DEF OnceInv, EffectSpent, OutboxTypes
  <1>7. AtMostOnce'
    BY <1>2, <1>4, <1>5 DEF OnceInv, AtMostOnce, OutboxTypes
  <1> QED BY <1>3, <1>6, <1>7 DEF OnceInv

LEMMA OnceCharge ==
  ASSUME TypeOK, WellFormed, OnceInv, NEW c \in Consumers, RequestCharge(c)
  PROVE  OnceInv'
  <1>1. PICK o \in Orders : consumer[c].msg = Msg("order.confirmed", o)
    BY DEF RequestCharge, Handles, WellFormed, ConsumerWellFormed, Messages, Msg
  <1> DEFINE m == Msg("order.confirmed", o)
  <1>2. /\ Active(c) /\ Done(c) /\ Emit("payment.charge_requested", o)
        /\ UNCHANGED <<processed, released>>
    BY <1>1 DEF Msg, RequestCharge, Handles, Active, brokerVars, stockVars
  <1>3. /\ Exclusive' /\ ~Spent(m) /\ Spent(m)'
        /\ \A n : Spent(n) => Spent(n)'
    <2>1. consumer'[c].msg = m
      BY <1>1, <1>2 DEF Done, TypeOK, ConsumerRecord
    <2>2. Spent(consumer[c].msg)' => Spent(m)'
      BY <2>1 DEF Spent
    <2> QED BY <1>1, <1>2, <2>2, FinishSpends
  <1>4. /\ \A u \in OutboxTypes, p \in Orders :
              u # "payment.charge_requested" \/ p # o
                => outbox'[u][p] = outbox[u][p]
        /\ outbox'["payment.charge_requested"][o]
              = outbox["payment.charge_requested"][o] + 1
    BY <1>2, EmitOthers DEF TypeOK, OutboxTypes
  <1>5. outbox["payment.charge_requested"][o] = 0
    BY <1>3 DEF OnceInv, EffectSpent, TypeOK, OrdersTyped, OutboxTypes
  <1>6. EffectSpent'
    BY <1>2, <1>3, <1>4 DEF OnceInv, EffectSpent, OutboxTypes
  <1>7. AtMostOnce'
    BY <1>2, <1>4, <1>5 DEF OnceInv, AtMostOnce, OutboxTypes
  <1> QED BY <1>3, <1>6, <1>7 DEF OnceInv

LEMMA OnceRelease ==
  ASSUME TypeOK, WellFormed, OnceInv, NEW c \in Consumers, Release(c)
  PROVE  OnceInv'
  <1>1. PICK o \in Orders : consumer[c].msg = Msg("order.cancelled", o)
    BY DEF Release, Handles, WellFormed, ConsumerWellFormed, Messages, Msg
  <1> DEFINE m == Msg("order.cancelled", o)
  <1>2. /\ Active(c) /\ Done(c)
        /\ released' = [released EXCEPT ![o] = @ + 1]
        /\ UNCHANGED <<processed, outbox>>
    BY <1>1 DEF Msg, Release, Handles, Active, brokerVars
  <1>3. /\ Exclusive' /\ ~Spent(m) /\ Spent(m)'
        /\ \A n : Spent(n) => Spent(n)'
    <2>1. consumer'[c].msg = m
      BY <1>1, <1>2 DEF Done, TypeOK, ConsumerRecord
    <2>2. Spent(consumer[c].msg)' => Spent(m)'
      BY <2>1 DEF Spent
    <2> QED BY <1>1, <1>2, <2>2, FinishSpends
  <1>4. \A p \in Orders :
           released'[p] = IF p = o THEN released[o] + 1 ELSE released[p]
    BY <1>2 DEF TypeOK, StockTyped
  <1>5. released[o] = 0
    BY <1>3 DEF OnceInv, EffectSpent, TypeOK, StockTyped
  <1>6. EffectSpent'
    BY <1>2, <1>3, <1>4 DEF OnceInv, EffectSpent
  <1>7. AtMostOnce'
    BY <1>2, <1>4, <1>5 DEF OnceInv, AtMostOnce
  <1> QED BY <1>3, <1>6, <1>7 DEF OnceInv

\* Every other step of a consumer is quiet.
LEMMA OnceQuiet ==
  ASSUME TypeOK, WellFormed, OnceInv, NEW c \in Consumers,
         \/ SkipDuplicate(c) \/ FetchCreated(c) \/ FetchCancelled(c)
         \/ FetchConfirmed(c) \/ SkipWrongStatus(c)
         \/ \E s \in Skus : SkuSuffices(c, s) \/ SkuShort(c, s)
         \/ CancelShort(c) \/ CancelOnly(c) \/ MarkPaid(c) \/ Ack(c)
         \/ HandlerFails(c)
         \/ \E m \in Messages : Deliver(c, m)
  PROVE  OnceInv'
  <1> USE DEF orderVars, stockVars, brokerVars
  <1>1. UNCHANGED <<processed, released>>
    BY DEF SkipDuplicate, FetchCreated, FetchCancelled, FetchConfirmed,
           SkipWrongStatus, SkuSuffices, SkuShort, CancelShort, CancelOnly,
           MarkPaid, Ack, HandlerFails, Deliver
  <1>2. outbox' = outbox \/ Emit("order.cancelled", consumer[c].msg.order)
    BY DEF SkipDuplicate, FetchCreated, FetchCancelled, FetchConfirmed,
           SkipWrongStatus, SkuSuffices, SkuShort, CancelShort, CancelOnly,
           MarkPaid, Ack, HandlerFails, Deliver
  <1>3. SameEffects
    BY <1>1, <1>2 DEF SameEffects, Emit, TypeOK, OrdersTyped, OutboxTypes
  <1>4. \A d \in Consumers \ {c} : consumer'[d] = consumer[d]
    BY DEF TypeOK, SkipDuplicate, FetchCreated, FetchCancelled, FetchConfirmed,
           SkipWrongStatus, SkuSuffices, SkuShort, CancelShort, CancelOnly,
           MarkPaid, Ack, HandlerFails, Deliver, Done
  <1>5. /\ Active(c)' => Active(c)
        /\ PastKey(c)' => PastKey(c) /\ consumer'[c].msg = consumer[c].msg
    <2>1. consumer[c] \in ConsumerRecord /\ consumer \in [Consumers -> ConsumerRecord]
      BY DEF TypeOK
    <2> USE DEF Active, PastKey, ConsumerRecord
    <2>2. CASE SkipDuplicate(c) \/ Ack(c) \/ HandlerFails(c)
               \/ \E m \in Messages : Deliver(c, m)
      BY <2>1, <2>2
      DEF SkipDuplicate, Ack, HandlerFails, Deliver, IdleConsumer
    <2>3. CASE FetchCreated(c) \/ FetchCancelled(c) \/ FetchConfirmed(c)
               \/ SkipWrongStatus(c)
      BY <2>1, <2>3
      DEF FetchCreated, FetchCancelled, FetchConfirmed, SkipWrongStatus,
          NeedsConfirmed, Handles
    <2>4. CASE \/ \E s \in Skus : SkuSuffices(c, s) \/ SkuShort(c, s)
               \/ CancelShort(c) \/ CancelOnly(c) \/ MarkPaid(c)
      BY <2>1, <2>4
      DEF SkuSuffices, SkuShort, CancelShort, CancelOnly, MarkPaid, Done, Handles
    <2> QED BY <2>2, <2>3, <2>4
  <1>6. \A d \in Consumers \ {c} :
           /\ Active(d)' => Active(d)
           /\ PastKey(d)' => PastKey(d) /\ consumer'[d].msg = consumer[d].msg
    BY <1>4 DEF Active, PastKey
  <1> QED BY <1>1, <1>3, <1>5, <1>6, QuietStep

LEMMA OnceWorkerDies ==
  ASSUME OnceInv, NEW slots \in SUBSET Consumers, WorkerDies(slots)
  PROVE  OnceInv'
  <1>1. UNCHANGED <<processed, released, outbox>>
    BY DEF WorkerDies, orderVars, stockVars
  <1>2. \A d \in Consumers :
           /\ Active(d)' => Active(d)
           /\ PastKey(d)' => PastKey(d) /\ consumer'[d].msg = consumer[d].msg
    BY DEF WorkerDies, Idled, IdleConsumer, Active, PastKey
  <1> QED BY <1>1, <1>2, QuietStep DEF SameEffects

LEMMA OnceStep ==
  TypeOK /\ WellFormed /\ OnceInv /\ [Next]_vars => OnceInv'
  <1> SUFFICES ASSUME TypeOK, WellFormed, OnceInv, [Next]_vars
               PROVE  OnceInv'
    OBVIOUS
  <1>1. CASE Next
    BY <1>1, OnceOutside, OnceClaim, OnceReserve, OnceCharge, OnceRelease,
       OnceQuiet, OnceWorkerDies
    DEF Next, ConsumerStep
  <1>2. CASE UNCHANGED vars
    <2>1. UNCHANGED <<outbox, released, processed, consumer>>
      BY <1>2 DEF vars, orderVars, stockVars, brokerVars
    <2> QED
      BY <2>1 DEF OnceInv, Exclusive, EffectSpent, AtMostOnce, Spent, Active, PastKey
  <1> QED BY <1>1, <1>2

\* The worker reserves the stock of an order, releases it and asks for its
\* charge at most once each, whatever fails and however often messages come.
THEOREM AtMostOnceHolds == Spec => []AtMostOnce
  <1>1. Init => TypeOK /\ WellFormed /\ OnceInv
    BY TypeInit, OnceInit
  <1>2. TypeOK /\ WellFormed /\ OnceInv /\ [Next]_vars
           => (TypeOK /\ WellFormed /\ OnceInv)'
    BY TypeStep, OnceStep
  <1>3. OnceInv => AtMostOnce
    BY DEF OnceInv
  <1> QED BY <1>1, <1>2, <1>3, PTL DEF Spec

-----------------------------------------------------------------------------
(* The product's flag.                                                       *)

LEMMA FlagReserve ==
  ASSUME TypeOK, WellFormed, FlagFollowsStock, NEW c \in Consumers, Reserve(c)
  PROVE  FlagFollowsStock'
  <1> DEFINE o == consumer[c].msg.order
  <1>1. o \in Orders
    <2>1. consumer[c].msg \in Messages
      BY DEF WellFormed, ConsumerWellFormed, Reserve, Handles
    <2> QED BY <2>1 DEF Messages
  <1>2. \A s \in Skus : available'[s] = available[s] - Demand[o][s]
    <2>1. AddAvailable(o, -1)
      BY DEF Reserve
    <2>2. \A s \in Skus : available'[s] = available[s] + (-1) * Demand[o][s]
      BY <2>1 DEF AddAvailable
    <2>3. \A s \in Skus : available[s] \in Int /\ Demand[o][s] \in Int
      BY <1>1, DemandAssumption DEF TypeOK, StockTyped
    <2> HIDE DEF o
    <2> QED BY <2>2, <2>3
  <1>3. \A s \in Skus :
           inStock'[s] = IF Demand[o][s] > 0 /\ available'[s] <= 0
                         THEN FALSE ELSE inStock[s]
    BY DEF Reserve
  <1>4. \A s \in Skus : available[s] \in Int /\ Demand[o][s] \in Nat
    BY <1>1, DemandAssumption DEF TypeOK, StockTyped
  <1> HIDE DEF o
  <1> SUFFICES ASSUME NEW s \in Skus PROVE inStock'[s] <=> available'[s] > 0
    BY DEF FlagFollowsStock
  <1>5. inStock[s] <=> available[s] > 0
    BY DEF FlagFollowsStock
  <1>6. CASE Demand[o][s] = 0
    <2>1. available'[s] = available[s] /\ ~(Demand[o][s] > 0)
      BY <1>2, <1>4, <1>6
    <2>2. inStock'[s] = inStock[s]
      BY <1>3, <2>1
    <2> QED BY <1>5, <2>1, <2>2
  <1>7. CASE Demand[o][s] > 0 /\ available'[s] <= 0
    <2>1. ~(available'[s] > 0)
      BY <1>2, <1>4, <1>7
    <2>2. inStock'[s] = FALSE
      BY <1>3, <1>7
    <2> QED BY <2>1, <2>2
  <1>8. CASE Demand[o][s] > 0 /\ ~(available'[s] <= 0)
    <2>1. available'[s] > 0 /\ available[s] > 0
      BY <1>2, <1>4, <1>8
    <2>2. inStock'[s] = inStock[s]
      BY <1>3, <1>8
    <2> QED BY <1>5, <2>1, <2>2
  <1> QED BY <1>4, <1>6, <1>7, <1>8

LEMMA FlagRelease ==
  ASSUME TypeOK, WellFormed, FlagFollowsStock, NEW c \in Consumers, Release(c)
  PROVE  FlagFollowsStock'
  <1> DEFINE o == consumer[c].msg.order
  <1>1. o \in Orders
    <2>1. consumer[c].msg \in Messages
      BY DEF WellFormed, ConsumerWellFormed, Release, Handles
    <2> QED BY <2>1 DEF Messages
  <1>2. \A s \in Skus : available'[s] = available[s] + Demand[o][s]
    <2>1. AddAvailable(o, 1)
      BY DEF Release
    <2>2. \A s \in Skus : available'[s] = available[s] + 1 * Demand[o][s]
      BY <2>1 DEF AddAvailable
    <2>3. \A s \in Skus : available[s] \in Int /\ Demand[o][s] \in Int
      BY <1>1, DemandAssumption DEF TypeOK, StockTyped
    <2> HIDE DEF o
    <2> QED BY <2>2, <2>3
  <1>3. \A s \in Skus :
           inStock'[s] = IF Demand[o][s] > 0 /\ available'[s] > 0
                         THEN TRUE ELSE inStock[s]
    BY DEF Release
  <1>4. \A s \in Skus : available[s] \in Int /\ Demand[o][s] \in Nat
    BY <1>1, DemandAssumption DEF TypeOK, StockTyped
  <1> HIDE DEF o
  <1> SUFFICES ASSUME NEW s \in Skus PROVE inStock'[s] <=> available'[s] > 0
    BY DEF FlagFollowsStock
  <1>5. inStock[s] <=> available[s] > 0
    BY DEF FlagFollowsStock
  <1>6. CASE Demand[o][s] = 0
    <2>1. available'[s] = available[s] /\ ~(Demand[o][s] > 0)
      BY <1>2, <1>4, <1>6
    <2>2. inStock'[s] = inStock[s]
      BY <1>3, <2>1
    <2> QED BY <1>5, <2>1, <2>2
  <1>7. CASE Demand[o][s] > 0 /\ available'[s] > 0
    <2>1. inStock'[s] = TRUE
      BY <1>3, <1>7
    <2> QED BY <1>7, <2>1
  <1>8. CASE Demand[o][s] > 0 /\ ~(available'[s] > 0)
    <2>1. ~(available[s] > 0)
      BY <1>2, <1>4, <1>8
    <2>2. inStock'[s] = inStock[s]
      BY <1>3, <1>8
    <2> QED BY <1>5, <1>8, <2>1, <2>2
  <1> QED BY <1>4, <1>6, <1>7, <1>8

\* Nothing but the two handlers' transactions moves availability or the flag.
LEMMA StockQuiet ==
  ASSUME [Next]_vars, ~\E c \in Consumers : Reserve(c) \/ Release(c)
  PROVE  UNCHANGED <<available, inStock>>
  <1> USE DEF stockVars
  <1>1. ASSUME NEW r \in Requests, RequestStep(r) \/ RequestFails(r)
        PROVE  UNCHANGED <<available, inStock>>
    BY <1>1 DEF RequestStep, RequestFails, ReadOrder, RefuseOrder, CreateOrder,
           ConfirmOrder, CancelOrder, ShipOrder, DeliverOrder, Move, Answer
  <1>2. ASSUME NEW c \in Consumers, ConsumerStep(c) \/ HandlerFails(c)
        PROVE  UNCHANGED <<available, inStock>>
    BY <1>2 DEF ConsumerStep, HandlerFails, Claim, SkipDuplicate, FetchCreated,
           FetchCancelled, FetchConfirmed, SkipWrongStatus, SkuSuffices,
           SkuShort, CancelShort, CancelOnly, RequestCharge, MarkPaid, Ack
  <1>3. CASE \/ \E r \in Requests, op \in Commands, o \in Orders \cup {NoOrder},
                   k \in Keys \cup {NoKey} : Receive(r, op, o, k)
             \/ \E m \in Messages : Publish(m) \/ PublishUnmarked(m) \/ GiveUp(m)
             \/ \E o \in Orders : Settle(o)
             \/ \E c \in Consumers, m \in Messages : Deliver(c, m)
             \/ \E slots \in SUBSET Consumers : WorkerDies(slots)
             \/ UNCHANGED vars
    BY <1>3 DEF Receive, Publish, PublishUnmarked, GiveUp, Settle, Deliver,
           WorkerDies, vars
  <1> QED BY <1>1, <1>2, <1>3 DEF Next

\* A product is flagged in stock exactly when units of it are available, for
\* every stock and demand, oversold or not, through every race and failure.
THEOREM FlagIsRight == Spec => []FlagFollowsStock
  <1>1. Init => FlagFollowsStock
    BY StockAssumption DEF Init, FlagFollowsStock
  <1>2. ASSUME TypeOK, WellFormed, FlagFollowsStock, [Next]_vars
        PROVE  FlagFollowsStock'
    <2>1. CASE \E c \in Consumers : Reserve(c) \/ Release(c)
      BY <1>2, <2>1, FlagReserve, FlagRelease
    <2>2. CASE UNCHANGED <<available, inStock>>
      BY <1>2, <2>2 DEF FlagFollowsStock
    <2> QED BY <1>2, <2>1, <2>2, StockQuiet
  <1> QED BY <1>1, <1>2, TypeInit, TypeStep, PTL DEF Spec

-----------------------------------------------------------------------------
(* The stock books.  A sum over the orders is a recursion over sets; it is   *)
(* unfolded here by the least number of elements at which it could fail.     *)

Any(s) == CHOOSE x \in s : TRUE

\* What the sum of f over s is, given the sums over smaller sets.
NextSum(f, g, s) == IF s = {} THEN 0 ELSE f[Any(s)] + g[s \ {Any(s)}]
SumsOver(f, S, g) == g = [s \in SUBSET S |-> NextSum(f, g, s)]

LEMMA HasLeast ==
  ASSUME NEW T \in SUBSET Nat, T # {}
  PROVE  \E x \in T : \A y \in T : x <= y
  <1>1. PICK x \in T : \A y \in T : <<y, x>> \notin OpToRel(<, Nat)
    BY NatLessThanWellFounded, WFMin
  <1>2. \A y \in T : ~(y < x)
    BY <1>1 DEF OpToRel
  <1> QED BY <1>2

LEMMA OneLess ==
  ASSUME NEW s, IsFiniteSet(s), s # {}
  PROVE  /\ Any(s) \in s /\ IsFiniteSet(s \ {Any(s)})
         /\ Cardinality(s) \in Nat /\ Cardinality(s) > 0
         /\ Cardinality(s \ {Any(s)}) = Cardinality(s) - 1
  <1>1. Any(s) \in s
    BY DEF Any
  <1>2. /\ IsFiniteSet(s \ {Any(s)})
        /\ Cardinality(s \ {Any(s)}) = Cardinality(s) - 1
    BY <1>1, FS_RemoveElement
  <1>3. Cardinality(s) \in Nat /\ Cardinality(s) # 0
    BY FS_EmptySet, FS_CardinalityType
  <1> QED BY <1>1, <1>2, <1>3

\* There are sums.
LEMMA SumsExist ==
  ASSUME NEW S, IsFiniteSet(S), NEW f \in [S -> Int]
  PROVE  \E g \in [SUBSET S -> Int] : SumsOver(f, S, g)
  <1> DEFINE Part(n) == {s \in SUBSET S : Cardinality(s) <= n}
             Good(n, g) == /\ g \in [Part(n) -> Int]
                           /\ \A s \in Part(n) : g[s] = NextSum(f, g, s)
             T == {n \in Nat : ~ \E g : Good(n, g)}
  <1>a. \A s \in SUBSET S : IsFiniteSet(s) /\ Cardinality(s) \in Nat
    BY FS_Subset, FS_CardinalityType
  <1>b. ASSUME NEW n \in Nat, NEW s \in Part(n), s # {}
        PROVE  /\ Any(s) \in S /\ n > 0 /\ s \ {Any(s)} \in Part(n - 1)
               /\ s \ {Any(s)} \in Part(n)
    <2>1. s \in SUBSET S /\ Cardinality(s) <= n
      OBVIOUS
    <2>2. /\ Any(s) \in s /\ Cardinality(s) \in Nat /\ Cardinality(s) > 0
          /\ Cardinality(s \ {Any(s)}) = Cardinality(s) - 1
      BY <1>a, <1>b, <2>1, OneLess
    <2>3. s \ {Any(s)} \in SUBSET S
      BY <2>1
    <2>4. n > 0 /\ Cardinality(s) - 1 <= n - 1 /\ Cardinality(s) - 1 <= n
      BY <2>1, <2>2
    <2> QED BY <2>1, <2>2, <2>3, <2>4
  <1>1. T = {}
    <2> SUFFICES ASSUME T # {} PROVE FALSE
      OBVIOUS
    <2>1. PICK n \in T : \A m \in T : n <= m
      BY HasLeast
    <2>2. n \in Nat /\ \A g : ~Good(n, g)
      BY <2>1
    <2>3. CASE n = 0
      <3> DEFINE g == [s \in Part(0) |-> 0]
      <3>1. ASSUME NEW s \in Part(0) PROVE s = {}
        <4>1. s # {} => 0 > 0
          BY <1>b
        <4> QED BY <4>1
      <3>2. \A s \in Part(0) : g[s] = NextSum(f, g, s)
        BY <3>1 DEF NextSum
      <3>3. Good(0, g)
        BY <3>2
      <3> QED BY <2>2, <2>3, <3>3
    <2>4. CASE n # 0
      <3>1. n - 1 \in Nat /\ n - 1 \notin T
        <4> HIDE DEF T, Good
        <4>1. n - 1 \in Nat /\ ~(n <= n - 1)
          BY <2>2, <2>4
        <4> QED BY <2>1, <4>1
      <3>2. PICK g : Good(n - 1, g)
        BY <3>1
      <3> DEFINE h == [s \in Part(n) |-> NextSum(f, g, s)]
      <3>3. \A s \in Part(n) : h[s] = NextSum(f, g, s)
        OBVIOUS
      <3>4. \A s \in Part(n) : NextSum(f, g, s) \in Int
        <4> SUFFICES ASSUME NEW s \in Part(n), s # {}
                     PROVE  f[Any(s)] + g[s \ {Any(s)}] \in Int
          BY DEF NextSum
        <4>1. Any(s) \in S /\ s \ {Any(s)} \in Part(n - 1)
          BY <1>b, <2>2
        <4>2. f[Any(s)] \in Int /\ g[s \ {Any(s)}] \in Int
          BY <3>2, <4>1
        <4> QED BY <4>2
      <3>5. ASSUME NEW s \in Part(n), s # {} PROVE h[s \ {Any(s)}] = g[s \ {Any(s)}]
        <4>1. s \ {Any(s)} \in Part(n - 1) /\ s \ {Any(s)} \in Part(n)
          BY <1>b, <2>2, <3>5
        <4>2. g[s \ {Any(s)}] = NextSum(f, g, s \ {Any(s)})
          BY <3>2, <4>1
        <4> QED BY <3>3, <4>1, <4>2
      <3>6. h \in [Part(n) -> Int]
        BY <3>4
      <3> HIDE DEF h, Part
      <3>7. \A s \in Part(n) : h[s] = NextSum(f, h, s)
        BY <3>3, <3>5 DEF NextSum
      <3>8. Good(n, h)
        BY <3>6, <3>7
      <3> QED BY <2>2, <3>8
    <2> QED BY <2>3, <2>4
  <1>2. Cardinality(S) \in Nat
    BY FS_CardinalityType
  <1>3. PICK g : Good(Cardinality(S), g)
    BY <1>1, <1>2
  <1>4. Part(Cardinality(S)) = SUBSET S
    BY FS_Subset
  <1>5. g \in [SUBSET S -> Int] /\ \A s \in SUBSET S : g[s] = NextSum(f, g, s)
    BY <1>3, <1>4
  <1> HIDE DEF Part, Good, T
  <1> QED BY <1>5 DEF SumsOver

\* Whatever obeys the equation is the sum.
LEMMA SumsUnique ==
  ASSUME NEW S, IsFiniteSet(S), NEW f, NEW g, SumsOver(f, S, g), NEW h,
         \A s \in SUBSET S : h[s] = NextSum(f, h, s)
  PROVE  \A s \in SUBSET S : g[s] = h[s]
  <1> DEFINE T == {n \in Nat : \E s \in SUBSET S : Cardinality(s) = n /\ g[s] # h[s]}
  <1>a. \A s \in SUBSET S : IsFiniteSet(s) /\ Cardinality(s) \in Nat
    BY FS_Subset, FS_CardinalityType
  <1>b. \A s \in SUBSET S : g[s] = NextSum(f, g, s)
    <2>1. g = [s \in SUBSET S |-> NextSum(f, g, s)]
      BY DEF SumsOver
    <2> QED BY <2>1, Zenon
  <1>1. T = {}
    <2> SUFFICES ASSUME T # {} PROVE FALSE
      OBVIOUS
    <2>1. PICK n \in T : \A m \in T : n <= m
      BY HasLeast
    <2>2. PICK s \in SUBSET S : Cardinality(s) = n /\ g[s] # h[s]
      BY <2>1
    <2>3. s # {}
      BY <1>b, <2>2 DEF NextSum
    <2>4. /\ Any(s) \in s /\ n \in Nat /\ n > 0
          /\ Cardinality(s \ {Any(s)}) = n - 1
      BY <1>a, <2>2, <2>3, OneLess
    <2>5. s \ {Any(s)} \in SUBSET S /\ n - 1 \in Nat /\ n - 1 \notin T
      BY <2>1, <2>4
    <2>6. g[s \ {Any(s)}] = h[s \ {Any(s)}]
      BY <2>4, <2>5
    <2> QED BY <1>b, <2>2, <2>3, <2>6 DEF NextSum
  <1> QED BY <1>1, <1>a

LEMMA SumUnfold ==
  ASSUME NEW S, IsFiniteSet(S), NEW f \in [S -> Int]
  PROVE  \E g \in [SUBSET S -> Int] : SumsOver(f, S, g) /\ SumFunction(f) = g[S]
  <1> DEFINE c == CHOOSE g : SumsOver(f, S, g)
  <1>1. PICK h \in [SUBSET S -> Int] : SumsOver(f, S, h)
    BY SumsExist
  <1>2. SumsOver(f, S, c)
    BY <1>1
  <1>3. SumFunction(f) = c[S]
    BY DEF SumsOver, NextSum, Any, SumFunction, SumFunctionOnSet,
           FoldFunctionOnSet, MapThenFoldSet
  <1> HIDE DEF c
  <1>4. \A s \in SUBSET S : h[s] = NextSum(f, h, s)
    <2>1. h = [s \in SUBSET S |-> NextSum(f, h, s)]
      BY <1>1 DEF SumsOver
    <2> QED BY <2>1, Zenon
  <1>5. c[S] = h[S]
    BY <1>2, <1>4, SumsUnique
  <1> QED BY <1>1, <1>3, <1>5

LEMMA SumZero ==
  ASSUME NEW S, IsFiniteSet(S), NEW f \in [S -> Int], \A i \in S : f[i] = 0
  PROVE  SumFunction(f) = 0
  <1>1. PICK g \in [SUBSET S -> Int] : SumsOver(f, S, g) /\ SumFunction(f) = g[S]
    BY SumUnfold
  <1> DEFINE h == [s \in SUBSET S |-> 0]
  <1>2. ASSUME NEW s \in SUBSET S PROVE h[s] = NextSum(f, h, s)
    <2>1. CASE s = {}
      BY <2>1 DEF NextSum
    <2>2. CASE s # {}
      <3>1. Any(s) \in S /\ s \ {Any(s)} \in SUBSET S
        BY <2>2 DEF Any
      <3> QED BY <3>1 DEF NextSum
    <2> QED BY <2>1, <2>2
  <1>3. h[S] = 0
    OBVIOUS
  <1> HIDE DEF h
  <1>4. g[S] = h[S]
    BY <1>1, <1>2, SumsUnique
  <1> QED BY <1>1, <1>3, <1>4

\* Changing one summand changes the sum by as much.
\* e is f with x added at o
Bumped(e, f, S, o, x) == \A i \in S : e[i] = IF i = o THEN f[i] + x ELSE f[i]

LEMMA SumChange ==
  ASSUME NEW S, IsFiniteSet(S), NEW f \in [S -> Int], NEW o \in S, NEW x \in Int,
         NEW e \in [S -> Int], Bumped(e, f, S, o, x)
  PROVE  SumFunction(e) = SumFunction(f) + x /\ SumFunction(f) \in Int
  <1> USE DEF Bumped
  <1>1. PICK g \in [SUBSET S -> Int] : SumsOver(f, S, g) /\ SumFunction(f) = g[S]
    BY SumUnfold
  <1>2. PICK k \in [SUBSET S -> Int] : SumsOver(e, S, k) /\ SumFunction(e) = k[S]
    BY SumUnfold
  <1>3. \A s \in SUBSET S : g[s] = NextSum(f, g, s)
    <2>1. g = [s \in SUBSET S |-> NextSum(f, g, s)]
      BY <1>1 DEF SumsOver
    <2> QED BY <2>1, Zenon
  <1> DEFINE h == [s \in SUBSET S |-> g[s] + (IF o \in s THEN x ELSE 0)]
  <1>4. ASSUME NEW s \in SUBSET S PROVE h[s] = NextSum(e, h, s)
    <2>1. CASE s = {}
      <3>1. g[s] = 0 /\ h[s] = g[s] + 0
        BY <1>3, <2>1 DEF NextSum
      <3> QED BY <2>1, <3>1 DEF NextSum
    <2>2. CASE s # {}
      <3>1. PICK a \in s : a = Any(s)
        BY <2>2 DEF Any
      <3>2. /\ s \ {a} \in SUBSET S /\ a \in S /\ g[s \ {a}] \in Int
            /\ f[a] \in Int /\ g[s] = f[a] + g[s \ {a}]
        BY <1>3, <2>2, <3>1 DEF NextSum
      <3>3. /\ h[s] = g[s] + (IF o \in s THEN x ELSE 0)
            /\ h[s \ {a}] = g[s \ {a}] + (IF o \in s \ {a} THEN x ELSE 0)
        BY <3>2
      <3>4. e[a] = IF a = o THEN f[a] + x ELSE f[a]
        BY <3>2
      <3> HIDE DEF h
      <3>5. h[s] = e[a] + h[s \ {a}]
        <4>1. CASE a = o
          <5>1. o \in s /\ o \notin s \ {a}
            BY <3>1, <4>1
          <5> QED BY <3>2, <3>3, <3>4, <4>1, <5>1
        <4>2. CASE a # o
          <5>1. o \in s \ {a} <=> o \in s
            BY <4>2
          <5> QED BY <3>2, <3>3, <3>4, <4>2, <5>1
        <4> QED BY <4>1, <4>2
      <3> QED BY <2>2, <3>1, <3>5 DEF NextSum
    <2> QED BY <2>1, <2>2
  <1>5. h[S] = g[S] + x
    OBVIOUS
  <1> HIDE DEF h
  <1>6. k[S] = h[S]
    BY <1>2, <1>4, SumsUnique
  <1> QED BY <1>1, <1>2, <1>5, <1>6

LEMMA UnitsChange ==
  ASSUME IsFiniteSet(Orders), NEW s \in Skus, NEW o \in Orders,
         NEW f \in [Orders -> Int], NEW sign \in {-1, 1},
         NEW e \in [Orders -> Int],
         Bumped(e, f, Orders, o, sign)
  PROVE  /\ Units(f, s) \in Int
         /\ sign * Demand[o][s] \in Int
         /\ Units(e, s) = Units(f, s) + sign * Demand[o][s]
  <1> DEFINE F == [p \in Orders |-> f[p] * Demand[p][s]]
             E == [p \in Orders |-> e[p] * Demand[p][s]]
             x == sign * Demand[o][s]
  <1>1. \A p \in Orders : Demand[p][s] \in Int /\ f[p] \in Int /\ e[p] \in Int
    BY DemandAssumption
  <1>2. \A m, n \in Int : m * n \in Int /\ (m + 1) * n = m * n + 1 * n
                          /\ (m + (-1)) * n = m * n + (-1) * n
    OBVIOUS
  <1>3. F \in [Orders -> Int] /\ E \in [Orders -> Int] /\ x \in Int
    BY <1>1, <1>2
  <1>4. ASSUME NEW p \in Orders PROVE E[p] = IF p = o THEN F[p] + x ELSE F[p]
    <2>1. CASE p # o
      BY <2>1 DEF Bumped
    <2>2. CASE p = o
      <3>1. E[p] = (f[o] + sign) * Demand[o][s] /\ F[p] = f[o] * Demand[o][s]
        BY <2>2 DEF Bumped
      <3>2. f[o] \in Int /\ Demand[o][s] \in Int
        BY <1>1
      <3>3. (f[o] + sign) * Demand[o][s] = f[o] * Demand[o][s] + sign * Demand[o][s]
        BY <1>2, <3>2
      <3> QED BY <2>2, <3>1, <3>3
    <2> QED BY <2>1, <2>2
  <1>5. Units(f, s) = SumFunction(F) /\ Units(e, s) = SumFunction(E)
    BY DEF Units
  <1> HIDE DEF F, E, x
  <1>6. SumFunction(E) = SumFunction(F) + x /\ SumFunction(F) \in Int
    <2>1. Bumped(E, F, Orders, o, x)
      BY <1>4 DEF Bumped
    <2> QED BY <1>3, <2>1, SumChange
  <1> QED BY <1>3, <1>5, <1>6 DEF x

\* What the saga's rows say of the units held and sold, order by order.
HeldOf == [o \in Orders |-> outbox["stock.reserved"][o] - released[o]]
SoldOf == [o \in Orders |-> outbox["order.confirmed"][o]]

Reserves(o) == /\ AddAvailable(o, -1) /\ AddReserved(o, 1)
               /\ Bumped(HeldOf', HeldOf, Orders, o, 1) /\ SoldOf' = SoldOf
GivesBack(o) == /\ AddAvailable(o, 1) /\ AddReserved(o, -1)
                /\ Bumped(HeldOf', HeldOf, Orders, o, -1) /\ SoldOf' = SoldOf
Sells(o) == /\ available' = available /\ AddReserved(o, -1)
            /\ HeldOf' = HeldOf /\ Bumped(SoldOf', SoldOf, Orders, o, 1)

LEMMA BooksTyped ==
  ASSUME TypeOK
  PROVE  HeldOf \in [Orders -> Int] /\ SoldOf \in [Orders -> Int]
  <1>1. /\ outbox["stock.reserved"] \in [Orders -> Nat]
        /\ outbox["order.confirmed"] \in [Orders -> Nat]
        /\ released \in [Orders -> Nat]
    BY DEF TypeOK, OrdersTyped, StockTyped, OutboxTypes, ConsumedTypes
  <1>2. \A o \in Orders : /\ outbox["stock.reserved"][o] - released[o] \in Int
                          /\ outbox["order.confirmed"][o] \in Int
    BY <1>1
  <1> QED BY <1>2 DEF HeldOf, SoldOf

LEMMA AccountsAre ==
  StockAccounting <=>
    \A s \in Skus : /\ available[s] = Stock[s] - Units(HeldOf, s)
                    /\ reserved[s] = Units(HeldOf, s) - Units(SoldOf, s)
  BY DEF StockAccounting, HeldOf, SoldOf

LEMMA BooksKept ==
  ASSUME IsFiniteSet(Orders), TypeOK, TypeOK', StockAccounting, NEW o \in Orders,
         Reserves(o) \/ GivesBack(o) \/ Sells(o)
  PROVE  StockAccounting'
  <1> SUFFICES ASSUME NEW s \in Skus
               PROVE  /\ available'[s] = Stock[s] - Units(HeldOf', s)
                      /\ reserved'[s] = Units(HeldOf', s) - Units(SoldOf', s)
    BY DEF StockAccounting, HeldOf, SoldOf
  <1>1. /\ HeldOf \in [Orders -> Int] /\ SoldOf \in [Orders -> Int]
        /\ HeldOf' \in [Orders -> Int] /\ SoldOf' \in [Orders -> Int]
    <2>1. HeldOf' \in [Orders -> Int] /\ SoldOf' \in [Orders -> Int]
      <3>1. /\ outbox'["stock.reserved"] \in [Orders -> Nat]
            /\ outbox'["order.confirmed"] \in [Orders -> Nat]
            /\ released' \in [Orders -> Nat]
        BY DEF TypeOK, OrdersTyped, StockTyped, OutboxTypes, ConsumedTypes
      <3>2. \A p \in Orders :
               /\ outbox'["stock.reserved"][p] - released'[p] \in Int
               /\ outbox'["order.confirmed"][p] \in Int
        BY <3>1
      <3> QED BY <3>2 DEF HeldOf, SoldOf
    <2> QED BY <2>1, BooksTyped
  <1>2. PICK h \in [Orders -> Int], k \in [Orders -> Int], h2 \in [Orders -> Int],
             k2 \in [Orders -> Int] :
             h = HeldOf /\ k = SoldOf /\ h2 = HeldOf' /\ k2 = SoldOf'
    BY <1>1
  <1>3. /\ available[s] = Stock[s] - Units(h, s)
        /\ reserved[s] = Units(h, s) - Units(k, s)
    BY <1>2, AccountsAre
  <1>4. Stock[s] \in Int /\ Demand[o][s] \in Int
    BY StockAssumption, DemandAssumption
  <1>5. ASSUME NEW f \in [Orders -> Int], NEW e \in [Orders -> Int],
               NEW x \in {-1, 1}, Bumped(e, f, Orders, o, x)
        PROVE  /\ Units(f, s) \in Int
               /\ x * Demand[o][s] \in Int
               /\ Units(e, s) = Units(f, s) + x * Demand[o][s]
    BY <1>5, UnitsChange
  <1>6. -1 \in {-1, 1} /\ 1 \in {-1, 1}
    OBVIOUS
  <1>7. \A f \in [Orders -> Int] : Units(f, s) \in Int
    <2> TAKE f \in [Orders -> Int]
    <2>1. PICK e \in [Orders -> Int] : Bumped(e, f, Orders, o, 1)
      <3>1. [p \in Orders |-> IF p = o THEN f[p] + 1 ELSE f[p]] \in [Orders -> Int]
        OBVIOUS
      <3> QED BY <3>1 DEF Bumped
    <2> QED BY <1>5, <1>6, <2>1
  <1>8. CASE Reserves(o)
    <2>1. /\ available'[s] = available[s] + (-1) * Demand[o][s]
          /\ reserved'[s] = reserved[s] + 1 * Demand[o][s]
      BY <1>8 DEF Reserves, AddAvailable, AddReserved
    <2>2. Bumped(h2, h, Orders, o, 1) /\ k2 = k
      BY <1>2, <1>8 DEF Reserves
    <2>3. Units(h2, s) = Units(h, s) + 1 * Demand[o][s]
      BY <1>5, <1>6, <2>2
    <2>4. Units(h, s) \in Int /\ Units(k, s) \in Int
      BY <1>7
    <2>5. /\ available'[s] = Stock[s] - Units(h2, s)
          /\ reserved'[s] = Units(h2, s) - Units(k, s)
      BY <1>3, <1>4, <2>1, <2>3, <2>4
    <2> QED BY <1>2, <2>2, <2>5
  <1>9. CASE GivesBack(o)
    <2>1. /\ available'[s] = available[s] + 1 * Demand[o][s]
          /\ reserved'[s] = reserved[s] + (-1) * Demand[o][s]
      BY <1>9 DEF GivesBack, AddAvailable, AddReserved
    <2>2. Bumped(h2, h, Orders, o, -1) /\ k2 = k
      BY <1>2, <1>9 DEF GivesBack
    <2>3. Units(h2, s) = Units(h, s) + (-1) * Demand[o][s]
      BY <1>5, <1>6, <2>2
    <2>4. Units(h, s) \in Int /\ Units(k, s) \in Int
      BY <1>7
    <2>5. /\ available'[s] = Stock[s] - Units(h2, s)
          /\ reserved'[s] = Units(h2, s) - Units(k, s)
      BY <1>3, <1>4, <2>1, <2>3, <2>4
    <2> QED BY <1>2, <2>2, <2>5
  <1>10. CASE Sells(o)
    <2>1. /\ available'[s] = available[s]
          /\ reserved'[s] = reserved[s] + (-1) * Demand[o][s]
      BY <1>10 DEF Sells, AddReserved
    <2>2. Bumped(k2, k, Orders, o, 1) /\ h2 = h
      BY <1>2, <1>10 DEF Sells
    <2>3. Units(k2, s) = Units(k, s) + 1 * Demand[o][s]
      BY <1>5, <1>6, <2>2
    <2>4. Units(h, s) \in Int /\ Units(k, s) \in Int
      BY <1>7
    <2>5. /\ available'[s] = Stock[s] - Units(h, s)
          /\ reserved'[s] = Units(h, s) - Units(k2, s)
      BY <1>3, <1>4, <2>1, <2>3, <2>4
    <2> QED BY <1>2, <2>2, <2>5
  <1> QED BY <1>8, <1>9, <1>10

\* A row of another type, or none, leaves the books alone.
LEMMA BooksQuiet ==
  ASSUME TypeOK,
         UNCHANGED <<available, reserved, released>>,
         \/ UNCHANGED outbox
         \/ \E t \in OutboxTypes \ {"stock.reserved", "order.confirmed"},
              o \in Orders : Emit(t, o)
  PROVE  UNCHANGED <<available, reserved, HeldOf, SoldOf>>
  <1>1. \A p \in Orders :
           /\ outbox'["stock.reserved"][p] = outbox["stock.reserved"][p]
           /\ outbox'["order.confirmed"][p] = outbox["order.confirmed"][p]
    BY EmitOthers DEF TypeOK, OutboxTypes, ConsumedTypes
  <1> QED BY <1>1 DEF HeldOf, SoldOf

LEMMA BooksRequest ==
  ASSUME TypeOK, WellFormed, NEW r \in Requests,
         RequestStep(r) \/ RequestFails(r)
  PROVE  \/ UNCHANGED <<available, reserved, HeldOf, SoldOf>>
         \/ \E o \in Orders : Sells(o)
  <1> USE DEF orderVars, stockVars, brokerVars, cacheVars, restVars
  <1>1. CASE ReadOrder(r) \/ RefuseOrder(r) \/ Answer(r) \/ RequestFails(r)
    BY <1>1, BooksQuiet DEF ReadOrder, RefuseOrder, Answer, RequestFails
  <1>2. ASSUME NEW o \in Orders, CreateOrder(r, o)
        PROVE  UNCHANGED <<available, reserved, HeldOf, SoldOf>>
    BY <1>2, BooksQuiet DEF CreateOrder, OutboxTypes, ConsumedTypes
  <1>3. CASE CancelOrder(r) \/ ShipOrder(r) \/ DeliverOrder(r)
    <2>1. request[r].order \in Orders
      BY <1>3 DEF CancelOrder, ShipOrder, DeliverOrder, Move, Ready, WellFormed,
                  RequestWellFormed
    <2> QED
      BY <1>3, <2>1, BooksQuiet
      DEF CancelOrder, ShipOrder, DeliverOrder, Move, OutboxTypes, ConsumedTypes
  <1>4. CASE ConfirmOrder(r)
    <2> DEFINE o == request[r].order
    <2>1. o \in Orders
      BY <1>4 DEF ConfirmOrder, Ready, WellFormed, RequestWellFormed
    <2>2. /\ Emit("order.confirmed", o) /\ AddReserved(o, -1)
          /\ UNCHANGED <<available, released>>
      BY <1>4 DEF ConfirmOrder
    <2> HIDE DEF o
    <2>3. /\ \A p \in Orders :
                 outbox'["stock.reserved"][p] = outbox["stock.reserved"][p]
          /\ \A p \in Orders : p # o =>
                 outbox'["order.confirmed"][p] = outbox["order.confirmed"][p]
          /\ outbox'["order.confirmed"][o] = outbox["order.confirmed"][o] + 1
      BY <2>1, <2>2, EmitOthers DEF TypeOK, OutboxTypes, ConsumedTypes
    <2>4. HeldOf' = HeldOf
      BY <2>2, <2>3 DEF HeldOf
    <2>5. Bumped(SoldOf', SoldOf, Orders, o, 1)
      BY <2>1, <2>3 DEF SoldOf, Bumped
    <2> QED BY <2>1, <2>2, <2>4, <2>5 DEF Sells
  <1> QED BY <1>1, <1>2, <1>3, <1>4 DEF RequestStep

LEMMA BooksConsumer ==
  ASSUME TypeOK, WellFormed, NEW c \in Consumers,
         ConsumerStep(c) \/ HandlerFails(c)
  PROVE  \/ UNCHANGED <<available, reserved, HeldOf, SoldOf>>
         \/ \E o \in Orders : Reserves(o) \/ GivesBack(o)
  <1> USE DEF orderVars, stockVars, brokerVars, apiVars
  <1> DEFINE o == consumer[c].msg.order
  <1>1. consumer[c].phase # "idle" => o \in Orders
    BY DEF WellFormed, ConsumerWellFormed, Messages
  <1>2. CASE CancelShort(c) \/ RequestCharge(c)
    <2>1. o \in Orders
      BY <1>1, <1>2 DEF CancelShort, RequestCharge, Handles
    <2> QED
      BY <1>2, <2>1, BooksQuiet
      DEF CancelShort, RequestCharge, OutboxTypes, ConsumedTypes
  <1>3. CASE Reserve(c)
    <2>1. o \in Orders
      BY <1>1, <1>3 DEF Reserve, Handles
    <2>2. /\ Emit("stock.reserved", o) /\ AddAvailable(o, -1) /\ AddReserved(o, 1)
          /\ UNCHANGED released
      BY <1>3 DEF Reserve
    <2> HIDE DEF o
    <2>3. /\ \A p \in Orders :
                 outbox'["order.confirmed"][p] = outbox["order.confirmed"][p]
          /\ \A p \in Orders : p # o =>
                 outbox'["stock.reserved"][p] = outbox["stock.reserved"][p]
          /\ outbox'["stock.reserved"][o] = outbox["stock.reserved"][o] + 1
      BY <2>1, <2>2, EmitOthers DEF TypeOK, OutboxTypes, ConsumedTypes
    <2>4. SoldOf' = SoldOf
      BY <2>3 DEF SoldOf
    <2>5. \A p \in Orders : outbox["stock.reserved"][p] \in Int /\ released[p] \in Int
      BY DEF TypeOK, OrdersTyped, StockTyped, OutboxTypes, ConsumedTypes
    <2>6. Bumped(HeldOf', HeldOf, Orders, o, 1)
      BY <2>1, <2>2, <2>3, <2>5 DEF HeldOf, Bumped
    <2> QED BY <2>1, <2>2, <2>4, <2>6 DEF Reserves
  <1>4. CASE Release(c)
    <2>1. o \in Orders
      BY <1>1, <1>4 DEF Release, Handles
    <2>2. /\ UNCHANGED outbox /\ AddAvailable(o, 1) /\ AddReserved(o, -1)
          /\ released' = [released EXCEPT ![o] = @ + 1]
      BY <1>4 DEF Release
    <2> HIDE DEF o
    <2>3. \A p \in Orders : outbox["stock.reserved"][p] \in Int /\ released[p] \in Int
      BY DEF TypeOK, OrdersTyped, StockTyped, OutboxTypes, ConsumedTypes
    <2>4. SoldOf' = SoldOf
      BY <2>2 DEF SoldOf
    <2>5. \A p \in Orders :
             released'[p] = IF p = o THEN released[p] + 1 ELSE released[p]
      BY <2>1, <2>2 DEF TypeOK, StockTyped
    <2>6. Bumped(HeldOf', HeldOf, Orders, o, -1)
      BY <2>1, <2>2, <2>3, <2>5 DEF HeldOf, Bumped
    <2> QED BY <2>1, <2>2, <2>4, <2>6 DEF GivesBack
  <1>5. CASE HandlerFails(c)
    BY <1>5, BooksQuiet DEF HandlerFails, stockVars
  <1>6. CASE ConsumerStep(c)
             /\ ~(CancelShort(c) \/ RequestCharge(c) \/ Reserve(c) \/ Release(c))
    BY <1>6, BooksQuiet
    DEF ConsumerStep, Claim, SkipDuplicate, FetchCreated,
        FetchCancelled, FetchConfirmed, SkipWrongStatus, SkuSuffices,
        SkuShort, CancelOnly, MarkPaid, Ack, stockVars
  <1> QED BY <1>2, <1>3, <1>4, <1>5, <1>6

LEMMA BooksStep ==
  ASSUME TypeOK, WellFormed, [Next]_vars
  PROVE  \/ UNCHANGED <<available, reserved, HeldOf, SoldOf>>
         \/ \E o \in Orders : Reserves(o) \/ GivesBack(o) \/ Sells(o)
  <1>1. CASE \/ \E r \in Requests, op \in Commands, o \in Orders \cup {NoOrder},
                   k \in Keys \cup {NoKey} : Receive(r, op, o, k)
             \/ \E m \in Messages : Publish(m) \/ PublishUnmarked(m) \/ GiveUp(m)
             \/ \E o \in Orders : Settle(o)
             \/ \E c \in Consumers, m \in Messages : Deliver(c, m)
             \/ \E slots \in SUBSET Consumers : WorkerDies(slots)
             \/ UNCHANGED vars
    BY <1>1, BooksQuiet
    DEF Receive, Publish, PublishUnmarked, GiveUp, Settle, Deliver, WorkerDies,
        vars, orderVars, stockVars
  <1> QED BY <1>1, BooksRequest, BooksConsumer DEF Next

\* The books balance: for every number of orders, stock and demand, oversold
\* or not, availableQty and reservedQty are what the reservations, releases
\* and confirmations that committed make of the initial stock.
THEOREM BooksBalance ==
  ASSUME IsFiniteSet(Orders)
  PROVE  Spec => []StockAccounting
  <1>1. Init => StockAccounting
    <2> SUFFICES ASSUME Init PROVE StockAccounting
      OBVIOUS
    <2>1. \A o \in Orders : HeldOf[o] = 0 /\ SoldOf[o] = 0
      BY DEF Init, HeldOf, SoldOf, OutboxTypes, ConsumedTypes
    <2>2. ASSUME NEW s \in Skus PROVE Units(HeldOf, s) = 0 /\ Units(SoldOf, s) = 0
      <3>1. \A o \in Orders : Demand[o][s] \in Int
        BY DemandAssumption
      <3>2. \A n \in Int : 0 * n = 0
        OBVIOUS
      <3>3. ASSUME NEW f, \A o \in Orders : f[o] = 0 PROVE Units(f, s) = 0
        <4> DEFINE F == [o \in Orders |-> f[o] * Demand[o][s]]
        <4>1. F \in [Orders -> Int] /\ \A o \in Orders : F[o] = 0
          BY <3>1, <3>2, <3>3
        <4>2. Units(f, s) = SumFunction(F)
          BY DEF Units
        <4> HIDE DEF F
        <4> QED BY <4>1, <4>2, SumZero
      <3> QED BY <2>1, <3>3
    <2>3. \A s \in Skus : Stock[s] \in Int /\ available[s] = Stock[s] /\ reserved[s] = 0
      BY StockAssumption DEF Init
    <2> QED BY <2>2, <2>3, AccountsAre
  <1>2. ASSUME TypeOK, WellFormed, StockAccounting, [Next]_vars
        PROVE  StockAccounting'
    <2>1. CASE UNCHANGED <<available, reserved, HeldOf, SoldOf>>
      BY <1>2, <2>1 DEF StockAccounting, HeldOf, SoldOf
    <2>2. CASE \E o \in Orders : Reserves(o) \/ GivesBack(o) \/ Sells(o)
      BY <1>2, <2>2, TypeStep, BooksKept
    <2> QED BY <1>2, <2>1, <2>2, BooksStep
  <1> QED BY <1>1, <1>2, TypeInit, TypeStep, PTL DEF Spec

-----------------------------------------------------------------------------
(* Causality.  Every trace the saga leaves has its cause already there when  *)
(* it is left, and traces are never taken back; so what a stale read proved  *)
(* when it was made, it still proves when it is acted on.                    *)

CauseInv ==
    MessagesCaused /\ ReadsProve /\ CreatedFirst /\ CausalOrder /\ StatusAnnounced

Has(t, o) == outbox[t][o] > 0
Settled(o) == Msg("payment.settled", o) \in processed

\* What is there before an outbox row of type t is written.
RowCause(t, o) ==
    CASE t = "order.created" -> TRUE
      [] t = "stock.reserved" -> Has("order.created", o)
      [] t = "order.cancelled" -> Has("order.created", o)
      [] t = "order.confirmed" -> Has("stock.reserved", o)
      [] t = "payment.charge_requested" -> Has("order.confirmed", o)
      [] t = "order.shipped" -> Settled(o)
      [] t = "order.delivered" -> Has("order.shipped", o)

\* What a step may do to rows, dedup keys, releases and statuses.
RowEffect ==
    \/ UNCHANGED outbox
    \/ \E t \in OutboxTypes, o \in Orders :
          /\ Emit(t, o) /\ RowCause(t, o)
          /\ t = "order.created" => SetStatus(o, "CREATED")
ClaimEffect ==
    \/ UNCHANGED processed
    \/ \E m \in Messages : Caused(m) /\ processed' = processed \cup {m}
ReleaseEffect ==
    \/ UNCHANGED released
    \/ \E o \in Orders :
          /\ Has("stock.reserved", o) /\ Has("order.cancelled", o)
          /\ released' = [released EXCEPT ![o] = @ + 1]
StatusEffect ==
    \/ UNCHANGED status
    \/ \E o \in Orders, s \in Statuses \ {"NONE"} :
          SetStatus(o, s) /\ Announced(o, s)'
Effects == RowEffect /\ ClaimEffect /\ ReleaseEffect /\ StatusEffect

LEMMA EffectQuiet ==
  UNCHANGED <<outbox, processed, released, status>> => Effects
  BY DEF Effects, RowEffect, ClaimEffect, ReleaseEffect, StatusEffect

\* A command that acts on an order: its row has its cause, its status its row.
LEMMA EffectCommit ==
  ASSUME TypeOK, NEW t \in OutboxTypes, NEW o \in Orders,
         NEW s \in Statuses \ {"NONE"}, Emit(t, o), RowCause(t, o),
         SetStatus(o, s), t = "order.created" => s = "CREATED",
         \/ <<t, s>> = <<"order.created", "CREATED">>
         \/ <<t, s>> = <<"stock.reserved", "RESERVED">>
         \/ <<t, s>> = <<"order.confirmed", "CONFIRMED">>
         \/ <<t, s>> = <<"order.shipped", "SHIPPED">>
         \/ <<t, s>> = <<"order.delivered", "DELIVERED">>
         \/ <<t, s>> = <<"order.cancelled", "CANCELLED">>,
         UNCHANGED <<processed, released>>
  PROVE  Effects
  <1>1. outbox'[t][o] > 0
    <2>1. outbox'[t][o] = outbox[t][o] + 1 /\ outbox[t][o] \in Nat
      BY EmitOthers DEF TypeOK, OrdersTyped
    <2> QED BY <2>1
  <1>2. Announced(o, s)'
    BY <1>1 DEF Announced
  <1>3. RowEffect
    BY DEF RowEffect
  <1>4. StatusEffect
    BY <1>2 DEF StatusEffect
  <1> QED BY <1>3, <1>4 DEF Effects, ClaimEffect, ReleaseEffect

LEMMA EffectRequest ==
  ASSUME TypeOK, WellFormed, CauseInv, NEW r \in Requests,
         RequestStep(r) \/ RequestFails(r)
  PROVE  Effects
  <1> USE DEF orderVars, stockVars, brokerVars, cacheVars, restVars
  <1>1. CASE ReadOrder(r) \/ RefuseOrder(r) \/ Answer(r) \/ RequestFails(r)
    BY <1>1, EffectQuiet DEF ReadOrder, RefuseOrder, Answer, RequestFails
  <1>2. ASSUME NEW o \in Orders, CreateOrder(r, o) PROVE Effects
    <2>1. RowCause("order.created", o)
      BY DEF RowCause
    <2>2. /\ Emit("order.created", o) /\ SetStatus(o, "CREATED")
          /\ UNCHANGED <<processed, released>>
      BY <1>2 DEF CreateOrder
    <2>3. "order.created" \in OutboxTypes /\ "CREATED" \in Statuses \ {"NONE"}
      BY DEF OutboxTypes, ConsumedTypes, Statuses
    <2> QED BY <2>1, <2>2, <2>3, EffectCommit
  <1>3. ASSUME NEW op \in {"confirm", "cancel", "ship", "deliver"}, Ready(r, op)
        PROVE  /\ request[r].order \in Orders
               /\ op = "cancel" => Has("order.created", request[r].order)
               /\ op = "confirm" => Has("stock.reserved", request[r].order)
               /\ op = "ship" => Settled(request[r].order)
               /\ op = "deliver" => Has("order.shipped", request[r].order)
    BY <1>3
    DEF WellFormed, RequestWellFormed, Ready, CauseInv, ReadsProve, Has, Settled
  <1>4. CASE ConfirmOrder(r)
    <2> DEFINE o == request[r].order
    <2>1. o \in Orders /\ Has("stock.reserved", o)
      BY <1>3, <1>4 DEF ConfirmOrder
    <2>2. /\ Emit("order.confirmed", o) /\ SetStatus(o, "CONFIRMED")
          /\ UNCHANGED <<processed, released>>
      BY <1>4 DEF ConfirmOrder
    <2>3. "order.confirmed" \in OutboxTypes /\ "CONFIRMED" \in Statuses \ {"NONE"}
      BY DEF OutboxTypes, ConsumedTypes, Statuses
    <2> HIDE DEF o
    <2>4. RowCause("order.confirmed", o)
      BY <2>1 DEF RowCause
    <2> QED BY <2>1, <2>2, <2>3, <2>4, EffectCommit
  <1>5. CASE CancelOrder(r)
    <2> DEFINE o == request[r].order
    <2>1. o \in Orders /\ Has("order.created", o)
      BY <1>3, <1>5 DEF CancelOrder, Move
    <2>2. /\ Emit("order.cancelled", o) /\ SetStatus(o, "CANCELLED")
          /\ UNCHANGED <<processed, released>>
      BY <1>5 DEF CancelOrder, Move
    <2>3. "order.cancelled" \in OutboxTypes /\ "CANCELLED" \in Statuses \ {"NONE"}
      BY DEF OutboxTypes, ConsumedTypes, Statuses
    <2> HIDE DEF o
    <2>4. RowCause("order.cancelled", o)
      BY <2>1 DEF RowCause
    <2> QED BY <2>1, <2>2, <2>3, <2>4, EffectCommit
  <1>6. CASE ShipOrder(r)
    <2> DEFINE o == request[r].order
    <2>1. o \in Orders /\ Settled(o)
      BY <1>3, <1>6 DEF ShipOrder, Move
    <2>2. /\ Emit("order.shipped", o) /\ SetStatus(o, "SHIPPED")
          /\ UNCHANGED <<processed, released>>
      BY <1>6 DEF ShipOrder, Move
    <2>3. "order.shipped" \in OutboxTypes /\ "SHIPPED" \in Statuses \ {"NONE"}
      BY DEF OutboxTypes, ConsumedTypes, Statuses
    <2> HIDE DEF o
    <2>4. RowCause("order.shipped", o)
      BY <2>1 DEF RowCause
    <2> QED BY <2>1, <2>2, <2>3, <2>4, EffectCommit
  <1>7. CASE DeliverOrder(r)
    <2> DEFINE o == request[r].order
    <2>1. o \in Orders /\ Has("order.shipped", o)
      BY <1>3, <1>7 DEF DeliverOrder, Move
    <2>2. /\ Emit("order.delivered", o) /\ SetStatus(o, "DELIVERED")
          /\ UNCHANGED <<processed, released>>
      BY <1>7 DEF DeliverOrder, Move
    <2>3. "order.delivered" \in OutboxTypes /\ "DELIVERED" \in Statuses \ {"NONE"}
      BY DEF OutboxTypes, ConsumedTypes, Statuses
    <2> HIDE DEF o
    <2>4. RowCause("order.delivered", o)
      BY <2>1 DEF RowCause
    <2> QED BY <2>1, <2>2, <2>3, <2>4, EffectCommit
  <1> QED
    BY <1>1, <1>2, <1>4, <1>5, <1>6, <1>7 DEF RequestStep

\* The message a busy consumer holds, and what it proves.
LEMMA HandlerKnows ==
  ASSUME WellFormed, CauseInv, NEW c \in Consumers, consumer[c].phase # "idle"
  PROVE  /\ consumer[c].msg \in Messages /\ consumer[c].msg.order \in Orders
         /\ consumer[c].msg = Msg(consumer[c].msg.type, consumer[c].msg.order)
         /\ Caused(consumer[c].msg)
  <1>1. consumer[c].msg \in Messages /\ Caused(consumer[c].msg)
    BY DEF WellFormed, ConsumerWellFormed, CauseInv, MessagesCaused
  <1> QED BY <1>1 DEF Messages, Msg

LEMMA EffectConsumer ==
  ASSUME TypeOK, WellFormed, OnceInv, CauseInv, NEW c \in Consumers,
         \/ ConsumerStep(c) \/ HandlerFails(c)
         \/ \E m \in Messages : Deliver(c, m)
  PROVE  Effects
  <1> USE DEF orderVars, stockVars, brokerVars, Handles
  <1> DEFINE o == consumer[c].msg.order
  <1>1. CASE \/ SkipDuplicate(c) \/ FetchCreated(c) \/ FetchCancelled(c)
             \/ FetchConfirmed(c) \/ SkipWrongStatus(c)
             \/ \E s \in Skus : SkuSuffices(c, s) \/ SkuShort(c, s)
             \/ Ack(c) \/ HandlerFails(c) \/ \E m \in Messages : Deliver(c, m)
    <2>1. UNCHANGED <<outbox, processed, released, status>>
      BY <1>1
      DEF SkipDuplicate, FetchCreated, FetchCancelled, FetchConfirmed,
          SkipWrongStatus, SkuSuffices, SkuShort, Ack, HandlerFails, Deliver
    <2> QED BY <2>1, EffectQuiet
  <1>2. CASE Claim(c)
    <2>1. consumer[c].msg \in Messages /\ Caused(consumer[c].msg)
      BY <1>2, HandlerKnows DEF Claim
    <2>2. processed' = processed \cup {consumer[c].msg}
          /\ UNCHANGED <<outbox, released, status>>
      BY <1>2 DEF Claim
    <2> QED
      BY <2>1, <2>2 DEF Effects, RowEffect, ClaimEffect, ReleaseEffect, StatusEffect
  <1>3. CASE Reserve(c)
    <2>1. o \in Orders /\ Has("order.created", o)
      BY <1>3, HandlerKnows DEF Reserve, Caused, Has
    <2>2. /\ Emit("stock.reserved", o) /\ SetStatus(o, "RESERVED")
          /\ UNCHANGED <<processed, released>>
      BY <1>3 DEF Reserve
    <2>3. "stock.reserved" \in OutboxTypes /\ "RESERVED" \in Statuses \ {"NONE"}
      BY DEF OutboxTypes, ConsumedTypes, Statuses
    <2> HIDE DEF o
    <2>4. RowCause("stock.reserved", o)
      BY <2>1 DEF RowCause
    <2> QED BY <2>1, <2>2, <2>3, <2>4, EffectCommit
  <1>4. CASE CancelShort(c)
    <2>1. o \in Orders /\ Has("order.created", o)
      BY <1>4, HandlerKnows DEF CancelShort, Caused, Has
    <2>2. /\ Emit("order.cancelled", o) /\ SetStatus(o, "CANCELLED")
          /\ UNCHANGED <<processed, released>>
      BY <1>4 DEF CancelShort
    <2>3. "order.cancelled" \in OutboxTypes /\ "CANCELLED" \in Statuses \ {"NONE"}
      BY DEF OutboxTypes, ConsumedTypes, Statuses
    <2> HIDE DEF o
    <2>4. RowCause("order.cancelled", o)
      BY <2>1 DEF RowCause
    <2> QED BY <2>1, <2>2, <2>3, <2>4, EffectCommit
  <1>5. CASE Release(c) \/ CancelOnly(c)
    <2>1. PICK p \in Orders : p = consumer[c].msg.order /\ Has("order.cancelled", p)
      BY <1>5, HandlerKnows DEF Release, CancelOnly, Caused, Has
    <2>2. /\ SetStatus(p, "CANCELLED")
          /\ UNCHANGED <<outbox, processed>>
      BY <1>5, <2>1 DEF Release, CancelOnly
    <2>3. \/ UNCHANGED released
          \/ /\ Has("stock.reserved", p)
             /\ released' = [released EXCEPT ![p] = @ + 1]
      BY <1>5, <2>1 DEF Release, CancelOnly, CauseInv, ReadsProve, Has
    <2>4. Announced(p, "CANCELLED")'
      BY <2>1, <2>2 DEF Announced, Has
    <2>5. StatusEffect
      BY <2>2, <2>4 DEF StatusEffect, Statuses
    <2>6. ReleaseEffect
      BY <2>1, <2>3 DEF ReleaseEffect
    <2> QED BY <2>2, <2>5, <2>6 DEF Effects, RowEffect, ClaimEffect
  <1>6. CASE RequestCharge(c)
    <2>1. PICK p \in Orders : p = consumer[c].msg.order /\ Has("order.confirmed", p)
      BY <1>6, HandlerKnows DEF RequestCharge, Caused, Has
    <2>2. /\ Emit("payment.charge_requested", p)
          /\ UNCHANGED <<processed, released, status>>
      BY <1>6, <2>1 DEF RequestCharge
    <2>3. RowCause("payment.charge_requested", p)
      BY <2>1 DEF RowCause
    <2>4. RowEffect
      BY <2>2, <2>3 DEF RowEffect, OutboxTypes
    <2> QED BY <2>2, <2>4 DEF Effects, ClaimEffect, ReleaseEffect, StatusEffect
  <1>7. CASE MarkPaid(c)
    <2>1. PICK p \in Orders : /\ p = consumer[c].msg.order
                              /\ consumer[c].msg = Msg("payment.settled", p)
      BY <1>7, HandlerKnows DEF MarkPaid
    <2>2. /\ SetStatus(p, "PAID")
          /\ UNCHANGED <<outbox, processed, released>>
      BY <1>7, <2>1 DEF MarkPaid
    <2>3. consumer[c].msg \in processed
      BY <1>7 DEF MarkPaid, OnceInv, Exclusive, PastKey
    <2>4. Announced(p, "PAID")'
      BY <2>1, <2>2, <2>3 DEF Announced
    <2>5. StatusEffect
      BY <2>2, <2>4 DEF StatusEffect, Statuses
    <2> QED BY <2>2, <2>5 DEF Effects, RowEffect, ClaimEffect, ReleaseEffect
  <1> QED
    BY <1>1, <1>2, <1>3, <1>4, <1>5, <1>6, <1>7 DEF ConsumerStep

LEMMA EffectNext ==
  ASSUME TypeOK, WellFormed, OnceInv, CauseInv, Next
  PROVE  Effects
  <1> USE DEF orderVars, stockVars, brokerVars, cacheVars, restVars
  <1>1. ASSUME \/ \E r \in Requests, op \in Commands, o \in Orders \cup {NoOrder},
                     k \in Keys \cup {NoKey} : Receive(r, op, o, k)
               \/ \E m \in Messages : Publish(m) \/ PublishUnmarked(m) \/ GiveUp(m)
               \/ \E o \in Orders : Settle(o)
               \/ \E slots \in SUBSET Consumers : WorkerDies(slots)
        PROVE  UNCHANGED <<outbox, processed, released, status>>
    BY <1>1 DEF Receive, Publish, PublishUnmarked, GiveUp, Settle, WorkerDies
  <1> QED
    BY <1>1, EffectQuiet, EffectRequest, EffectConsumer DEF Next

\* Rows, keys and releases are never taken back.
Grows ==
    /\ \A t \in OutboxTypes, o \in Orders : Has(t, o) => outbox'[t][o] > 0
    /\ processed \subseteq processed'

\* The only row that can be new, and what it follows from.
LEMMA RowsGrow ==
  ASSUME TypeOK, Effects
  PROVE  /\ Grows
         /\ \A t \in OutboxTypes, o \in Orders :
               outbox'[t][o] > 0 => Has(t, o) \/ RowCause(t, o)
  <1>1. CASE UNCHANGED outbox
    BY <1>1 DEF Effects, ClaimEffect, Grows, Has
  <1>2. ASSUME NEW u \in OutboxTypes, NEW p \in Orders, Emit(u, p), RowCause(u, p)
        PROVE  /\ Grows
               /\ \A t \in OutboxTypes, o \in Orders :
                     outbox'[t][o] > 0 => Has(t, o) \/ RowCause(t, o)
    <2>1. /\ \A t \in OutboxTypes, o \in Orders :
                t # u \/ o # p => outbox'[t][o] = outbox[t][o]
          /\ outbox'[u][p] = outbox[u][p] + 1 /\ outbox[u][p] \in Nat
      BY <1>2, EmitOthers DEF TypeOK, OrdersTyped
    <2>2. processed \subseteq processed'
      BY DEF Effects, ClaimEffect
    <2>3. \A t \in OutboxTypes, o \in Orders : Has(t, o) => outbox'[t][o] > 0
      BY <2>1 DEF Has
    <2>4. \A t \in OutboxTypes, o \in Orders :
             outbox'[t][o] > 0 => Has(t, o) \/ RowCause(t, o)
      BY <1>2, <2>1 DEF Has
    <2> QED BY <2>2, <2>3, <2>4 DEF Grows
  <1> QED BY <1>1, <1>2 DEF Effects, RowEffect

LEMMA RowNames ==
  \A t \in {"order.created", "order.cancelled", "order.confirmed",
            "stock.reserved", "payment.charge_requested", "order.shipped",
            "order.delivered"} : t \in OutboxTypes
  BY DEF OutboxTypes, ConsumedTypes

\* Every cause but that of a creation follows a creation.
LEMMA CauseFollowsCreation ==
  ASSUME CreatedFirst, CausalOrder, NEW t \in OutboxTypes, NEW o \in Orders,
         RowCause(t, o)
  PROVE  t = "order.created" \/ Has("order.created", o)
  <1>1. Settled(o) => Has("payment.charge_requested", o)
    BY DEF CausalOrder, Settled, Has
  <1>2. \A u \in OutboxTypes : Has(u, o) => Has("order.created", o)
    BY DEF CreatedFirst, Has
  <1>3. t \in {"stock.reserved", "order.cancelled"} => Has("order.created", o)
    BY DEF RowCause
  <1>4. t = "order.confirmed" => Has("stock.reserved", o)
    BY DEF RowCause
  <1>5. t = "payment.charge_requested" => Has("order.confirmed", o)
    BY DEF RowCause
  <1>6. t = "order.shipped" => Settled(o)
    BY DEF RowCause
  <1>7. t = "order.delivered" => Has("order.shipped", o)
    BY DEF RowCause
  <1> QED
    BY <1>1, <1>2, <1>3, <1>4, <1>5, <1>6, <1>7, RowNames
    DEF OutboxTypes, ConsumedTypes

LEMMA CreatedFirstKept ==
  ASSUME TypeOK, CreatedFirst, CausalOrder, Effects
  PROVE  CreatedFirst'
  <1> SUFFICES ASSUME NEW o \in Orders, NEW t \in OutboxTypes, outbox'[t][o] > 0
               PROVE  outbox'["order.created"][o] > 0
    BY DEF CreatedFirst
  <1>1. Has(t, o) \/ RowCause(t, o)
    BY RowsGrow
  <1>2. t = "order.created" \/ Has("order.created", o)
    BY <1>1, CauseFollowsCreation DEF CreatedFirst, Has
  <1> QED BY <1>2, RowsGrow, RowNames DEF Grows

LEMMA CausalOrderKept ==
  ASSUME TypeOK, CausalOrder, Effects
  PROVE  CausalOrder'
  <1> DEFINE HasNow(t, o) == outbox'[t][o] > 0
             SettledNow(o) == Msg("payment.settled", o) \in processed'
  <1>1. ASSUME NEW o \in Orders
        PROVE  /\ HasNow("stock.reserved", o) => Has("order.created", o)
               /\ HasNow("order.confirmed", o) => Has("stock.reserved", o)
               /\ HasNow("payment.charge_requested", o) => Has("order.confirmed", o)
               /\ HasNow("order.shipped", o) => Settled(o)
               /\ HasNow("order.delivered", o) => Has("order.shipped", o)
    <2>1. \A t \in OutboxTypes : HasNow(t, o) => Has(t, o) \/ RowCause(t, o)
      BY RowsGrow
    <2>2. /\ Has("stock.reserved", o) => Has("order.created", o)
          /\ Has("order.confirmed", o) => Has("stock.reserved", o)
          /\ Has("payment.charge_requested", o) => Has("order.confirmed", o)
          /\ Has("order.shipped", o) => Settled(o)
          /\ Has("order.delivered", o) => Has("order.shipped", o)
      BY DEF CausalOrder, Has, Settled
    <2>3. /\ RowCause("stock.reserved", o) => Has("order.created", o)
          /\ RowCause("order.confirmed", o) => Has("stock.reserved", o)
          /\ RowCause("payment.charge_requested", o) => Has("order.confirmed", o)
          /\ RowCause("order.shipped", o) => Settled(o)
          /\ RowCause("order.delivered", o) => Has("order.shipped", o)
      BY DEF RowCause
    <2> HIDE DEF HasNow
    <2> QED BY <2>1, <2>2, <2>3, RowNames
  <1>2. ASSUME NEW o \in Orders, SettledNow(o)
        PROVE  Has("payment.charge_requested", o)
    <2>1. CASE Settled(o)
      BY <2>1 DEF CausalOrder, Settled, Has
    <2>2. CASE ~Settled(o)
      <3>1. Caused(Msg("payment.settled", o))
        BY <1>2, <2>2 DEF Effects, ClaimEffect, Settled
      <3> QED BY <3>1 DEF Caused, Msg, Has
    <2> QED BY <2>1, <2>2
  <1>3. ASSUME NEW o \in Orders, released'[o] > 0
        PROVE  Has("stock.reserved", o) /\ Has("order.cancelled", o)
    <2>1. CASE released[o] > 0
      BY <2>1 DEF CausalOrder, Has
    <2>2. CASE ~(released[o] > 0)
      BY <1>3, <2>2 DEF Effects, ReleaseEffect, TypeOK, StockTyped
    <2> QED BY <2>1, <2>2
  <1>4. ASSUME NEW o \in Orders
        PROVE  /\ \A t \in OutboxTypes : Has(t, o) => HasNow(t, o)
               /\ Settled(o) => SettledNow(o)
    BY RowsGrow DEF Grows, Settled
  <1>5. ASSUME NEW o \in Orders
        PROVE  /\ HasNow("stock.reserved", o) => HasNow("order.created", o)
               /\ released'[o] > 0 =>
                     HasNow("stock.reserved", o) /\ HasNow("order.cancelled", o)
               /\ HasNow("order.confirmed", o) => HasNow("stock.reserved", o)
               /\ HasNow("payment.charge_requested", o) =>
                     HasNow("order.confirmed", o)
               /\ SettledNow(o) => HasNow("payment.charge_requested", o)
               /\ HasNow("order.shipped", o) => SettledNow(o)
               /\ HasNow("order.delivered", o) => HasNow("order.shipped", o)
    <2> HIDE DEF HasNow, SettledNow
    <2> QED BY <1>1, <1>2, <1>3, <1>4, RowNames
  <1> QED BY <1>5 DEF CausalOrder, Msg

\* A status that stays is announced by what stays; NONE by the absence of
\* rows, since only a creation writes the first one.
LEMMA StatusAnnouncedKept ==
  ASSUME TypeOK, CreatedFirst, CausalOrder, StatusAnnounced, Effects
  PROVE  StatusAnnounced'
  <1>1. ASSUME NEW o \in Orders, status'[o] = status[o], status[o] # "NONE"
        PROVE  Announced(o, status[o])'
    <2>1. Announced(o, status[o]) /\ status[o] \in Statuses
      BY DEF StatusAnnounced, TypeOK, OrdersTyped
    <2>2. /\ \A t \in OutboxTypes : outbox[t][o] > 0 => outbox'[t][o] > 0
          /\ processed \subseteq processed'
      BY RowsGrow DEF Grows, Has
    <2> QED BY <1>1, <2>1, <2>2, RowNames DEF Announced, Statuses
  <1>2. ASSUME NEW o \in Orders, status'[o] = "NONE", status[o] = "NONE"
        PROVE  \A t \in OutboxTypes : outbox'[t][o] = 0
    <2>1. \A t \in OutboxTypes : outbox[t][o] = 0
      BY <1>2 DEF StatusAnnounced, Announced
    <2>2. ASSUME NEW u \in OutboxTypes, NEW p \in Orders, Emit(u, p),
                 RowCause(u, p), u = "order.created" => SetStatus(p, "CREATED")
          PROVE  p # o
      <3>1. CASE u = "order.created"
        BY <1>2, <2>2, <3>1 DEF SetStatus, TypeOK, OrdersTyped
      <3>2. CASE u # "order.created"
        BY <2>1, <2>2, <3>2, CauseFollowsCreation, RowNames DEF Has
      <3> QED BY <3>1, <3>2
    <2> QED
      BY <2>1, <2>2, EmitOthers DEF Effects, RowEffect, TypeOK
  <1>3. ASSUME NEW o \in Orders PROVE Announced(o, status[o])'
    <2>1. CASE UNCHANGED status
      BY <1>1, <1>2, <2>1 DEF Announced
    <2>2. ASSUME NEW p \in Orders, NEW s \in Statuses \ {"NONE"},
                 SetStatus(p, s), Announced(p, s)'
          PROVE  Announced(o, status[o])'
      <3>1. status'[p] = s /\ (o # p => status'[o] = status[o])
        BY <2>2 DEF SetStatus, TypeOK, OrdersTyped
      <3> QED BY <1>1, <1>2, <2>2, <3>1 DEF Announced
    <2> QED BY <2>1, <2>2 DEF Effects, StatusEffect
  <1> QED BY <1>3 DEF StatusAnnounced

\* A message somebody has: on its way, put aside, claimed, or being handled.
Held(m) ==
    \/ m \in unsent \cup queue \cup parked \cup processed
    \/ \E c \in Consumers : consumer[c].phase # "idle" /\ consumer[c].msg = m

LEMMA CausedStays ==
  ASSUME TypeOK, WellFormed, MessagesCaused, Effects, NEW m, Held(m)
  PROVE  m \in Messages /\ Caused(m)'
  <1>1. m \in Messages /\ Caused(m)
    BY DEF Held, TypeOK, OrdersTyped, BrokerTyped, WellFormed,
           ConsumerWellFormed, MessagesCaused
  <1>2. \A t \in OutboxTypes, o \in Orders : outbox[t][o] > 0 => outbox'[t][o] > 0
    BY RowsGrow DEF Grows, Has
  <1> QED BY <1>1, <1>2 DEF Caused, Messages, OutboxTypes

\* The message a new row sends is caused by that row.
LEMMA EmitCauses ==
  ASSUME OrdersTyped, NEW t \in OutboxTypes, NEW o \in Orders, Emit(t, o),
         NEW m \in unsent'
  PROVE  m \in unsent \/ Caused(m)'
  <1>1. outbox'[t][o] > 0
    <2>1. outbox'[t][o] = outbox[t][o] + 1 /\ outbox[t][o] \in Nat
      BY EmitOthers DEF OrdersTyped
    <2> QED BY <2>1
  <1>2. m \in unsent \/ (t \in ConsumedTypes /\ m = Msg(t, o))
    BY DEF Emit
  <1>3. t \in ConsumedTypes /\ m = Msg(t, o) => Caused(m)'
    BY <1>1 DEF Caused, Msg, ConsumedTypes
  <1> QED BY <1>2, <1>3

\* What a step of a request or a consumer writes to the outbox.
LEMMA SenderEmits ==
  ASSUME TypeOK, WellFormed,
         \/ \E r \in Requests : RequestStep(r) \/ RequestFails(r)
         \/ \E c \in Consumers : ConsumerStep(c)
  PROVE  \/ UNCHANGED <<outbox, unsent>>
         \/ \E t \in OutboxTypes, o \in Orders : Emit(t, o)
  <1> USE DEF orderVars
  <1>1. ASSUME NEW r \in Requests, RequestStep(r) \/ RequestFails(r)
        PROVE  \/ UNCHANGED <<outbox, unsent>>
               \/ \E t \in OutboxTypes, o \in Orders : Emit(t, o)
    <2>1. ASSUME NEW op \in {"confirm", "cancel", "ship", "deliver"}, Ready(r, op)
          PROVE  request[r].order \in Orders
      BY <2>1 DEF WellFormed, RequestWellFormed, Ready
    <2> QED
      BY <1>1, <2>1, RowNames
      DEF RequestStep, RequestFails, ReadOrder, RefuseOrder, CreateOrder,
          ConfirmOrder, CancelOrder, ShipOrder, DeliverOrder, Move, Answer
  <1>2. ASSUME NEW c \in Consumers, ConsumerStep(c)
        PROVE  \/ UNCHANGED <<outbox, unsent>>
               \/ \E t \in OutboxTypes, o \in Orders : Emit(t, o)
    <2>1. consumer[c].phase # "idle" => consumer[c].msg.order \in Orders
      BY DEF WellFormed, ConsumerWellFormed, Messages
    <2> QED
      BY <1>2, <2>1, RowNames
      DEF ConsumerStep, Claim, SkipDuplicate, FetchCreated, FetchCancelled,
          FetchConfirmed, SkipWrongStatus, SkuSuffices, SkuShort, Reserve,
          CancelShort, Release, CancelOnly, RequestCharge, MarkPaid, Ack, Handles
  <1> QED BY <1>1, <1>2

\* What a step of a consumer does to the consumers' records: its own turns
\* idle, or goes on with its message; the others stay as they are.
LEMMA ConsumerMoves ==
  ASSUME TypeOK, NEW c \in Consumers, ConsumerStep(c) \/ HandlerFails(c)
  PROVE  /\ \A d \in Consumers \ {c} : consumer'[d] = consumer[d]
         /\ consumer[c].phase # "idle"
         /\ \/ consumer'[c] = IdleConsumer
            \/ consumer'[c].msg = consumer[c].msg /\ consumer'[c].phase # "idle"
  <1> USE DEF Handles, NeedsConfirmed, Done, TypeOK, ConsumerRecord
  <1>1. CASE SkipDuplicate(c) \/ Ack(c) \/ HandlerFails(c)
    BY <1>1 DEF SkipDuplicate, Ack, HandlerFails
  <1>2. CASE Claim(c) \/ FetchCreated(c) \/ FetchCancelled(c) \/ FetchConfirmed(c)
             \/ SkipWrongStatus(c)
    BY <1>2
    DEF Claim, FetchCreated, FetchCancelled, FetchConfirmed, SkipWrongStatus
  <1>3. CASE \E s \in Skus : SkuSuffices(c, s) \/ SkuShort(c, s)
    BY <1>3 DEF SkuSuffices, SkuShort
  <1>4. CASE \/ Reserve(c) \/ CancelShort(c) \/ Release(c) \/ CancelOnly(c)
             \/ RequestCharge(c) \/ MarkPaid(c)
    BY <1>4
    DEF Reserve, CancelShort, Release, CancelOnly, RequestCharge, MarkPaid
  <1> QED BY <1>1, <1>2, <1>3, <1>4 DEF ConsumerStep

\* A step of a consumer takes nothing from the broker or the outbox; it may
\* claim its message or, failing, park it.
LEMMA ConsumerKeepsMessages ==
  ASSUME NEW c \in Consumers, ConsumerStep(c) \/ HandlerFails(c)
  PROVE  /\ queue' = queue
         /\ unsent \subseteq unsent'
         /\ HandlerFails(c) => UNCHANGED <<outbox, unsent>>
         /\ parked' = parked \/ parked' = parked \cup {consumer[c].msg}
         /\ processed' = processed \/ processed' = processed \cup {consumer[c].msg}
  <1> USE DEF orderVars, brokerVars
  <1>1. CASE HandlerFails(c)
    BY <1>1 DEF HandlerFails
  <1>2. CASE ConsumerStep(c) /\ ~HandlerFails(c)
    BY <1>2
    DEF ConsumerStep, Claim, SkipDuplicate, FetchCreated, FetchCancelled,
        FetchConfirmed, SkipWrongStatus, SkuSuffices, SkuShort, Reserve,
        CancelShort, Release, CancelOnly, RequestCharge, MarkPaid, Ack, Emit
  <1> QED BY <1>1, <1>2

LEMMA MessagesCausedKept ==
  ASSUME TypeOK, WellFormed, OnceInv, CauseInv, Next
  PROVE  MessagesCaused'
  <1> USE DEF orderVars, brokerVars, cacheVars, restVars, apiVars
  <1>0. TypeOK /\ WellFormed /\ MessagesCaused /\ Effects
    BY EffectNext DEF CauseInv
  <1>1. \A m : Held(m) => Caused(m)'
    BY <1>0, CausedStays
  <1>2. \A m \in unsent \cup queue \cup parked \cup processed : Held(m)
    BY DEF Held
  <1>3. \A c \in Consumers : consumer[c].phase # "idle" => Held(consumer[c].msg)
    BY DEF Held
  <1> SUFFICES
        /\ \A m \in unsent' \cup queue' \cup parked' \cup processed' :
              Held(m) \/ Caused(m)'
        /\ \A c \in Consumers :
              consumer'[c].phase # "idle" => Held(consumer'[c].msg)
    <2> DEFINE CausedNow(m) ==
          IF m.type = "payment.settled"
          THEN outbox'["payment.charge_requested"][m.order] > 0
          ELSE outbox'[m.type][m.order] > 0
    <2>1. \A m : Caused(m)' <=> CausedNow(m)
      BY DEF Caused
    <2>2. \A m : Held(m) => CausedNow(m)
      BY <1>1, <2>1
    <2>3. \A m \in unsent' \cup queue' \cup parked' \cup processed' : CausedNow(m)
      BY <2>1, <2>2
    <2>4. \A c \in Consumers :
             consumer'[c].phase # "idle" => CausedNow(consumer'[c].msg)
      BY <2>2
    <2> QED BY <2>3, <2>4 DEF MessagesCaused, Caused
  <1>4. CASE \E r \in Requests : RequestStep(r) \/ RequestFails(r)
    <2>1. UNCHANGED <<queue, parked, processed, consumer>>
      BY <1>4
      DEF RequestStep, RequestFails, ReadOrder, RefuseOrder, CreateOrder,
          ConfirmOrder, CancelOrder, ShipOrder, DeliverOrder, Move, Answer
    <2>2. \A m \in unsent' : m \in unsent \/ Caused(m)'
      BY <1>0, <1>4, SenderEmits, EmitCauses DEF TypeOK
    <2> QED BY <1>2, <1>3, <2>1, <2>2
  <1>5. CASE \E r \in Requests, op \in Commands, o \in Orders \cup {NoOrder},
                k \in Keys \cup {NoKey} : Receive(r, op, o, k)
    <2>1. UNCHANGED <<unsent, queue, parked, processed, consumer>>
      BY <1>5 DEF Receive
    <2> QED BY <1>2, <1>3, <2>1
  <1>6. CASE \E m \in Messages : Publish(m) \/ PublishUnmarked(m) \/ GiveUp(m)
    <2>1. /\ unsent' \subseteq unsent /\ queue' \subseteq queue \cup unsent
          /\ parked' \subseteq parked \cup unsent
          /\ UNCHANGED <<processed, consumer>>
      BY <1>6 DEF Publish, PublishUnmarked, GiveUp
    <2> QED BY <1>2, <1>3, <2>1
  <1>7. ASSUME NEW o \in Orders, Settle(o)
        PROVE  /\ \A m \in unsent' \cup queue' \cup parked' \cup processed' :
                     Held(m) \/ Caused(m)'
               /\ \A c \in Consumers :
                     consumer'[c].phase # "idle" => Held(consumer'[c].msg)
    <2>1. /\ queue' = queue \cup {Msg("payment.settled", o)}
          /\ outbox'["payment.charge_requested"][o] > 0
          /\ UNCHANGED <<unsent, parked, processed, consumer>>
      BY <1>7 DEF Settle
    <2>2. Caused(Msg("payment.settled", o))'
      BY <2>1 DEF Caused, Msg
    <2>3. \A m \in queue' : m \in queue \/ Caused(m)'
      BY <2>1, <2>2
    <2> QED BY <1>2, <1>3, <2>1, <2>3
  <1>8. ASSUME NEW c \in Consumers, ConsumerStep(c) \/ HandlerFails(c)
        PROVE  /\ \A m \in unsent' \cup queue' \cup parked' \cup processed' :
                     Held(m) \/ Caused(m)'
               /\ \A d \in Consumers :
                     consumer'[d].phase # "idle" => Held(consumer'[d].msg)
    <2>1. \A m \in unsent' : m \in unsent \/ Caused(m)'
      BY <1>0, <1>8, SenderEmits, EmitCauses, ConsumerKeepsMessages DEF TypeOK
    <2>2. \A m \in queue' \cup parked' \cup processed' :
             m \in queue \cup parked \cup processed \/ m = consumer[c].msg
      BY <1>8, ConsumerKeepsMessages
    <2>3. consumer[c].phase # "idle"
      BY <1>8, ConsumerMoves
    <2>4. \A d \in Consumers :
             consumer'[d].phase # "idle" => Held(consumer'[d].msg)
      BY <1>3, <1>8, ConsumerMoves DEF IdleConsumer
    <2> QED BY <1>2, <1>3, <2>1, <2>2, <2>3, <2>4
  <1>9. ASSUME NEW c \in Consumers, NEW n \in Messages, Deliver(c, n)
        PROVE  /\ \A m \in unsent' \cup queue' \cup parked' \cup processed' :
                     Held(m) \/ Caused(m)'
               /\ \A d \in Consumers :
                     consumer'[d].phase # "idle" => Held(consumer'[d].msg)
    <2>1. /\ queue' \subseteq queue /\ n \in queue
          /\ UNCHANGED <<unsent, parked, processed>>
      BY <1>9 DEF Deliver
    <2>2. \A d \in Consumers : consumer'[d] = consumer[d] \/ consumer'[d].msg = n
      BY <1>9 DEF Deliver, TypeOK
    <2> QED BY <1>2, <1>3, <2>1, <2>2
  <1>10. ASSUME NEW slots \in SUBSET Consumers, WorkerDies(slots)
         PROVE  /\ \A m \in unsent' \cup queue' \cup parked' \cup processed' :
                      Held(m) \/ Caused(m)'
                /\ \A d \in Consumers :
                      consumer'[d].phase # "idle" => Held(consumer'[d].msg)
    <2>1. /\ queue' = queue \cup {consumer[c].msg : c \in slots}
          /\ \A c \in slots : consumer[c].phase # "idle"
          /\ \A d \in Consumers :
                consumer'[d] = consumer[d] \/ consumer'[d] = IdleConsumer
          /\ UNCHANGED <<unsent, parked, processed>>
      BY <1>10 DEF WorkerDies, Busy, Idled
    <2>2. \A m \in queue' : Held(m)
      BY <1>2, <1>3, <2>1
    <2>3. \A d \in Consumers :
             consumer'[d].phase # "idle" => Held(consumer'[d].msg)
      BY <1>3, <2>1 DEF IdleConsumer
    <2> QED BY <1>2, <2>1, <2>2, <2>3
  <1> QED
    BY <1>4, <1>5, <1>6, <1>7, <1>8, <1>9, <1>10 DEF Next

\* What a request's record proves, and what a consumer's does.
RequestProves(q) ==
    /\ q.phase \in {"received", "read"} /\ q.op # "create" =>
          Has("order.created", q.order)
    /\ q.phase = "read" /\ q.op = "confirm" => Has("stock.reserved", q.order)
    /\ q.phase = "read" /\ q.op = "ship" => Settled(q.order)
    /\ q.phase = "read" /\ q.op = "deliver" => Has("order.shipped", q.order)
ConsumerProves(w) ==
    w.phase = "fetched" /\ w.msg.type = "order.cancelled" /\ w.seen = "RESERVED"
      => Has("stock.reserved", w.msg.order)

LEMMA ReadsProveIs ==
  ReadsProve <=> /\ \A r \in Requests : RequestProves(request[r])
                 /\ \A c \in Consumers : ConsumerProves(consumer[c])
  BY DEF ReadsProve, RequestProves, ConsumerProves, Has, Settled, Handles

\* A record a step makes that proves what it should in the state before.
LEMMA RequestRecords ==
  ASSUME TypeOK, WellFormed, CauseInv, Next, NEW r \in Requests
  PROVE  RequestProves(request'[r]) /\ RequestWellFormed(request'[r])
  <1> USE DEF restVars, apiVars
  <1>0. /\ \A x \in Requests : RequestProves(request[x])
        /\ \A x \in Requests : RequestWellFormed(request[x])
        /\ \A x \in Requests : request[x] \in RequestRecord
        /\ request \in [Requests -> RequestRecord]
    BY ReadsProveIs DEF CauseInv, WellFormed, TypeOK
  <1>1. RequestProves(IdleRequest)
    BY DEF RequestProves, IdleRequest
  <1>2. ASSUME NEW x \in Requests, RequestStep(x) \/ RequestFails(x)
        PROVE  RequestProves(request'[r])
    <2>1. CASE RefuseOrder(x) \/ Answer(x) \/ RequestFails(x)
      BY <1>0, <1>1, <2>1 DEF RefuseOrder, Answer, RequestFails
    <2>2. CASE request'[r] = request[r]
      BY <1>0, <2>2
    <2>3. ASSUME NEW o \in Orders, Committed(x, o) PROVE RequestProves(request'[r])
      <3>1. request'[r] = request[r] \/ request'[r].phase = "committed"
        BY <1>0, <2>3 DEF Committed, RequestRecord
      <3> QED BY <1>0, <3>1 DEF RequestProves
    <2>4. CASE ReadOrder(x)
      <3>1. /\ request[x].phase = "received" /\ request[x].op # "create"
            /\ status[request[x].order] \in Accepts(request[x].op)
            /\ request[x].order \in Orders
            /\ request' = [request EXCEPT ![x].phase = "read"]
        BY <1>0, <2>4 DEF ReadOrder, RequestWellFormed
      <3>2. r # x => request'[r] = request[r]
        BY <1>0, <3>1
      <3>3. /\ request'[x].op = request[x].op
            /\ request'[x].order = request[x].order
        BY <1>0, <3>1 DEF RequestRecord
      <3>4. Announced(request[x].order, status[request[x].order])
        BY <3>1 DEF CauseInv, StatusAnnounced
      <3>5. /\ request[x].op = "confirm" => Has("stock.reserved", request[x].order)
            /\ request[x].op = "ship" => Settled(request[x].order)
            /\ request[x].op = "deliver" => Has("order.shipped", request[x].order)
        BY <3>1, <3>4 DEF Accepts, Announced, Has, Settled
      <3>6. Has("order.created", request[x].order)
        BY <1>0, <3>1 DEF RequestProves
      <3> QED BY <2>2, <3>2, <3>3, <3>5, <3>6 DEF RequestProves
    <2>5. ASSUME NEW op \in {"confirm", "cancel", "ship", "deliver"}, Ready(x, op)
          PROVE  request[x].order \in Orders
      BY <1>0, <2>5 DEF RequestWellFormed, Ready
    <2>6. CASE \/ \E o \in Orders : CreateOrder(x, o)
               \/ ConfirmOrder(x) \/ CancelOrder(x) \/ ShipOrder(x) \/ DeliverOrder(x)
      <3>1. PICK o \in Orders : Committed(x, o)
        BY <2>5, <2>6
        DEF CreateOrder, ConfirmOrder, CancelOrder, ShipOrder, DeliverOrder, Move
      <3> QED BY <2>3, <3>1
    <2> QED BY <1>2, <2>1, <2>4, <2>6 DEF RequestStep
  <1>3. ASSUME NEW x \in Requests, NEW op \in Commands,
               NEW o \in Orders \cup {NoOrder}, NEW k \in Keys \cup {NoKey},
               Receive(x, op, o, k)
        PROVE  RequestProves(request'[r])
    <2> DEFINE q == [phase |-> "received", op |-> op, order |-> o, key |-> k]
    <2>1. op # "create" => o \in Orders /\ status[o] # "NONE"
      BY <1>3 DEF Receive
    <2>2. op # "create" => Has("order.created", o)
      <3> SUFFICES ASSUME o \in Orders, status[o] # "NONE"
                   PROVE  Has("order.created", o)
        BY <2>1
      <3>1. Announced(o, status[o]) /\ status[o] \in Statuses
        BY DEF CauseInv, StatusAnnounced, TypeOK, OrdersTyped
      <3>2. (\E t \in OutboxTypes : Has(t, o)) \/ Settled(o)
        BY <3>1, RowNames DEF Announced, Statuses, Has, Settled
      <3>3. Settled(o) => Has("payment.charge_requested", o)
        BY DEF CauseInv, CausalOrder, Settled, Has
      <3> QED BY <3>2, <3>3, RowNames DEF CauseInv, CreatedFirst, Has
    <2>3. RequestProves(q)
      BY <2>2 DEF RequestProves
    <2>4. request' = [request EXCEPT ![x] = q]
      BY <1>3 DEF Receive
    <2> HIDE DEF q
    <2> QED BY <1>0, <2>3, <2>4
  <1>4. CASE UNCHANGED request
    BY <1>0, <1>4
  <1>5. ASSUME NEW c \in Consumers,
               \/ ConsumerStep(c) \/ HandlerFails(c)
               \/ \E m \in Messages : Deliver(c, m)
        PROVE  UNCHANGED request
    BY <1>5
    DEF ConsumerStep, HandlerFails, Deliver, Claim, SkipDuplicate, FetchCreated,
        FetchCancelled, FetchConfirmed, SkipWrongStatus, SkuSuffices, SkuShort,
        Reserve, CancelShort, Release, CancelOnly, RequestCharge, MarkPaid, Ack
  <1>6. ASSUME \/ \E m \in Messages : Publish(m) \/ PublishUnmarked(m) \/ GiveUp(m)
               \/ \E o \in Orders : Settle(o)
               \/ \E slots \in SUBSET Consumers : WorkerDies(slots)
        PROVE  UNCHANGED request
    BY <1>6 DEF Publish, PublishUnmarked, GiveUp, Settle, WorkerDies
  <1>7. RequestProves(request'[r])
    BY <1>2, <1>3, <1>4, <1>5, <1>6 DEF Next
  <1>8. RequestWellFormed(request'[r])
    BY TypeStep DEF WellFormed
  <1> QED BY <1>7, <1>8

LEMMA ConsumerRecords ==
  ASSUME TypeOK, WellFormed, CauseInv, Next, NEW d \in Consumers
  PROVE  ConsumerProves(consumer'[d])
  <1> USE DEF restVars, apiVars
  <1>0. /\ \A x \in Consumers : ConsumerProves(consumer[x])
        /\ consumer \in [Consumers -> ConsumerRecord]
    BY ReadsProveIs DEF CauseInv, TypeOK
  <1>1. ConsumerProves(IdleConsumer)
    BY DEF ConsumerProves, IdleConsumer
  <1>2. CASE consumer'[d] = consumer[d] \/ consumer'[d].phase # "fetched"
    BY <1>0, <1>2 DEF ConsumerProves
  <1>3. ASSUME \/ \E r \in Requests : RequestStep(r) \/ RequestFails(r)
               \/ \E r \in Requests, op \in Commands, o \in Orders \cup {NoOrder},
                     k \in Keys \cup {NoKey} : Receive(r, op, o, k)
               \/ \E m \in Messages : Publish(m) \/ PublishUnmarked(m) \/ GiveUp(m)
               \/ \E o \in Orders : Settle(o)
        PROVE  UNCHANGED consumer
    BY <1>3
    DEF RequestStep, RequestFails, ReadOrder, RefuseOrder, CreateOrder,
        ConfirmOrder, CancelOrder, ShipOrder, DeliverOrder, Move, Answer,
        Receive, Publish, PublishUnmarked, GiveUp, Settle
  <1>4. ASSUME NEW slots \in SUBSET Consumers, WorkerDies(slots)
        PROVE  consumer'[d] = consumer[d] \/ consumer'[d] = IdleConsumer
    BY <1>4 DEF WorkerDies, Idled
  <1>5. ASSUME NEW c \in Consumers, NEW m \in Messages, Deliver(c, m)
        PROVE  consumer'[d] = consumer[d] \/ consumer'[d].phase # "fetched"
    BY <1>0, <1>5 DEF Deliver
  <1>6. ASSUME NEW c \in Consumers, ConsumerStep(c) \/ HandlerFails(c)
        PROVE  ConsumerProves(consumer'[d])
    <2>1. CASE d # c
      BY <1>2, <1>6, <2>1, ConsumerMoves
    <2> SUFFICES ASSUME d = c PROVE ConsumerProves(consumer'[c])
      BY <2>1
    <2> USE DEF Handles, NeedsConfirmed, Done, ConsumerRecord
    <2>2. CASE SkipDuplicate(c) \/ Ack(c) \/ HandlerFails(c)
      BY <1>0, <1>1, <2>2 DEF SkipDuplicate, Ack, HandlerFails
    <2>3. CASE \/ Claim(c) \/ SkipWrongStatus(c)
               \/ \E s \in Skus : SkuShort(c, s)
               \/ Reserve(c) \/ CancelShort(c) \/ Release(c) \/ CancelOnly(c)
               \/ RequestCharge(c) \/ MarkPaid(c)
      <3>1. consumer'[c].phase # "fetched"
        BY <1>0, <2>3
        DEF Claim, SkipWrongStatus, SkuShort, Reserve, CancelShort, Release,
            CancelOnly, RequestCharge, MarkPaid
      <3> QED BY <3>1 DEF ConsumerProves
    <2>4. CASE \/ FetchCreated(c) \/ FetchConfirmed(c)
               \/ \E s \in Skus : SkuSuffices(c, s)
      <3>1. consumer'[c].msg.type # "order.cancelled"
        BY <1>0, <2>4 DEF FetchCreated, FetchConfirmed, SkuSuffices
      <3> QED BY <3>1 DEF ConsumerProves
    <2>5. CASE FetchCancelled(c)
      <3>1. /\ consumer'[c].seen = status[consumer[c].msg.order]
            /\ consumer'[c].msg = consumer[c].msg
            /\ consumer[c].phase # "idle"
        BY <1>0, <2>5 DEF FetchCancelled
      <3>2. consumer[c].msg.order \in Orders
        BY <3>1, HandlerKnows
      <3>3. status[consumer[c].msg.order] = "RESERVED" =>
               Has("stock.reserved", consumer[c].msg.order)
        BY <3>2 DEF CauseInv, StatusAnnounced, Announced, Has
      <3> QED BY <3>1, <3>3 DEF ConsumerProves
    <2> QED BY <1>6, <2>2, <2>3, <2>4, <2>5 DEF ConsumerStep
  <1> QED
    BY <1>1, <1>2, <1>3, <1>4, <1>5, <1>6 DEF Next

LEMMA ReadsProveKept ==
  ASSUME TypeOK, WellFormed, OnceInv, CauseInv, Next
  PROVE  ReadsProve'
  <1>1. /\ \A t \in OutboxTypes, o \in Orders : Has(t, o) => outbox'[t][o] > 0
        /\ processed \subseteq processed'
    BY EffectNext, RowsGrow DEF Grows
  <1>2. ASSUME NEW r \in Requests
        PROVE  LET q == request'[r] IN
               /\ q.phase \in {"received", "read"} /\ q.op # "create" =>
                     outbox'["order.created"][q.order] > 0
               /\ q.phase = "read" /\ q.op = "confirm" =>
                     outbox'["stock.reserved"][q.order] > 0
               /\ q.phase = "read" /\ q.op = "ship" =>
                     Msg("payment.settled", q.order) \in processed'
               /\ q.phase = "read" /\ q.op = "deliver" =>
                     outbox'["order.shipped"][q.order] > 0
    <2> DEFINE q == request'[r]
    <2>1. RequestProves(q) /\ RequestWellFormed(q)
      BY RequestRecords
    <2>2. q.phase \in {"received", "read"} /\ q.op # "create" => q.order \in Orders
      BY <2>1 DEF RequestWellFormed
    <2> HIDE DEF q
    <2> SUFFICES
          /\ q.phase \in {"received", "read"} /\ q.op # "create" =>
                outbox'["order.created"][q.order] > 0
          /\ q.phase = "read" /\ q.op = "confirm" =>
                outbox'["stock.reserved"][q.order] > 0
          /\ q.phase = "read" /\ q.op = "ship" =>
                Msg("payment.settled", q.order) \in processed'
          /\ q.phase = "read" /\ q.op = "deliver" =>
                outbox'["order.shipped"][q.order] > 0
      BY DEF q
    <2> QED BY <1>1, <2>1, <2>2, RowNames DEF RequestProves, Settled
  <1>3. ASSUME NEW c \in Consumers, consumer'[c].phase = "fetched",
               consumer'[c].msg.type = "order.cancelled",
               consumer'[c].seen = "RESERVED"
        PROVE  outbox'["stock.reserved"][consumer'[c].msg.order] > 0
    <2>1. Has("stock.reserved", consumer'[c].msg.order)
      BY <1>3, ConsumerRecords DEF ConsumerProves
    <2>2. consumer'[c].msg.order \in Orders
      BY <1>3, TypeStep DEF WellFormed, ConsumerWellFormed, Messages
    <2> QED BY <1>1, <2>1, <2>2, RowNames
  <1> QED BY <1>2, <1>3 DEF ReadsProve, Handles, Msg

-----------------------------------------------------------------------------
(* Nothing vanishes.  A message leaves a place only for another one; a       *)
(* consumer drops what it holds only once the key says somebody claimed it.  *)

Kept(m) ==
    \/ m \in unsent \cup queue \cup parked \cup processed
    \/ \E c \in Consumers : consumer[c].msg = m

LEMMA KeptStays ==
  ASSUME TypeOK, WellFormed, OnceInv, Next, NEW m \in Messages, Kept(m)
  PROVE  Kept(m)'
  <1> USE DEF orderVars, brokerVars, cacheVars, restVars, apiVars
  <1>0. Kept(m)' <=> \/ m \in unsent' \cup queue' \cup parked' \cup processed'
                     \/ \E c \in Consumers : consumer'[c].msg = m
    BY DEF Kept
  <1>1. m # NoMessage /\ IdleConsumer.msg = NoMessage
    BY DEF Messages, ConsumedTypes, NoMessage, IdleConsumer
  <1>2. CASE \E r \in Requests : RequestStep(r) \/ RequestFails(r)
    <2>1. UNCHANGED <<queue, parked, processed, consumer>>
      BY <1>2
      DEF RequestStep, RequestFails, ReadOrder, RefuseOrder, CreateOrder,
          ConfirmOrder, CancelOrder, ShipOrder, DeliverOrder, Move, Answer
    <2>2. unsent \subseteq unsent'
      BY <1>2, SenderEmits DEF Emit
    <2> QED BY <1>0, <2>1, <2>2 DEF Kept
  <1>3. CASE \E r \in Requests, op \in Commands, o \in Orders \cup {NoOrder},
                k \in Keys \cup {NoKey} : Receive(r, op, o, k)
    <2>1. UNCHANGED <<unsent, queue, parked, processed, consumer>>
      BY <1>3 DEF Receive
    <2> QED BY <1>0, <2>1 DEF Kept
  <1>4. CASE \/ \E n \in Messages : Publish(n) \/ PublishUnmarked(n) \/ GiveUp(n)
             \/ \E o \in Orders : Settle(o)
    <2>1. /\ unsent \subseteq unsent' \cup queue' \cup parked'
          /\ queue \subseteq queue' /\ parked \subseteq parked'
          /\ UNCHANGED <<processed, consumer>>
      BY <1>4 DEF Publish, PublishUnmarked, GiveUp, Settle
    <2> QED BY <1>0, <2>1 DEF Kept
  <1>5. ASSUME NEW c \in Consumers, NEW n \in Messages, Deliver(c, n)
        PROVE  Kept(m)'
    <2>1. /\ queue \subseteq queue' \cup {n} /\ consumer'[c].msg = n
          /\ \A d \in Consumers \ {c} : consumer'[d] = consumer[d]
          /\ UNCHANGED <<unsent, parked, processed>>
      BY <1>5 DEF Deliver, TypeOK
    <2>2. consumer[c].msg # m
      BY <1>1, <1>5 DEF Deliver, WellFormed, ConsumerWellFormed
    <2> QED BY <1>0, <2>1, <2>2 DEF Kept
  <1>6. ASSUME NEW c \in Consumers, ConsumerStep(c) \/ HandlerFails(c)
        PROVE  Kept(m)'
    <2>1. /\ queue' = queue /\ unsent \subseteq unsent'
          /\ parked \subseteq parked' /\ processed \subseteq processed'
          /\ \A d \in Consumers \ {c} : consumer'[d] = consumer[d]
      BY <1>6, ConsumerKeepsMessages, ConsumerMoves
    <2>2. CASE consumer[c].msg # m
      BY <1>0, <2>1, <2>2 DEF Kept
    <2>3. CASE consumer[c].msg = m /\ (SkipDuplicate(c) \/ Ack(c))
      <3>1. m \in processed
        BY <2>3 DEF SkipDuplicate, Ack, OnceInv, Exclusive, PastKey
      <3> QED BY <1>0, <2>1, <3>1
    <2>4. CASE consumer[c].msg = m /\ HandlerFails(c)
      BY <1>0, <2>4 DEF HandlerFails
    <2>5. CASE consumer[c].msg = m /\ consumer'[c].msg = m
      BY <1>0, <2>5
    <2>6. consumer'[c] = IdleConsumer => SkipDuplicate(c) \/ Ack(c) \/ HandlerFails(c)
      <3> USE DEF Handles, NeedsConfirmed, Done, TypeOK, ConsumerRecord, IdleConsumer
      <3>1. CASE Claim(c) \/ FetchCreated(c) \/ FetchCancelled(c)
                 \/ FetchConfirmed(c) \/ SkipWrongStatus(c)
        BY <3>1
        DEF Claim, FetchCreated, FetchCancelled, FetchConfirmed, SkipWrongStatus
      <3>2. CASE \E s \in Skus : SkuSuffices(c, s) \/ SkuShort(c, s)
        BY <3>2 DEF SkuSuffices, SkuShort
      <3>3. CASE \/ Reserve(c) \/ CancelShort(c) \/ Release(c) \/ CancelOnly(c)
                 \/ RequestCharge(c) \/ MarkPaid(c)
        <4> HIDE DEF Done
        <4>1. Done(c)
          BY <3>3
          DEF Reserve, CancelShort, Release, CancelOnly, RequestCharge, MarkPaid
        <4> QED BY <4>1 DEF Done
      <3> QED BY <1>6, <3>1, <3>2, <3>3 DEF ConsumerStep
    <2> QED BY <1>6, <2>2, <2>3, <2>4, <2>5, <2>6, ConsumerMoves
  <1>7. ASSUME NEW slots \in SUBSET Consumers, WorkerDies(slots)
        PROVE  Kept(m)'
    <2>1. /\ queue' = queue \cup {consumer[c].msg : c \in slots}
          /\ \A d \in Consumers \ slots : consumer'[d] = consumer[d]
          /\ UNCHANGED <<unsent, parked, processed>>
      BY <1>7 DEF WorkerDies, Idled
    <2> QED BY <1>0, <2>1 DEF Kept
  <1> QED
    BY <1>2, <1>3, <1>4, <1>5, <1>6, <1>7 DEF Next

LEMMA NothingVanishesKept ==
  ASSUME TypeOK, WellFormed, OnceInv, CauseInv, NothingVanishes, Next
  PROVE  NothingVanishes'
  <1> SUFFICES ASSUME NEW o \in Orders, NEW t \in ConsumedTypes, outbox'[t][o] > 0
               PROVE  Kept(Msg(t, o))'
    BY DEF NothingVanishes, Kept, Msg
  <1>1. Msg(t, o) \in Messages /\ t \in OutboxTypes
    BY DEF Messages, Msg, OutboxTypes
  <1>2. CASE Has(t, o)
    <2>1. Kept(Msg(t, o))
      BY <1>2 DEF NothingVanishes, Kept, Has
    <2> QED BY <1>1, <2>1, KeptStays
  <1>3. CASE ~Has(t, o)
    <2>1. PICK u \in OutboxTypes, p \in Orders : Emit(u, p)
      BY <1>3, EffectNext DEF Effects, RowEffect, Has
    <2>2. u = t /\ p = o
      BY <1>1, <1>3, <2>1, EmitOthers DEF Has, TypeOK
    <2>3. Msg(t, o) \in unsent'
      BY <2>1, <2>2 DEF Emit
    <2> QED BY <2>3 DEF Kept, Msg
  <1> QED BY <1>2, <1>3

-----------------------------------------------------------------------------
(* The inductive invariant as a whole.                                       *)

LEMMA CauseInit == Init => CauseInv /\ NothingVanishes
  <1> SUFFICES ASSUME Init PROVE CauseInv /\ NothingVanishes
    OBVIOUS
  <1>1. \A t \in OutboxTypes, o \in Orders : outbox[t][o] = 0
    BY DEF Init
  <1>2. \A t \in OutboxTypes, o \in Orders : ~(outbox[t][o] > 0)
    BY <1>1
  <1>3. MessagesCaused /\ ReadsProve
    BY DEF Init, MessagesCaused, ReadsProve, IdleRequest, IdleConsumer, Handles
  <1>4. CreatedFirst
    BY <1>2 DEF CreatedFirst
  <1>5. \A o \in Orders : released[o] = 0 /\ Msg("payment.settled", o) \notin processed
    BY DEF Init
  <1>6. CausalOrder
    BY <1>2, <1>5, RowNames DEF CausalOrder
  <1>7. StatusAnnounced
    BY <1>1 DEF Init, StatusAnnounced, Announced
  <1>8. NothingVanishes
    BY <1>2 DEF NothingVanishes, OutboxTypes
  <1> QED BY <1>3, <1>4, <1>6, <1>7, <1>8 DEF CauseInv

LEMMA SagaStep == SagaInv /\ [Next]_vars => SagaInv'
  <1> SUFFICES ASSUME SagaInv, [Next]_vars PROVE SagaInv'
    OBVIOUS
  <1>1. TypeOK /\ WellFormed /\ OnceInv /\ CauseInv /\ NothingVanishes
    BY DEF SagaInv, OnceInv, CauseInv
  <1>2. TypeOK' /\ WellFormed' /\ OnceInv'
    BY <1>1, TypeStep, OnceStep
  <1>3. CASE Next
    <2>1. Effects
      BY <1>1, <1>3, EffectNext
    <2>2. CreatedFirst' /\ CausalOrder' /\ StatusAnnounced'
      BY <1>1, <2>1, CreatedFirstKept, CausalOrderKept, StatusAnnouncedKept
      DEF CauseInv
    <2>3. MessagesCaused' /\ ReadsProve' /\ NothingVanishes'
      BY <1>1, <1>3, MessagesCausedKept, ReadsProveKept, NothingVanishesKept
    <2> QED BY <1>2, <2>2, <2>3 DEF SagaInv, OnceInv
  <1>4. CASE UNCHANGED vars
    <2>1. UNCHANGED <<status, outbox, unsent, released, queue, parked, processed,
                      request, consumer>>
      BY <1>4 DEF vars, orderVars, stockVars, brokerVars, apiVars
    <2>2. MessagesCaused' /\ ReadsProve'
      BY <1>1, <2>1 DEF CauseInv, MessagesCaused, ReadsProve, Caused, Handles
    <2>3. CreatedFirst' /\ CausalOrder'
      BY <1>1, <2>1 DEF CauseInv, CreatedFirst, CausalOrder
    <2>4. StatusAnnounced'
      BY <1>1, <2>1 DEF CauseInv, StatusAnnounced, Announced
    <2>5. NothingVanishes'
      BY <1>1, <2>1 DEF NothingVanishes
    <2> QED BY <1>2, <2>2, <2>3, <2>4, <2>5 DEF SagaInv, OnceInv
  <1> QED BY <1>3, <1>4

\* Everything the saga's records claim about one another, in every state.
THEOREM SagaHolds == Spec => []SagaInv
  <1>1. Init => SagaInv
    BY TypeInit, OnceInit, CauseInit DEF SagaInv, OnceInv, CauseInv
  <1> QED BY <1>1, SagaStep, PTL DEF Spec

\* Whatever is raced, retried, redelivered or acted on with a stale status,
\* the traces of an order come in causal order.
THEOREM CausesComeFirst == Spec => []CausalOrder
  <1>1. SagaInv => CausalOrder
    BY DEF SagaInv
  <1> QED BY <1>1, SagaHolds, PTL

\* No order is in a status the rest of the system was never told of.
THEOREM StatusesAreAnnounced == Spec => []StatusAnnounced
  <1>1. SagaInv => StatusAnnounced
    BY DEF SagaInv
  <1> QED BY <1>1, SagaHolds, PTL

\* A message with a committed row that no consumer claimed is still somewhere.
THEOREM NoMessageVanishes == Spec => []NothingVanishes
  <1>1. SagaInv => NothingVanishes
    BY DEF SagaInv
  <1> QED BY <1>1, SagaHolds, PTL

-----------------------------------------------------------------------------
(* The saga implements OrderMilestones: a step passes one milestone at most, *)
(* and what the milestone needs is what caused the step.                     *)

MilestoneOf(t) ==
    CASE t = "order.created" -> "created"
      [] t = "stock.reserved" -> "reserved"
      [] t = "order.cancelled" -> "cancelled"
      [] t = "order.confirmed" -> "confirmed"
      [] t = "payment.charge_requested" -> "charged"
      [] t = "order.shipped" -> "shipped"
      [] t = "order.delivered" -> "delivered"

\* Rows, keys and releases are written by different steps.
LEMMA OneTrace ==
  ASSUME Next
  PROVE  \/ UNCHANGED <<processed, released>>
         \/ UNCHANGED <<outbox, released>>
         \/ UNCHANGED <<outbox, processed>>
  <1> USE DEF orderVars, stockVars, brokerVars, restVars
  <1>1. ASSUME \/ \E r \in Requests : RequestStep(r) \/ RequestFails(r)
               \/ \E r \in Requests, op \in Commands, o \in Orders \cup {NoOrder},
                     k \in Keys \cup {NoKey} : Receive(r, op, o, k)
               \/ \E m \in Messages : Publish(m) \/ PublishUnmarked(m) \/ GiveUp(m)
               \/ \E o \in Orders : Settle(o)
               \/ \E slots \in SUBSET Consumers : WorkerDies(slots)
               \/ \E c \in Consumers : HandlerFails(c)
               \/ \E c \in Consumers, m \in Messages : Deliver(c, m)
        PROVE  UNCHANGED <<processed, released>>
    BY <1>1
    DEF RequestStep, RequestFails, ReadOrder, RefuseOrder, CreateOrder,
        ConfirmOrder, CancelOrder, ShipOrder, DeliverOrder, Move, Answer,
        Receive, Publish, PublishUnmarked, GiveUp, Settle, WorkerDies,
        HandlerFails, Deliver
  <1>2. ASSUME NEW c \in Consumers, ConsumerStep(c), ~Claim(c), ~Release(c)
        PROVE  UNCHANGED <<processed, released>>
    BY <1>2
    DEF ConsumerStep, SkipDuplicate, FetchCreated, FetchCancelled,
        FetchConfirmed, SkipWrongStatus, SkuSuffices, SkuShort, Reserve,
        CancelShort, CancelOnly, RequestCharge, MarkPaid, Ack
  <1>3. ASSUME NEW c \in Consumers, Claim(c) PROVE UNCHANGED <<outbox, released>>
    BY <1>3 DEF Claim
  <1>4. ASSUME NEW c \in Consumers, Release(c) PROVE UNCHANGED <<outbox, processed>>
    BY <1>4 DEF Release
  <1> QED BY <1>1, <1>2, <1>3, <1>4 DEF Next

\* A row is the evidence of its milestone, and its cause that of the needs.
LEMMA RowEvidence ==
  ASSUME NEW t \in OutboxTypes, NEW o \in Orders
  PROVE  /\ MilestoneOf(t) \in MilestoneNames
         /\ Evidence(o, MilestoneOf(t)) <=> outbox[t][o] > 0
         /\ Evidence(o, MilestoneOf(t))' <=> outbox'[t][o] > 0
         /\ RowCause(t, o) =>
               \A k \in Abstract!Needs[MilestoneOf(t)] : Evidence(o, k)
  <1> USE DEF OutboxTypes, ConsumedTypes
  <1>1. MilestoneOf(t) \in MilestoneNames
    BY DEF MilestoneOf, MilestoneNames
  <1>2. Evidence(o, MilestoneOf(t)) <=> outbox[t][o] > 0
    BY DEF MilestoneOf, Evidence
  <1>3. Evidence(o, MilestoneOf(t))' <=> outbox'[t][o] > 0
    BY DEF MilestoneOf, Evidence
  <1>4. ASSUME RowCause(t, o)
        PROVE  \A k \in Abstract!Needs[MilestoneOf(t)] : Evidence(o, k)
    BY <1>4
    DEF RowCause, MilestoneOf, Evidence, Abstract!Needs, Abstract!Milestones, Has,
        Settled
  <1> QED BY <1>1, <1>2, <1>3, <1>4

LEMMA MilestonesHaveTraces ==
  \A m \in MilestoneNames :
     m \in {"released", "settled"} \/ \E t \in OutboxTypes : m = MilestoneOf(t)
  BY RowNames DEF MilestoneNames, MilestoneOf

\* A step that changes the evidence of one milestone of one order at most.
LEMMA OnePass ==
  ASSUME NEW p \in Orders, NEW n \in MilestoneNames,
         \A o \in Orders, m \in MilestoneNames :
            o # p \/ m # n => (Evidence(o, m)' <=> Evidence(o, m)),
         Evidence(p, n) => Evidence(p, n)',
         Evidence(p, n)' /\ ~Evidence(p, n) =>
            \A k \in Abstract!Needs[n] : Evidence(p, k)
  PROVE  Abstract!Next \/ UNCHANGED Reached
  <1>1. CASE Evidence(p, n) \/ ~Evidence(p, n)'
    <2>1. \A o \in Orders, m \in MilestoneNames : Evidence(o, m)' <=> Evidence(o, m)
      BY <1>1
    <2>2. \A o \in Orders : {m \in MilestoneNames : Evidence(o, m)'}
                              = {m \in MilestoneNames : Evidence(o, m)}
      BY <2>1
    <2> QED BY <2>2 DEF Reached
  <1>2. CASE ~Evidence(p, n) /\ Evidence(p, n)'
    <2>1. n \notin Reached[p]
      BY <1>2 DEF Reached
    <2>2. Abstract!Needs[n] \subseteq Reached[p]
      <3>1. Abstract!Needs[n] \subseteq MilestoneNames
        BY DEF Abstract!Needs, Abstract!Milestones, MilestoneNames
      <3> QED BY <1>2, <3>1 DEF Reached
    <2>3. \A o \in Orders : {m \in MilestoneNames : Evidence(o, m)'} =
             IF o = p THEN {m \in MilestoneNames : Evidence(o, m)} \cup {n}
                      ELSE {m \in MilestoneNames : Evidence(o, m)}
      BY <1>2
    <2>4. Reached' = [Reached EXCEPT ![p] = @ \cup {n}]
      BY <2>3, ZenonT(60) DEF Reached
    <2>5. n \in Abstract!Milestones
      BY DEF Abstract!Milestones, MilestoneNames
    <2>6. Abstract!Pass(p, n)
      BY <2>1, <2>2, <2>4, <2>5 DEF Abstract!Pass
    <2>7. n \in Reached'[p]
      BY <2>4 DEF Reached
    <2> QED BY <2>1, <2>6, <2>7 DEF Abstract!Next
  <1> QED BY <1>1, <1>2

LEMMA MilestoneStep ==
  ASSUME SagaInv, Next
  PROVE  Abstract!Next \/ UNCHANGED Reached
  <1>0. TypeOK /\ Effects
    BY EffectNext DEF SagaInv, OnceInv, CauseInv
  <1>1. ASSUME NEW o \in Orders, NEW m \in MilestoneNames,
               m # "settled" \/ UNCHANGED processed,
               m # "released" \/ UNCHANGED released,
               \A t \in OutboxTypes :
                  m = MilestoneOf(t) => outbox'[t][o] = outbox[t][o]
        PROVE  Evidence(o, m)' <=> Evidence(o, m)
    <2>1. CASE m \in {"released", "settled"}
      BY <1>1, <2>1 DEF Evidence
    <2>2. ASSUME NEW t \in OutboxTypes, m = MilestoneOf(t)
          PROVE  Evidence(o, m)' <=> Evidence(o, m)
      BY <1>1, <2>2, RowEvidence
    <2> QED BY <2>1, <2>2, MilestonesHaveTraces
  <1>2. CASE UNCHANGED <<outbox, processed, released>>
    <2>1. \A o \in Orders, m \in MilestoneNames : Evidence(o, m)' <=> Evidence(o, m)
      BY <1>1, <1>2
    <2>2. \A o \in Orders : {m \in MilestoneNames : Evidence(o, m)'}
                              = {m \in MilestoneNames : Evidence(o, m)}
      BY <2>1
    <2> QED BY <2>2 DEF Reached
  <1>3. ASSUME UNCHANGED <<processed, released>>, NEW u \in OutboxTypes,
               NEW p \in Orders, Emit(u, p), RowCause(u, p)
        PROVE  Abstract!Next \/ UNCHANGED Reached
    <2>1. /\ \A t \in OutboxTypes, o \in Orders :
                t # u \/ o # p => outbox'[t][o] = outbox[t][o]
          /\ outbox[u][p] > 0 => outbox'[u][p] > 0
      BY <1>0, <1>3, EmitOthers, RowsGrow DEF TypeOK, Grows, Has
    <2>2. \A o \in Orders, m \in MilestoneNames :
             o # p \/ m # MilestoneOf(u) => (Evidence(o, m)' <=> Evidence(o, m))
      BY <1>1, <1>3, <2>1
    <2>3. Evidence(p, MilestoneOf(u)) => Evidence(p, MilestoneOf(u))'
      BY <2>1, RowEvidence
    <2> QED BY <1>3, <2>2, <2>3, OnePass, RowEvidence
  <1>4. ASSUME UNCHANGED <<outbox, released>>, NEW n \in Messages, Caused(n),
               processed' = processed \cup {n}
        PROVE  Abstract!Next \/ UNCHANGED Reached
    <2> DEFINE p == n.order
    <2>0. p \in Orders /\ n = Msg(n.type, p)
      BY DEF Messages, Msg
    <2>1. \A o \in Orders : o # p \/ n.type # "payment.settled" =>
             (Evidence(o, "settled")' <=> Evidence(o, "settled"))
      BY <1>4, <2>0 DEF Evidence, Msg
    <2>2. \A o \in Orders, m \in MilestoneNames :
             m # "settled" => (Evidence(o, m)' <=> Evidence(o, m))
      BY <1>1, <1>4
    <2>3. Evidence(p, "settled") => Evidence(p, "settled")'
      BY <1>4 DEF Evidence
    <2>4. n.type = "payment.settled" =>
             \A k \in Abstract!Needs["settled"] : Evidence(p, k)
      BY <1>4 DEF Caused, Evidence, Abstract!Needs, Abstract!Milestones
    <2>5. "settled" \in MilestoneNames
      BY DEF MilestoneNames
    <2>6. CASE n.type = "payment.settled"
      <3> HIDE DEF p
      <3> QED BY <2>0, <2>1, <2>2, <2>3, <2>4, <2>5, <2>6, OnePass
    <2>7. CASE n.type # "payment.settled"
      <3>1. \A o \in Orders, m \in MilestoneNames : Evidence(o, m)' <=> Evidence(o, m)
        BY <2>1, <2>2, <2>7
      <3>2. \A o \in Orders : {m \in MilestoneNames : Evidence(o, m)'}
                                = {m \in MilestoneNames : Evidence(o, m)}
        BY <3>1
      <3> QED BY <3>2 DEF Reached
    <2> QED BY <2>6, <2>7
  <1>5. ASSUME UNCHANGED <<outbox, processed>>, NEW p \in Orders,
               Has("stock.reserved", p), Has("order.cancelled", p),
               released' = [released EXCEPT ![p] = @ + 1]
        PROVE  Abstract!Next \/ UNCHANGED Reached
    <2>1. \A o \in Orders : /\ released[o] \in Nat
                            /\ released'[o] = IF o = p THEN released[o] + 1
                                                       ELSE released[o]
      BY <1>0, <1>5 DEF TypeOK, StockTyped
    <2>2. \A o \in Orders : o # p =>
             (Evidence(o, "released")' <=> Evidence(o, "released"))
      BY <2>1 DEF Evidence
    <2>3. \A o \in Orders, m \in MilestoneNames :
             m # "released" => (Evidence(o, m)' <=> Evidence(o, m))
      BY <1>1, <1>5
    <2>4. Evidence(p, "released") => Evidence(p, "released")'
      BY <2>1 DEF Evidence
    <2>5. \A k \in Abstract!Needs["released"] : Evidence(p, k)
      BY <1>5 DEF Has, Evidence, Abstract!Needs, Abstract!Milestones
    <2>6. "released" \in MilestoneNames
      BY DEF MilestoneNames
    <2> QED BY <2>2, <2>3, <2>4, <2>5, <2>6, OnePass
  <1> QED
    BY <1>0, <1>2, <1>3, <1>4, <1>5, OneTrace
    DEF Effects, RowEffect, ClaimEffect, ReleaseEffect

\* The saga, with every race, crash and retry in it, implements the
\* milestones: what an order has passed is never undone, and comes in order.
THEOREM MilestonesImplemented == Spec => RefinesMilestones
  <1>1. Init => Abstract!Init
    <2> SUFFICES ASSUME Init PROVE Reached = [o \in Orders |-> {}]
      BY DEF Abstract!Init
    <2>1. \A o \in Orders, m \in MilestoneNames : ~Evidence(o, m)
      <3>1. \A t \in OutboxTypes, o \in Orders : ~(outbox[t][o] > 0)
        BY DEF Init
      <3>2. \A o \in Orders : ~(released[o] > 0)
        BY DEF Init
      <3>3. processed = {}
        BY DEF Init
      <3> QED BY <3>1, <3>2, <3>3, RowNames DEF Evidence, MilestoneNames
    <2> QED BY <2>1 DEF Reached
  <1>2. SagaInv /\ [Next]_vars => [Abstract!Next]_Reached
    <2> SUFFICES ASSUME SagaInv, [Next]_vars
                 PROVE  Abstract!Next \/ UNCHANGED Reached
      OBVIOUS
    <2>1. CASE UNCHANGED vars
      <3>1. UNCHANGED <<outbox, processed, released>>
        BY <2>1 DEF vars, orderVars, stockVars, brokerVars
      <3> QED BY <3>1 DEF Reached, Evidence
    <2> QED BY <2>1, MilestoneStep
  <1> QED BY <1>1, <1>2, SagaHolds, PTL DEF Spec, RefinesMilestones, Abstract!Spec

-----------------------------------------------------------------------------
(* How far the stock can be oversold.  The availability check and the        *)
(* decrement are two steps: between them the other consumers may pass the    *)
(* same check.  The one that passed last saw its own lines covered.          *)

LEMMA TimesGrows ==
  ASSUME NEW i \in Int, NEW j \in Int, NEW m \in Nat, i <= j
  PROVE  i * m <= j * m
  <1>1. (j - i) * m >= 0
    BY SMT
  <1>2. (j - i) * m = j * m - i * m
    BY SMT
  <1>3. i * m \in Int /\ j * m \in Int
    BY SMT
  <1> QED BY <1>1, <1>2, <1>3, SMT

LEMMA FloorGrows ==
  ASSUME IsFiniteSet(Consumers), NEW most \in Nat, NEW excess \in Int,
         NEW p \in Nat, NEW q \in Nat, p <= q
  PROVE  /\ Floor(p, most, excess) \in Int
         /\ Floor(p, most, excess) <= Floor(q, most, excess)
         /\ Floor(p + 1, most, excess) = Floor(p, most, excess) + most
  <1> DEFINE K == Cardinality(Consumers)
  <1>1. K \in Nat
    BY FS_CardinalityType
  <1> HIDE DEF K
  <1>2. (K - q) * most <= (K - p) * most
    <2>1. K - q \in Int /\ K - p \in Int /\ K - q <= K - p
      BY <1>1
    <2> QED BY <2>1, TimesGrows
  <1>3. (K - (p + 1)) * most = (K - p) * most - most
    BY <1>1
  <1>4. (K - p) * most \in Int /\ (K - q) * most \in Int
    BY <1>1
  <1>5. \A n \in Nat : Floor(n, most, excess) = -((K - n) * most + excess)
    BY DEF Floor, K
  <1>6. /\ Floor(p, most, excess) = -((K - p) * most + excess)
        /\ Floor(q, most, excess) = -((K - q) * most + excess)
        /\ Floor(p + 1, most, excess) = -((K - (p + 1)) * most + excess)
    BY <1>5
  <1> DEFINE a == (K - p) * most
             b == (K - q) * most
  <1> HIDE DEF a, b
  <1>7. a \in Int /\ b \in Int /\ b <= a
    BY <1>2, <1>4 DEF a, b
  <1>8. /\ Floor(p, most, excess) = -(a + excess)
        /\ Floor(q, most, excess) = -(b + excess)
        /\ Floor(p + 1, most, excess) = -(a - most + excess)
    BY <1>3, <1>6 DEF a, b
  <1> QED BY <1>7, <1>8

LEMMA Floors ==
  ASSUME IsFiniteSet(Consumers), NEW most \in Nat, NEW excess \in Int
  PROVE  /\ \A n \in Nat : Floor(n, most, excess) \in Int
         /\ \A n \in Nat :
               Floor(n + 1, most, excess) = Floor(n, most, excess) + most
         /\ \A m, n \in Nat : m <= n =>
               Floor(m, most, excess) <= Floor(n, most, excess)
  <1>1. ASSUME NEW n \in Nat
        PROVE  /\ Floor(n, most, excess) \in Int
               /\ Floor(n + 1, most, excess) = Floor(n, most, excess) + most
    <2>1. n <= n
      OBVIOUS
    <2> QED BY <2>1, FloorGrows
  <1>2. ASSUME NEW m \in Nat, NEW n \in Nat, m <= n
        PROVE  Floor(m, most, excess) <= Floor(n, most, excess)
    BY <1>2, FloorGrows
  <1> QED BY <1>1, <1>2

LEMMA BusyHasOrder ==
  ASSUME WellFormed, NEW c \in Consumers, consumer[c].phase # "idle"
  PROVE  consumer[c].msg.order \in Orders
  <1>1. consumer[c].msg \in Messages
    BY DEF WellFormed, ConsumerWellFormed
  <1> QED BY <1>1 DEF Messages

\* The takers are consumers, each with a delivery of a known order.
LEMMA TakersKnown ==
  ASSUME TypeOK, WellFormed, IsFiniteSet(Consumers), NEW s \in Skus
  PROVE  /\ IsFiniteSet(Takers(s)) /\ Cardinality(Takers(s)) \in Nat
         /\ Takers(s) # {} => Cardinality(Takers(s)) >= 1
         /\ \A c \in Takers(s) :
               /\ c \in Consumers /\ consumer[c].msg.order \in Orders
               /\ Demand[consumer[c].msg.order][s] \in Nat
  <1>1. IsFiniteSet(Takers(s)) /\ Cardinality(Takers(s)) \in Nat
    <2>1. Takers(s) \subseteq Consumers
      BY DEF Takers
    <2> QED BY <2>1, FS_Subset, FS_CardinalityType
  <1>2. Takers(s) # {} => Cardinality(Takers(s)) >= 1
    <2>1. Cardinality(Takers(s)) = 0 <=> Takers(s) = {}
      BY <1>1, FS_EmptySet
    <2> QED BY <1>1, <2>1
  <1>3. ASSUME NEW c \in Takers(s)
        PROVE  /\ c \in Consumers /\ consumer[c].msg.order \in Orders
               /\ Demand[consumer[c].msg.order][s] \in Nat
    <2>1. c \in Consumers /\ consumer[c].phase = "fetched"
      BY <1>3 DEF Takers, Passed
    <2>2. consumer[c].msg.order \in Orders
      BY <2>1, BusyHasOrder
    <2> QED BY <2>1, <2>2, DemandAssumption
  <1> QED BY <1>1, <1>2, <1>3

\* With nobody new past the check and no units taken, the cover stays.
LEMMA TakersLeave ==
  ASSUME TypeOK, WellFormed, TypeOK', WellFormed', IsFiniteSet(Consumers),
         NEW s \in Skus, NEW most \in Nat, NEW excess \in Int,
         \A o \in Orders : Demand[o][s] <= most,
         TakersCovered(s, most, excess),
         available'[s] >= available[s],
         \A c \in Takers(s)' : c \in Takers(s)
                               /\ consumer'[c].msg = consumer[c].msg
  PROVE  TakersCovered(s, most, excess)'
  <1> DEFINE T == Takers(s)
             p == Cardinality(T)
             q == Cardinality(T')
             Needs(c) == Demand[consumer[c].msg.order][s]
             F(n) == Floor(n, most, excess)
  <1>0. /\ \A n \in Nat : F(n) \in Int /\ F(n + 1) = F(n) + most
        /\ \A m, n \in Nat : m <= n => F(m) <= F(n)
    BY Floors
  <1>1. /\ IsFiniteSet(T) /\ p \in Nat /\ (T # {} => p >= 1)
        /\ \A c \in T : consumer[c].msg.order \in Orders /\ Needs(c) \in Nat
    BY TakersKnown
  <1>2. q \in Nat
    <2>1. T' \subseteq T
      OBVIOUS
    <2> QED BY <1>1, <2>1, FS_Subset, FS_CardinalityType
  <1>3. available[s] \in Int /\ available'[s] \in Int
    BY DEF TypeOK, StockTyped
  <1>4. CASE T = {}
    <2>1. T' = {} /\ available[s] >= F(1)
      BY <1>4 DEF TakersCovered
    <2>2. F(1) \in Int
      BY <1>0
    <2>3. available'[s] >= F(1)
      BY <1>3, <2>1, <2>2
    <2> QED BY <2>1, <2>3 DEF TakersCovered, Floor
  <1>5. CASE T # {}
    <2>1. PICK c \in T : available[s] >= Needs(c) + F(p)
      BY <1>5 DEF TakersCovered
    <2>2. F(p) \in Int /\ Needs(c) \in Nat
      BY <1>1, <1>0
    <2>3. available'[s] >= Needs(c) + F(p)
      BY <1>3, <2>1, <2>2
    <2>4. CASE T' = {}
      <3>1. F(1) <= F(p) /\ F(1) \in Int
        BY <1>1, <1>5, <1>0
      <3>2. available'[s] >= F(1)
        BY <1>3, <2>2, <2>3, <3>1
      <3> QED BY <2>4, <3>2 DEF TakersCovered, Floor
    <2>5. CASE c \in T'
      <3>1. q <= p
        BY <1>1, FS_Subset
      <3>2. F(q) <= F(p) /\ F(q) \in Int
        BY <1>1, <1>2, <3>1, <1>0
      <3>3. available'[s] >= Needs(c) + F(q)
        BY <1>3, <2>2, <2>3, <3>2
      <3>4. consumer'[c].msg = consumer[c].msg
        BY <2>5
      <3>5. available'[s] >= Demand[consumer'[c].msg.order][s] + F(q)
        BY <3>3, <3>4
      <3> QED BY <2>5, <3>5 DEF TakersCovered, Floor
    <2>6. CASE T' # {} /\ c \notin T'
      <3>1. PICK d \in T' : TRUE
        BY <2>6
      <3>2. q + 1 <= p
        <4>1. T' \subseteq T \ {c}
          BY <2>6
        <4>2. IsFiniteSet(T \ {c}) /\ Cardinality(T \ {c}) = p - 1
          BY <1>1, FS_RemoveElement
        <4>3. q <= p - 1
          BY <4>1, <4>2, FS_Subset
        <4> QED BY <1>1, <1>2, <4>3
      <3>3. F(q + 1) <= F(p) /\ F(q + 1) = F(q) + most /\ F(q) \in Int
        BY <1>1, <1>2, <3>2, <1>0
      <3>4. Needs(d) <= most /\ Needs(d) \in Nat
        BY <1>1, <3>1
      <3>5. available'[s] >= Needs(d) + F(q)
        BY <1>3, <2>2, <2>3, <3>3, <3>4
      <3>6. available'[s] >= Demand[consumer'[d].msg.order][s] + F(q)
        BY <3>1, <3>5
      <3> QED BY <2>6, <3>1, <3>6 DEF TakersCovered, Floor
    <2> QED BY <2>4, <2>5, <2>6
  <1> QED BY <1>4, <1>5

\* A consumer that passes the check saw its own lines covered.
LEMMA TakerJoins ==
  ASSUME TypeOK, WellFormed, TypeOK', WellFormed', IsFiniteSet(Consumers),
         NEW s \in Skus, NEW most \in Nat, NEW excess \in Int,
         \A o \in Orders : Unchecked(o, s) <= excess,
         NEW c \in Consumers, SkuSuffices(c, s), c \in Takers(s)'
  PROVE  TakersCovered(s, most, excess)'
  <1> DEFINE q == Cardinality(Takers(s)')
             o == consumer[c].msg.order
             F(n) == Floor(n, most, excess)
             K == Cardinality(Consumers)
  <1>0. /\ \A n \in Nat : F(n) \in Int /\ F(n + 1) = F(n) + most
        /\ \A m, n \in Nat : m <= n => F(m) <= F(n)
    BY Floors
  <1>1. consumer'[c].msg = consumer[c].msg /\ consumer[c].phase = "fetched"
    BY DEF SkuSuffices, Handles, TypeOK, ConsumerRecord
  <1>2. o \in Orders
    BY <1>1, BusyHasOrder
  <1>3. available'[s] = available[s] /\ available[s] \in Int
    BY DEF SkuSuffices, stockVars, TypeOK, StockTyped
  <1>4. available[s] >= LargestLine[o][s]
    BY DEF SkuSuffices
  <1>5. /\ Demand[o][s] \in Nat /\ LargestLine[o][s] \in Nat
        /\ Demand[o][s] - LargestLine[o][s] <= excess
    BY <1>2, DemandAssumption DEF Unchecked
  <1>6. q \in Nat /\ K \in Nat /\ q <= K
    <2>1. Takers(s)' \subseteq Consumers
      BY DEF Takers
    <2> QED BY <2>1, FS_Subset, FS_CardinalityType
  <1>7. F(q) <= F(K) /\ F(q) \in Int /\ F(K) = -excess
    <2>1. F(q) <= F(K) /\ F(q) \in Int
      BY <1>6, <1>0
    <2>2. (K - K) * most = 0
      BY <1>6
    <2>3. F(K) = -((K - K) * most + excess)
      BY DEF Floor
    <2> QED BY <2>1, <2>2, <2>3
  <1>8. available'[s] >= Demand[o][s] + F(q)
    <2> HIDE DEF F, q
    <2> QED BY <1>3, <1>4, <1>5, <1>7
  <1>9. available'[s] >= Demand[consumer'[c].msg.order][s] + F(q)
    BY <1>1, <1>8
  <1> QED BY <1>9 DEF TakersCovered, Floor

\* The decrement takes one consumer out, with at most what an order wants.
LEMMA TakerTakes ==
  ASSUME TypeOK, WellFormed, TypeOK', WellFormed', IsFiniteSet(Consumers),
         NEW s \in Skus, NEW most \in Nat, NEW excess \in Int,
         \A o \in Orders : Demand[o][s] <= most,
         TakersCovered(s, most, excess),
         NEW c \in Takers(s), Takers(s)' = Takers(s) \ {c},
         \A d \in Takers(s)' : consumer'[d].msg = consumer[d].msg,
         available'[s] = available[s] - Demand[consumer[c].msg.order][s]
  PROVE  TakersCovered(s, most, excess)'
  <1> DEFINE T == Takers(s)
             p == Cardinality(T)
             q == Cardinality(T')
             Needs(d) == Demand[consumer[d].msg.order][s]
             F(n) == Floor(n, most, excess)
  <1>0. /\ \A n \in Nat : F(n) \in Int /\ F(n + 1) = F(n) + most
        /\ \A m, n \in Nat : m <= n => F(m) <= F(n)
    BY Floors
  <1>1. /\ IsFiniteSet(T) /\ p \in Nat /\ p >= 1
        /\ \A d \in T : /\ consumer[d].msg.order \in Orders /\ Needs(d) \in Nat
                        /\ Needs(d) <= most
    BY TakersKnown
  <1>2. q = p - 1 /\ q \in Nat
    <2>1. q = p - 1
      BY <1>1, FS_RemoveElement
    <2> QED BY <1>1, <2>1
  <1>3. available[s] \in Int /\ available'[s] \in Int
    BY DEF TypeOK, StockTyped
  <1>4. PICK e \in T : available[s] >= Needs(e) + F(p)
    BY DEF TakersCovered
  <1>5. /\ F(p) \in Int /\ F(q) \in Int /\ F(1) \in Int /\ F(1) <= F(p)
        /\ F(p) = F(q) + most
    <2>1. q + 1 = p
      BY <1>1, <1>2
    <2> HIDE DEF F, p, q
    <2>2. F(q + 1) = F(q) + most /\ F(q) \in Int
      BY <1>2, <1>0
    <2> QED BY <1>1, <2>1, <2>2, <1>0
  <1>6. Needs(c) \in Nat /\ Needs(c) <= most /\ Needs(e) \in Nat
    BY <1>1
  <1>7. CASE T' = {}
    <2>1. e = c
      BY <1>7
    <2>2. available'[s] >= F(1)
      BY <1>3, <1>4, <1>5, <1>6, <2>1
    <2> QED BY <1>7, <2>2 DEF TakersCovered, Floor
  <1>8. CASE e # c
    <2>1. available'[s] >= Needs(e) + F(q)
      BY <1>3, <1>4, <1>5, <1>6
    <2>2. e \in T' /\ consumer'[e].msg = consumer[e].msg
      BY <1>8
    <2>3. available'[s] >= Demand[consumer'[e].msg.order][s] + F(q)
      BY <2>1, <2>2
    <2> QED BY <2>2, <2>3 DEF TakersCovered, Floor
  <1>9. CASE T' # {} /\ e = c
    <2>1. PICK d \in T' : TRUE
      BY <1>9
    <2>2. Needs(d) \in Nat /\ Needs(d) <= most
      BY <1>1, <2>1
    <2>3. available'[s] >= Needs(d) + F(q)
      BY <1>3, <1>4, <1>5, <1>6, <1>9, <2>2
    <2>4. available'[s] >= Demand[consumer'[d].msg.order][s] + F(q)
      BY <2>1, <2>3
    <2> QED BY <1>9, <2>1, <2>4 DEF TakersCovered, Floor
  <1> QED BY <1>7, <1>8, <1>9

\* What a consumer's step does to its own pass: only the check earns one, and
\* only the decrement uses it up for units.
LEMMA PassMoves ==
  ASSUME TypeOK, WellFormed, NEW s \in Skus, NEW c \in Consumers,
         ConsumerStep(c) \/ HandlerFails(c), Passed(consumer'[c], s)
  PROVE  \/ SkuSuffices(c, s)
         \/ Passed(consumer[c], s) /\ UNCHANGED available
              /\ consumer'[c].msg = consumer[c].msg
  <1> USE DEF Passed, Handles, NeedsConfirmed, Done
  <1>1. consumer[c] \in ConsumerRecord /\ consumer \in [Consumers -> ConsumerRecord]
    BY DEF TypeOK
  <1> USE DEF ConsumerRecord
  <1>2. CASE SkipDuplicate(c) \/ Ack(c) \/ HandlerFails(c)
    BY <1>1, <1>2 DEF SkipDuplicate, Ack, HandlerFails, IdleConsumer
  <1>3. CASE \/ Claim(c) \/ SkipWrongStatus(c)
             \/ \E t \in Skus : SkuShort(c, t)
             \/ Reserve(c) \/ CancelShort(c) \/ Release(c) \/ CancelOnly(c)
             \/ RequestCharge(c) \/ MarkPaid(c)
    <2>1. \E p \in {"claimed", "short", "done"} :
             consumer' = [consumer EXCEPT ![c].phase = p]
      BY <1>3
      DEF Claim, SkipWrongStatus, SkuShort, Reserve, CancelShort, Release,
          CancelOnly, RequestCharge, MarkPaid
    <2>2. consumer'[c].phase # "fetched"
      BY <1>1, <2>1
    <2> QED BY <2>2
  <1>4. CASE FetchCancelled(c) \/ FetchConfirmed(c)
    BY <1>1, <1>4 DEF FetchCancelled, FetchConfirmed
  <1>5. CASE FetchCreated(c)
    <2>1. consumer'[c].left = {t \in Skus : Demand[consumer[c].msg.order][t] > 0}
      BY <1>1, <1>5 DEF FetchCreated
    <2>2. consumer'[c].msg = consumer[c].msg
      BY <1>1, <1>5 DEF FetchCreated
    <2> QED BY <2>1, <2>2
  <1>6. ASSUME NEW t \in Skus, SkuSuffices(c, t), t # s
        PROVE  Passed(consumer[c], s) /\ UNCHANGED available
                 /\ consumer'[c].msg = consumer[c].msg
    <2>1. consumer'[c].left = consumer[c].left \ {t}
      BY <1>1, <1>6 DEF SkuSuffices
    <2>2. consumer'[c].msg = consumer[c].msg /\ UNCHANGED available
      BY <1>1, <1>6 DEF SkuSuffices, stockVars
    <2>3. Handles(c, "fetched", "order.created")
      BY <1>6 DEF SkuSuffices
    <2> QED BY <1>6, <2>1, <2>2, <2>3
  <1> QED BY <1>2, <1>3, <1>4, <1>5, <1>6 DEF ConsumerStep

\* Away from the check and the decrement nobody joins and no units go.
LEMMA TakersQuiet ==
  ASSUME TypeOK, WellFormed, [Next]_vars, NEW s \in Skus,
         ~\E c \in Consumers : SkuSuffices(c, s) \/ Reserve(c)
  PROVE  /\ available'[s] >= available[s]
         /\ \A c \in Takers(s)' : c \in Takers(s)
                                  /\ consumer'[c].msg = consumer[c].msg
  <1>1. available'[s] >= available[s]
    <2>0. available \in [Skus -> Int]
      BY DEF TypeOK, StockTyped
    <2>1. ASSUME NEW c \in Consumers, Release(c)
          PROVE  available'[s] >= available[s]
      <3>1. consumer[c].msg.order \in Orders
        BY <2>1, BusyHasOrder DEF Release, Handles
      <3>2. available'[s] = available[s] + 1 * Demand[consumer[c].msg.order][s]
        BY <2>1 DEF Release, AddAvailable
      <3> QED BY <2>0, <3>1, <3>2, DemandAssumption
    <2>2. CASE UNCHANGED available
      BY <2>0, <2>2
    <2> QED BY <2>1, <2>2, StockQuiet
  <1>2. ASSUME NEW d \in Takers(s)'
        PROVE  d \in Takers(s) /\ consumer'[d].msg = consumer[d].msg
    <2>1. d \in Consumers /\ Passed(consumer'[d], s)
      BY <1>2 DEF Takers
    <2>2. CASE consumer'[d] = consumer[d]
      BY <2>1, <2>2 DEF Takers
    <2>3. ASSUME NEW c \in Consumers, ConsumerStep(c) \/ HandlerFails(c)
          PROVE  d \in Takers(s) /\ consumer'[d].msg = consumer[d].msg
      <3>1. CASE d = c
        BY <2>1, <2>3, <3>1, PassMoves DEF Takers
      <3> QED BY <2>1, <2>2, <2>3, <3>1, ConsumerMoves
    <2>4. ASSUME NEW slots \in SUBSET Consumers, WorkerDies(slots)
          PROVE  consumer'[d] = consumer[d]
      BY <2>1, <2>4 DEF WorkerDies, Idled, IdleConsumer, Passed
    <2>5. ASSUME NEW c \in Consumers, NEW m \in Messages, Deliver(c, m)
          PROVE  consumer'[d] = consumer[d]
      <3>1. consumer \in [Consumers -> ConsumerRecord]
        BY DEF TypeOK
      <3> QED BY <2>1, <2>5, <3>1 DEF Deliver, Passed
    <2>6. CASE \/ \E r \in Requests : RequestStep(r) \/ RequestFails(r)
               \/ \E r \in Requests, op \in Commands, o \in Orders \cup {NoOrder},
                     k \in Keys \cup {NoKey} : Receive(r, op, o, k)
               \/ \E m \in Messages : Publish(m) \/ PublishUnmarked(m) \/ GiveUp(m)
               \/ \E o \in Orders : Settle(o)
               \/ UNCHANGED vars
      <3>1. UNCHANGED consumer
        BY <2>6
        DEF RequestStep, RequestFails, ReadOrder, RefuseOrder, CreateOrder,
            ConfirmOrder, CancelOrder, ShipOrder, DeliverOrder, Move, Answer,
            Receive, Publish, PublishUnmarked, GiveUp, Settle, restVars, vars
      <3> QED BY <2>2, <3>1
    <2> QED BY <2>2, <2>3, <2>4, <2>5, <2>6 DEF Next
  <1> QED BY <1>1, <1>2

LEMMA TakersStep ==
  ASSUME TypeOK, WellFormed, [Next]_vars, IsFiniteSet(Consumers),
         NEW s \in Skus, NEW most \in Nat, NEW excess \in Int,
         \A o \in Orders : Demand[o][s] <= most /\ Unchecked(o, s) <= excess,
         TakersCovered(s, most, excess)
  PROVE  TakersCovered(s, most, excess)'
  <1>0. TypeOK' /\ WellFormed'
    BY TypeStep
  <1>1. CASE ~\E c \in Consumers : SkuSuffices(c, s) \/ Reserve(c)
    BY <1>0, <1>1, TakersQuiet, TakersLeave
  <1>2. ASSUME NEW c \in Consumers, SkuSuffices(c, s) \/ Reserve(c)
        PROVE  TakersCovered(s, most, excess)'
    <2>1. ConsumerStep(c)
      BY <1>2 DEF ConsumerStep
    <2>2. \A d \in Consumers \ {c} : consumer'[d] = consumer[d]
      BY <2>1, ConsumerMoves
    <2>3. \A d \in Takers(s)' \ {c} : d \in Takers(s)
                                       /\ consumer'[d].msg = consumer[d].msg
      BY <2>2 DEF Takers
    <2>4. available \in [Skus -> Int] /\ consumer \in [Consumers -> ConsumerRecord]
      BY DEF TypeOK, StockTyped
    <2>5. CASE SkuSuffices(c, s)
      <3>1. CASE c \in Takers(s)'
        BY <1>0, <2>5, <3>1, TakerJoins
      <3>2. CASE c \notin Takers(s)'
        <4>1. available'[s] >= available[s]
          BY <2>4, <2>5 DEF SkuSuffices, stockVars
        <4>2. \A d \in Takers(s)' : d \in Takers(s)
                                    /\ consumer'[d].msg = consumer[d].msg
          BY <2>3, <3>2
        <4> QED BY <1>0, <4>1, <4>2, TakersLeave
      <3> QED BY <3>1, <3>2
    <2>6. CASE Reserve(c)
      <3>1. consumer[c].msg.order \in Orders
        BY <2>6, BusyHasOrder DEF Reserve, Handles
      <3>2. available'[s] = available[s] + (-1) * Demand[consumer[c].msg.order][s]
        BY <2>6 DEF Reserve, AddAvailable
      <3>3. c \notin Takers(s)'
        BY <2>4, <2>6 DEF Reserve, Done, Takers, Passed, ConsumerRecord
      <3>4. Demand[consumer[c].msg.order][s] \in Nat
        BY <3>1, DemandAssumption
      <3>5. CASE c \in Takers(s)
        <4>1. Takers(s)' = Takers(s) \ {c}
          BY <2>2, <2>3, <3>3 DEF Takers
        <4>2. available'[s] = available[s] - Demand[consumer[c].msg.order][s]
          BY <2>4, <3>2, <3>4
        <4> QED BY <1>0, <2>3, <3>3, <3>5, <4>1, <4>2, TakerTakes
      <3>6. CASE c \notin Takers(s)
        <4>1. Demand[consumer[c].msg.order][s] = 0
          BY <2>6, <3>4, <3>6 DEF Reserve, Handles, Takers, Passed
        <4>2. available'[s] >= available[s]
          BY <2>4, <3>2, <4>1
        <4>3. \A d \in Takers(s)' : d \in Takers(s)
                                    /\ consumer'[d].msg = consumer[d].msg
          BY <2>3, <3>3
        <4> QED BY <1>0, <4>2, <4>3, TakersLeave
      <3> QED BY <3>5, <3>6
    <2> QED BY <1>2, <2>5, <2>6
  <1> QED BY <1>1, <1>2

\* Overselling is bounded, for every number of orders, stock, demand and
\* consumers, through every race and failure: what the requests and the
\* failures do to the interleaving cannot add to it.
THEOREM OversellIsBounded ==
  ASSUME IsFiniteSet(Consumers), Consumers # {}
  PROVE  Spec => []OversellBounded
  <1>0. \A o \in Orders, s \in Skus :
           Demand[o][s] \in Nat /\ Unchecked(o, s) \in Nat
    BY DemandAssumption DEF Unchecked
  <1>1. Init => OversellInv
    <2> SUFFICES ASSUME Init, NEW s \in Skus, NEW large \in Orders, NEW split \in Orders
                 PROVE  TakersCovered(s, Demand[large][s], Unchecked(split, s))
      BY DEF OversellInv
    <2>1. Takers(s) = {}
      BY DEF Init, IdleConsumer, Takers, Passed
    <2>2. available[s] \in Nat
      BY StockAssumption DEF Init
    <2>3. Cardinality(Consumers) \in Nat /\ Cardinality(Consumers) # 0
      BY FS_CardinalityType, FS_EmptySet
    <2>4. PICK n \in Nat : n = Cardinality(Consumers) - 1
      BY <2>3
    <2>5. 0 * Demand[large][s] <= n * Demand[large][s]
      BY <1>0, <2>4, TimesGrows
    <2>6. n * Demand[large][s] >= 0 /\ n * Demand[large][s] \in Int
      BY <1>0, <2>4, <2>5
    <2>7. available[s] >= -(n * Demand[large][s] + Unchecked(split, s))
      BY <1>0, <2>2, <2>6
    <2> QED BY <2>1, <2>4, <2>7 DEF TakersCovered, Floor
  <1>2. TypeOK /\ WellFormed /\ OversellInv /\ [Next]_vars => OversellInv'
    <2> SUFFICES ASSUME TypeOK, WellFormed, OversellInv, [Next]_vars,
                        NEW s \in Skus, NEW large \in Orders, NEW split \in Orders,
                        Largest(s, large, split)
                 PROVE  TakersCovered(s, Demand[large][s], Unchecked(split, s))'
      BY DEF OversellInv, Largest, Unchecked
    <2>1. PICK most \in Nat, excess \in Int :
             most = Demand[large][s] /\ excess = Unchecked(split, s)
      BY <1>0
    <2>2. \A o \in Orders : Demand[o][s] <= most /\ Unchecked(o, s) <= excess
      BY <2>1 DEF Largest
    <2>3. TakersCovered(s, most, excess)
      BY <2>1 DEF OversellInv
    <2>4. TakersCovered(s, most, excess)'
      BY <2>2, <2>3, TakersStep
    <2> QED BY <2>1, <2>4 DEF TakersCovered, Floor, Unchecked
  <1>3. TypeOK /\ WellFormed /\ OversellInv => OversellBounded
    <2> SUFFICES ASSUME TypeOK, WellFormed, OversellInv,
                        NEW s \in Skus, NEW large \in Orders, NEW split \in Orders,
                        Largest(s, large, split)
                 PROVE  available[s] >= Floor(1, Demand[large][s], Unchecked(split, s))
      BY DEF OversellBounded, Floor
    <2> DEFINE F(n) == Floor(n, Demand[large][s], Unchecked(split, s))
    <2>1. TakersCovered(s, Demand[large][s], Unchecked(split, s))
      BY DEF OversellInv
    <2>2. CASE Takers(s) = {}
      BY <2>1, <2>2 DEF TakersCovered
    <2>3. CASE Takers(s) # {}
      <3>1. PICK c \in Takers(s) :
               available[s] >= Demand[consumer[c].msg.order][s]
                                 + F(Cardinality(Takers(s)))
        BY <2>1, <2>3 DEF TakersCovered
      <3>2. /\ Demand[consumer[c].msg.order][s] \in Nat
            /\ Cardinality(Takers(s)) \in Nat /\ Cardinality(Takers(s)) >= 1
        BY <3>1, TakersKnown
      <3>3. /\ F(1) <= F(Cardinality(Takers(s)))
            /\ F(1) \in Int /\ F(Cardinality(Takers(s))) \in Int
        <4>1. Demand[large][s] \in Nat /\ Unchecked(split, s) \in Int
          BY <1>0
        <4> QED BY <3>2, <4>1, Floors
      <3>4. available[s] \in Int
        BY DEF TypeOK, StockTyped
      <3> HIDE DEF F
      <3>5. available[s] >= F(1)
        BY <3>1, <3>2, <3>3, <3>4
      <3> QED BY <3>5 DEF F
    <2> QED BY <2>2, <2>3
  <1> QED BY <1>1, <1>2, <1>3, TypeInit, TypeStep, PTL DEF Spec
=============================================================================
