------------------------------ MODULE OrderSaga ------------------------------
(***************************************************************************)
(* The order saga of node-b2b-orders: HTTP commands of OrdersService        *)
(* (src/interfaces/orders/orders.service.ts), the outbox rows they write,   *)
(* and the worker's consumers (src/worker/main.ts) that reserve stock,      *)
(* release it, ask for the charge and record the payment.                   *)
(*                                                                          *)
(* Every await at which another request or consumer can run is a boundary   *)
(* between two actions.  A Prisma $transaction whose writes are relative or *)
(* unconditional takes effect atomically at its commit; the reads that      *)
(* precede it (idemGet, findFirst, and the availability check, which runs   *)
(* inside the transaction but at READ COMMITTED and without locks) are      *)
(* separate steps.                                                          *)
(*                                                                          *)
(* Abstracted: prices, customers, tracking data, correlation ids (carried,  *)
(* never branched on); audit rows, metrics and SSE broadcasts (written,     *)
(* never read back here); one tenant.  The horizon is shorter than the 24 h *)
(* after which the Redis keys expire.  Outbox rows of a type no consumer    *)
(* acts on are written but not relayed.  Rows of one type for one order     *)
(* carry the same message, so unsent and queue are sets: of several copies  *)
(* the first to be claimed is handled and the others are only ever skipped. *)
(***************************************************************************)
EXTENDS Integers, FiniteSets

CONSTANTS
    Orders,       \* ids the orders table can hand out
    Skus,         \* inventory rows
    Keys,         \* Idempotency-Key values clients send
    Requests,     \* HTTP requests the API serves at the same time
    Consumers,    \* deliveries the worker handles at the same time (prefetch)
    Commands,     \* the commands clients send in this instance
    Stock,        \* availableQty of each sku at the start
    Demand,       \* Demand[o][s]: units of s in all lines of order o
    LargestLine,  \* LargestLine[o][s]: units of s in its largest line
    FailureKinds, \* the failures this instance has
    MaxFailures,  \* bound: how many of them in a run
    NoOrder, NoKey

AllCommands == {"create", "confirm", "cancel", "ship", "deliver"}

ASSUME CommandsAssumption == Commands \subseteq AllCommands
ASSUME StockAssumption == Stock \in [Skus -> Nat]
ASSUME DemandAssumption ==
    /\ Demand \in [Orders -> [Skus -> Nat]]
    /\ LargestLine \in [Orders -> [Skus -> Nat]]
    /\ \A o \in Orders, s \in Skus :
          /\ LargestLine[o][s] <= Demand[o][s]
          /\ LargestLine[o][s] = 0 => Demand[o][s] = 0
ASSUME FailuresAssumption ==
    /\ FailureKinds \subseteq
          {"request", "unmarked", "dead", "worker", "handler"}
    /\ MaxFailures \in Nat
ASSUME NullAssumption == NoOrder \notin Orders /\ NoKey \notin Keys

VARIABLES
    status,     \* orders.status, "NONE" while the row does not exist
    available,  \* inventory.availableQty
    reserved,   \* inventory.reservedQty
    inStock,    \* products.inStock of the active product of each sku
    outbox,     \* outbox[t][o]: outbox rows of event type t for order o
    unsent,     \* messages with an outbox row that is still PENDING
    queue,      \* messages ready in orders.queue and orders.payments
    parked,     \* messages in a dead letter queue, or whose outbox row is DEAD
    processed,  \* the worker's dedup keys processed:<type>:<orderId>
    created,    \* cached answers of create-order, by Idempotency-Key
    answered,   \* cached answers of the commands on an order
    request,    \* what each HTTP request is doing
    consumer,   \* what each consumer slot is doing
    failures,   \* failures so far, bounded by MaxFailures
    released    \* history: release transactions committed, by order

orderVars == <<status, outbox, unsent>>
stockVars == <<available, reserved, inStock, released>>
brokerVars == <<queue, parked, processed>>
cacheVars == <<created, answered>>
apiVars == <<cacheVars, request>>
restVars == <<brokerVars, cacheVars, consumer, failures>>
vars == <<orderVars, stockVars, brokerVars, apiVars, consumer, failures>>

Statuses == {"NONE", "CREATED", "RESERVED", "CONFIRMED", "PAID", "SHIPPED",
             "DELIVERED", "CANCELLED"}

ConsumedTypes == {"order.created", "order.cancelled", "order.confirmed"}
OutboxTypes == ConsumedTypes \cup
    {"stock.reserved", "payment.charge_requested", "order.shipped",
     "order.delivered"}

Msg(type, o) == [type |-> type, order |-> o]
Messages == [type : ConsumedTypes \cup {"payment.settled"}, order : Orders]
NoMessage == [type |-> "none", order |-> NoOrder]

IdleRequest ==
    [phase |-> "idle", op |-> "none", order |-> NoOrder, key |-> NoKey]
IdleConsumer ==
    [phase |-> "idle", msg |-> NoMessage, seen |-> "NONE", left |-> {}]

Init ==
    /\ status = [o \in Orders |-> "NONE"]
    /\ available = Stock
    /\ reserved = [s \in Skus |-> 0]
    /\ inStock = [s \in Skus |-> Stock[s] > 0]
    /\ outbox = [t \in OutboxTypes |-> [o \in Orders |-> 0]]
    /\ unsent = {} /\ queue = {} /\ parked = {} /\ processed = {}
    /\ created = [k \in Keys |-> NoOrder]
    /\ answered = {}
    /\ request = [r \in Requests |-> IdleRequest]
    /\ consumer = [c \in Consumers |-> IdleConsumer]
    /\ failures = 0
    /\ released = [o \in Orders |-> 0]

-----------------------------------------------------------------------------
(* Writes several transactions share.                                       *)

\* tx.outboxEvent.create: the row is committed with the change it announces.
Emit(type, o) ==
    /\ outbox' = [outbox EXCEPT ![type][o] = @ + 1]
    /\ unsent' = IF type \in ConsumedTypes THEN unsent \cup {Msg(type, o)}
                                           ELSE unsent

SetStatus(o, s) == status' = [status EXCEPT ![o] = s]

\* Mutant: counts one unit per order.
AddReservedOneUnit(o, sign) ==
    reserved' = [s \in Skus |-> reserved[s] + sign]

AddReserved(o, sign) ==
    reserved' = [s \in Skus |-> reserved[s] + sign * Demand[o][s]]

\* Mutant: takes units, never gives them back.
AddAvailableTakesOnly(o, sign) ==
    available' = [s \in Skus |->
        available[s] - (IF sign < 0 THEN Demand[o][s] ELSE 0)]

AddAvailable(o, sign) ==
    available' = [s \in Skus |-> available[s] + sign * Demand[o][s]]

\* A failure of this kind, within the bound.
Fails(kind) ==
    /\ kind \in FailureKinds
    /\ failures < MaxFailures
    /\ failures' = failures + 1

-----------------------------------------------------------------------------
(* HTTP commands.                                                           *)

Cached(op, o, k) ==
    IF op = "create" THEN k # NoKey /\ created[k] # NoOrder
                     ELSE [op |-> op, order |-> o, key |-> k] \in answered

\* Bound: no more create-orders at a time than ids left.
Room ==
    Cardinality({r \in Requests : request[r].op = "create"
                                  /\ request[r].phase = "received"})
      < Cardinality({o \in Orders : status[o] = "NONE"})

\* A key is mandatory except for cancel; a cached answer ends the request.
Receive(r, op, o, k) ==
    /\ request[r].phase = "idle"
    /\ op = "create" => Room
    /\ k = NoKey => op = "cancel"
    /\ IF op = "create" THEN o = NoOrder
                        ELSE o \in Orders /\ status[o] # "NONE"
    /\ ~Cached(op, o, k)
    /\ request' = [request EXCEPT ![r] =
          [phase |-> "received", op |-> op, order |-> o, key |-> k]]
    /\ UNCHANGED <<orderVars, stockVars, restVars>>

\* Mutants: a command accepts one status too early.
AcceptsUnreserved(op) ==
    CASE op = "confirm" -> {"CREATED", "RESERVED"}
      [] op = "cancel"  -> {"CREATED", "RESERVED", "CONFIRMED"}
      [] OTHER          -> {}
AcceptsUnpaid(op) ==
    CASE op = "confirm" -> {"RESERVED"}
      [] op = "ship"    -> {"CONFIRMED", "PAID"}
      [] OTHER          -> {}
AcceptsUnshipped(op) ==
    CASE op = "confirm" -> {"RESERVED"}
      [] op = "ship"    -> {"PAID"}
      [] op = "deliver" -> {"PAID", "SHIPPED"}
      [] OTHER          -> {}

\* The statuses each command accepts.
Accepts(op) ==
    CASE op = "confirm" -> {"RESERVED"}
      [] op = "cancel"  -> {"CREATED", "RESERVED", "CONFIRMED"}
      [] op = "ship"    -> {"PAID"}
      [] op = "deliver" -> {"SHIPPED"}
      [] OTHER          -> {}

\* findFirst and the status check, outside the transaction.
ReadOrder(r) ==
    /\ request[r].phase = "received" /\ request[r].op # "create"
    /\ status[request[r].order] \in Accepts(request[r].op)
    /\ request' = [request EXCEPT ![r].phase = "read"]
    /\ UNCHANGED <<orderVars, stockVars, restVars>>

\* 409 Conflict; nothing is cached.
RefuseOrder(r) ==
    /\ request[r].phase = "received" /\ request[r].op # "create"
    /\ status[request[r].order] \notin Accepts(request[r].op)
    /\ request' = [request EXCEPT ![r] = IdleRequest]
    /\ UNCHANGED <<orderVars, stockVars, restVars>>

Committed(r, o) ==
    request' = [request EXCEPT ![r].phase = "committed", ![r].order = o]

CreateOrder(r, o) ==
    /\ request[r].phase = "received" /\ request[r].op = "create"
    /\ status[o] = "NONE"
    /\ SetStatus(o, "CREATED")
    /\ Emit("order.created", o)
    /\ Committed(r, o)
    /\ UNCHANGED <<stockVars, restVars>>

Ready(r, op) == request[r].phase = "read" /\ request[r].op = op

ConfirmOrder(r) ==
    LET o == request[r].order IN
    /\ Ready(r, "confirm")
    /\ AddReserved(o, -1)
    /\ SetStatus(o, "CONFIRMED")
    /\ Emit("order.confirmed", o)
    /\ Committed(r, o)
    /\ UNCHANGED <<available, inStock, released, restVars>>

\* cancel, ship and deliver: a new status and the row that announces it.
\* The API's cancellation leaves the stock to the worker's handler.
Move(r, op, s, type) ==
    LET o == request[r].order IN
    /\ Ready(r, op)
    /\ SetStatus(o, s)
    /\ Emit(type, o)
    /\ Committed(r, o)
    /\ UNCHANGED <<stockVars, restVars>>

\* Mutant: no outbox row.
CancelOrderSilently(r) ==
    /\ Ready(r, "cancel")
    /\ SetStatus(request[r].order, "CANCELLED")
    /\ Committed(r, request[r].order)
    /\ UNCHANGED <<outbox, unsent, stockVars, restVars>>

CancelOrder(r) == Move(r, "cancel", "CANCELLED", "order.cancelled")
ShipOrder(r) == Move(r, "ship", "SHIPPED", "order.shipped")
DeliverOrder(r) == Move(r, "deliver", "DELIVERED", "order.delivered")

\* idemSet, once the transaction is committed, then the response.
Answer(r) ==
    LET q == request[r] IN
    /\ q.phase = "committed"
    /\ created' = IF q.op = "create" THEN [created EXCEPT ![q.key] = q.order]
                                     ELSE created
    /\ answered' = IF q.op = "create" \/ q.key = NoKey THEN answered
                   ELSE answered \cup
                        {[op |-> q.op, order |-> q.order, key |-> q.key]}
    /\ request' = [request EXCEPT ![r] = IdleRequest]
    /\ UNCHANGED <<orderVars, stockVars, brokerVars, consumer, failures>>

\* The API process dies, or a database or Redis call throws, at any await.
RequestFails(r) ==
    /\ Fails("request")
    /\ request[r].phase # "idle"
    /\ request' = [request EXCEPT ![r] = IdleRequest]
    /\ UNCHANGED <<orderVars, stockVars, brokerVars, cacheVars, consumer>>

-----------------------------------------------------------------------------
(* Outbox dispatcher, broker and payment service, as the saga sees them.    *)

\* Mutant: marks the row SENT without publishing it.
PublishNothing(m) ==
    /\ m \in unsent
    /\ unsent' = unsent \ {m}
    /\ UNCHANGED <<status, outbox, stockVars, brokerVars, apiVars, consumer,
                   failures>>

\* dispatchOutbox publishes the row and marks it SENT.
Publish(m) ==
    /\ m \in unsent
    /\ queue' = queue \cup {m}
    /\ unsent' = unsent \ {m}
    /\ UNCHANGED <<status, outbox, stockVars, parked, processed, apiVars,
                   consumer, failures>>

\* The dispatcher dies between the publish and the update to SENT.
PublishUnmarked(m) ==
    /\ Fails("unmarked")
    /\ m \in unsent
    /\ queue' = queue \cup {m}
    /\ UNCHANGED <<orderVars, stockVars, parked, processed, apiVars, consumer>>

\* Seven failed publications make the row DEAD.
GiveUp(m) ==
    /\ Fails("dead")
    /\ m \in unsent
    /\ unsent' = unsent \ {m}
    /\ parked' = parked \cup {m}
    /\ UNCHANGED <<status, outbox, stockVars, queue, processed, apiVars,
                   consumer>>

\* External: the payments ledger settles a charge it was asked for, and may
\* say so more than once.
Settle(o) ==
    /\ outbox["payment.charge_requested"][o] > 0
    /\ Msg("payment.settled", o) \notin queue
    /\ queue' = queue \cup {Msg("payment.settled", o)}
    /\ UNCHANGED <<orderVars, stockVars, parked, processed, apiVars, consumer,
                   failures>>

-----------------------------------------------------------------------------
(* The worker's consumers.                                                  *)

Deliver(c, m) ==
    /\ consumer[c].phase = "idle"
    /\ m \in queue
    /\ queue' = queue \ {m}
    /\ consumer' = [consumer EXCEPT ![c] =
          [phase |-> "delivered", msg |-> m, seen |-> "NONE", left |-> {}]]
    /\ UNCHANGED <<orderVars, stockVars, parked, processed, apiVars, failures>>

\* Mutants: SET without NX; the check without the SET.
ClaimAlways(c) ==
    /\ consumer[c].phase = "delivered"
    /\ processed' = processed \cup {consumer[c].msg}
    /\ consumer' = [consumer EXCEPT ![c].phase = "claimed"]
    /\ UNCHANGED <<orderVars, stockVars, queue, parked, apiVars, failures>>
ClaimWithoutKey(c) ==
    /\ consumer[c].phase = "delivered"
    /\ consumer[c].msg \notin processed
    /\ consumer' = [consumer EXCEPT ![c].phase = "claimed"]
    /\ UNCHANGED <<orderVars, stockVars, brokerVars, apiVars, failures>>

\* isAlreadyProcessed: SET NX, before the message is handled.
Claim(c) ==
    /\ consumer[c].phase = "delivered"
    /\ consumer[c].msg \notin processed
    /\ processed' = processed \cup {consumer[c].msg}
    /\ consumer' = [consumer EXCEPT ![c].phase = "claimed"]
    /\ UNCHANGED <<orderVars, stockVars, queue, parked, apiVars, failures>>

SkipDuplicate(c) ==
    /\ consumer[c].phase = "delivered"
    /\ consumer[c].msg \in processed
    /\ consumer' = [consumer EXCEPT ![c] = IdleConsumer]
    /\ UNCHANGED <<orderVars, stockVars, brokerVars, apiVars, failures>>

Handles(c, phase, type) ==
    consumer[c].phase = phase /\ consumer[c].msg.type = type

\* findFirst of the order.created handler: the lines; the status is not read.
FetchCreated(c) ==
    /\ Handles(c, "claimed", "order.created")
    /\ consumer' = [consumer EXCEPT ![c].phase = "fetched",
          ![c].left = {s \in Skus : Demand[consumer[c].msg.order][s] > 0}]
    /\ UNCHANGED <<orderVars, stockVars, brokerVars, apiVars, failures>>

\* findFirst of the order.cancelled handler, outside its transaction.
FetchCancelled(c) ==
    /\ Handles(c, "claimed", "order.cancelled")
    /\ consumer' = [consumer EXCEPT ![c].phase = "fetched",
                                    ![c].seen = status[consumer[c].msg.order]]
    /\ UNCHANGED <<orderVars, stockVars, brokerVars, apiVars, failures>>

NeedsConfirmed(c) == \/ Handles(c, "claimed", "order.confirmed")
                     \/ Handles(c, "claimed", "payment.settled")

\* The order.confirmed and payment.settled handlers go on only if CONFIRMED.
FetchConfirmed(c) ==
    /\ NeedsConfirmed(c)
    /\ status[consumer[c].msg.order] = "CONFIRMED"
    /\ consumer' = [consumer EXCEPT ![c].phase = "fetched"]
    /\ UNCHANGED <<orderVars, stockVars, brokerVars, apiVars, failures>>

\* Otherwise they log and return: the message counts as handled.
SkipWrongStatus(c) ==
    /\ NeedsConfirmed(c)
    /\ status[consumer[c].msg.order] # "CONFIRMED"
    /\ consumer' = [consumer EXCEPT ![c].phase = "done"]
    /\ UNCHANGED <<orderVars, stockVars, brokerVars, apiVars, failures>>

\* Mutant: compares with the units on the shelf, the reserved ones included.
SkuSufficesOnShelf(c, s) ==
    /\ Handles(c, "fetched", "order.created")
    /\ s \in consumer[c].left
    /\ available[s] + reserved[s] >= LargestLine[consumer[c].msg.order][s]
    /\ consumer' = [consumer EXCEPT ![c].left = @ \ {s}]
    /\ UNCHANGED <<orderVars, stockVars, brokerVars, apiVars, failures>>

\* One inventory row of the availability check.  A sku in several lines is
\* compared line by line, never with their sum.
SkuSuffices(c, s) ==
    /\ Handles(c, "fetched", "order.created")
    /\ s \in consumer[c].left
    /\ available[s] >= LargestLine[consumer[c].msg.order][s]
    /\ consumer' = [consumer EXCEPT ![c].left = @ \ {s}]
    /\ UNCHANGED <<orderVars, stockVars, brokerVars, apiVars, failures>>

SkuShort(c, s) ==
    /\ Handles(c, "fetched", "order.created")
    /\ s \in consumer[c].left
    /\ available[s] < LargestLine[consumer[c].msg.order][s]
    /\ consumer' = [consumer EXCEPT ![c].phase = "short"]
    /\ UNCHANGED <<orderVars, stockVars, brokerVars, apiVars, failures>>

Done(c) == consumer' = [consumer EXCEPT ![c].phase = "done"]

\* All rows looked sufficient: decrement, flag, RESERVED, stock.reserved.
Reserve(c) ==
    LET o == consumer[c].msg.order IN
    /\ Handles(c, "fetched", "order.created")
    /\ consumer[c].left = {}
    /\ AddAvailable(o, -1)
    /\ AddReserved(o, 1)
    /\ inStock' = [s \in Skus |-> IF Demand[o][s] > 0 /\ available'[s] <= 0
                                  THEN FALSE ELSE inStock[s]]
    /\ SetStatus(o, "RESERVED")
    /\ Emit("stock.reserved", o)
    /\ Done(c)
    /\ UNCHANGED <<released, brokerVars, apiVars, failures>>

\* Some row was insufficient: CANCELLED and its event, nothing reserved.
CancelShort(c) ==
    LET o == consumer[c].msg.order IN
    /\ Handles(c, "short", "order.created")
    /\ SetStatus(o, "CANCELLED")
    /\ Emit("order.cancelled", o)
    /\ Done(c)
    /\ UNCHANGED <<stockVars, brokerVars, apiVars, failures>>

\* Mutant: leaves the product out of stock.
ReleaseUnflagged(c) ==
    LET o == consumer[c].msg.order IN
    /\ Handles(c, "fetched", "order.cancelled")
    /\ consumer[c].seen = "RESERVED"
    /\ AddAvailable(o, 1)
    /\ AddReserved(o, -1)
    /\ released' = [released EXCEPT ![o] = @ + 1]
    /\ SetStatus(o, "CANCELLED")
    /\ Done(c)
    /\ UNCHANGED <<inStock, outbox, unsent, brokerVars, apiVars, failures>>

\* The order.cancelled transaction when the order was read as RESERVED.
Release(c) ==
    LET o == consumer[c].msg.order IN
    /\ Handles(c, "fetched", "order.cancelled")
    /\ consumer[c].seen = "RESERVED"
    /\ AddAvailable(o, 1)
    /\ AddReserved(o, -1)
    /\ inStock' = [s \in Skus |-> IF Demand[o][s] > 0 /\ available'[s] > 0
                                  THEN TRUE ELSE inStock[s]]
    /\ released' = [released EXCEPT ![o] = @ + 1]
    /\ SetStatus(o, "CANCELLED")
    /\ Done(c)
    /\ UNCHANGED <<outbox, unsent, brokerVars, apiVars, failures>>

\* The order.cancelled transaction when it was read in any other status.
CancelOnly(c) ==
    /\ Handles(c, "fetched", "order.cancelled")
    /\ consumer[c].seen # "RESERVED"
    /\ SetStatus(consumer[c].msg.order, "CANCELLED")
    /\ Done(c)
    /\ UNCHANGED <<outbox, unsent, stockVars, brokerVars, apiVars, failures>>

\* Mutant: handles the confirmation without asking for the charge.
RequestChargeForgotten(c) ==
    /\ Handles(c, "fetched", "order.confirmed")
    /\ Done(c)
    /\ UNCHANGED <<orderVars, stockVars, brokerVars, apiVars, failures>>

RequestCharge(c) ==
    /\ Handles(c, "fetched", "order.confirmed")
    /\ Emit("payment.charge_requested", consumer[c].msg.order)
    /\ Done(c)
    /\ UNCHANGED <<status, stockVars, brokerVars, apiVars, failures>>

\* handlePaymentMessage: an unconditional update, and no event.
MarkPaid(c) ==
    /\ Handles(c, "fetched", "payment.settled")
    /\ SetStatus(consumer[c].msg.order, "PAID")
    /\ Done(c)
    /\ UNCHANGED <<outbox, unsent, stockVars, brokerVars, apiVars, failures>>

Ack(c) ==
    /\ consumer[c].phase = "done"
    /\ consumer' = [consumer EXCEPT ![c] = IdleConsumer]
    /\ UNCHANGED <<orderVars, stockVars, brokerVars, apiVars, failures>>

\* The deliveries in the hands of one worker process.
Busy(slots) ==
    slots # {} /\ \A c \in slots : consumer[c].phase # "idle"

Idled(slots) ==
    consumer' = [c \in Consumers |-> IF c \in slots THEN IdleConsumer
                                                    ELSE consumer[c]]

\* Mutant: consumes with noAck, so a death loses the messages.
WorkerDiesUnacked(slots) ==
    /\ Fails("worker")
    /\ Busy(slots)
    /\ Idled(slots)
    /\ UNCHANGED <<orderVars, stockVars, brokerVars, apiVars>>

\* A worker or its connection dies: the broker requeues what is unacked.
WorkerDies(slots) ==
    /\ Fails("worker")
    /\ Busy(slots)
    /\ queue' = queue \cup {consumer[c].msg : c \in slots}
    /\ Idled(slots)
    /\ UNCHANGED <<orderVars, stockVars, parked, processed, apiVars>>

\* A call throws (Redis, database, deadlock): reject without requeue.
HandlerFails(c) ==
    /\ Fails("handler")
    /\ consumer[c].phase \notin {"idle", "done"}
    /\ parked' = parked \cup {consumer[c].msg}
    /\ consumer' = [consumer EXCEPT ![c] = IdleConsumer]
    /\ UNCHANGED <<orderVars, stockVars, queue, processed, apiVars>>

-----------------------------------------------------------------------------
RequestStep(r) ==
    \/ ReadOrder(r) \/ RefuseOrder(r)
    \/ \E o \in Orders : CreateOrder(r, o)
    \/ ConfirmOrder(r) \/ CancelOrder(r) \/ ShipOrder(r) \/ DeliverOrder(r)
    \/ Answer(r)

ConsumerStep(c) ==
    \/ Claim(c) \/ SkipDuplicate(c)
    \/ FetchCreated(c) \/ FetchCancelled(c)
    \/ FetchConfirmed(c) \/ SkipWrongStatus(c)
    \/ \E s \in Skus : SkuSuffices(c, s) \/ SkuShort(c, s)
    \/ Reserve(c) \/ CancelShort(c) \/ Release(c) \/ CancelOnly(c)
    \/ RequestCharge(c) \/ MarkPaid(c)
    \/ Ack(c)

Next ==
    \/ \E r \in Requests : RequestStep(r)
    \/ \E r \in Requests, op \in Commands, o \in Orders \cup {NoOrder},
          k \in Keys \cup {NoKey} : Receive(r, op, o, k)
    \/ \E m \in Messages : Publish(m)
    \/ \E o \in Orders : Settle(o)
    \/ \E c \in Consumers, m \in Messages : Deliver(c, m)
    \/ \E c \in Consumers : ConsumerStep(c)
    \/ \E r \in Requests : RequestFails(r)
    \/ \E m \in Messages : PublishUnmarked(m) \/ GiveUp(m)
    \/ \E slots \in SUBSET Consumers : WorkerDies(slots)
    \/ \E c \in Consumers : HandlerFails(c)

Spec == Init /\ [][Next]_vars

\* A served request and a delivered message are worked on; the dispatcher
\* reaches every PENDING row; the broker's queues are first in first out, so
\* a queued message is delivered even if consumers are busy in between.
Fairness ==
    /\ \A r \in Requests : WF_vars(RequestStep(r))
    /\ \A c \in Consumers : WF_vars(ConsumerStep(c))
    /\ \A m \in Messages : WF_vars(Publish(m))
    /\ \A m \in Messages :
          SF_vars(\E c \in Consumers : Deliver(c, m))

FairSpec == Spec /\ Fairness
=============================================================================
