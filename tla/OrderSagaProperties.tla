------------------------- MODULE OrderSagaProperties -------------------------
(* What the order saga guarantees, what its documentation says it guarantees *)
(* and it does not, the milestones it implements, and the inductive          *)
(* invariant from which OrderSaga_proofs derives the guarantees.             *)
EXTENDS OrderSaga, Functions

RequestPhases == {"idle", "received", "read", "committed"}
ConsumerPhases == {"idle", "delivered", "claimed", "fetched", "short", "done"}

RequestRecord == [phase : RequestPhases, op : AllCommands \cup {"none"},
                  order : Orders \cup {NoOrder}, key : Keys \cup {NoKey}]
ConsumerRecord == [phase : ConsumerPhases, msg : Messages \cup {NoMessage},
                   seen : Statuses, left : SUBSET Skus]

OrdersTyped ==
    /\ status \in [Orders -> Statuses]
    /\ outbox \in [OutboxTypes -> [Orders -> Nat]]
    /\ unsent \subseteq Messages

StockTyped ==
    /\ available \in [Skus -> Int]
    /\ reserved \in [Skus -> Int]
    /\ inStock \in [Skus -> BOOLEAN]
    /\ released \in [Orders -> Nat]

BrokerTyped ==
    /\ queue \subseteq Messages
    /\ parked \subseteq Messages
    /\ processed \subseteq Messages

CachesTyped ==
    /\ created \in [Keys -> Orders \cup {NoOrder}]
    /\ answered \subseteq [op : AllCommands, order : Orders, key : Keys]

\* Type correctness of the tables, the broker, the Redis keys and the
\* in-flight work.
TypeOK ==
    /\ OrdersTyped /\ StockTyped /\ BrokerTyped /\ CachesTyped
    /\ request \in [Requests -> RequestRecord]
    /\ consumer \in [Consumers -> ConsumerRecord]
    /\ failures \in 0..MaxFailures

\* Whatever is duplicated, redelivered, retried or run concurrently, the
\* worker reserves the stock of an order at most once, releases it at most
\* once, and asks for its charge at most once, even when the order was
\* confirmed twice (isAlreadyProcessed sets its key before the handler runs).
AtMostOnce ==
    \A o \in Orders :
        /\ outbox["stock.reserved"][o] <= 1
        /\ released[o] <= 1
        /\ outbox["payment.charge_requested"][o] <= 1

\* The stages of the saga leave their traces in causal order, whatever stale
\* status a command or a handler acted on: nothing is released or confirmed
\* that was never reserved, charged that was never confirmed, settled that
\* was never charged, shipped unsettled, delivered unshipped.
CausalOrder ==
    \A o \in Orders :
        LET Has(t) == outbox[t][o] > 0 IN
        /\ Has("stock.reserved") => Has("order.created")
        /\ released[o] > 0 => Has("stock.reserved") /\ Has("order.cancelled")
        /\ Has("order.confirmed") => Has("stock.reserved")
        /\ Has("payment.charge_requested") => Has("order.confirmed")
        /\ Msg("payment.settled", o) \in processed =>
              Has("payment.charge_requested")
        /\ Has("order.shipped") => Msg("payment.settled", o) \in processed
        /\ Has("order.delivered") => Has("order.shipped")

\* What announces a status: the outbox row committed with it or before it,
\* or, for PAID, which has no event, the settlement the worker claimed.
Announced(o, s) ==
    CASE s = "NONE"      -> \A t \in OutboxTypes : outbox[t][o] = 0
      [] s = "CREATED"   -> outbox["order.created"][o] > 0
      [] s = "RESERVED"  -> outbox["stock.reserved"][o] > 0
      [] s = "CONFIRMED" -> outbox["order.confirmed"][o] > 0
      [] s = "PAID"      -> Msg("payment.settled", o) \in processed
      [] s = "SHIPPED"   -> outbox["order.shipped"][o] > 0
      [] s = "DELIVERED" -> outbox["order.delivered"][o] > 0
      [] s = "CANCELLED" -> outbox["order.cancelled"][o] > 0

\* The transactional outbox: no crash, race or stale read leaves an order in
\* a status the rest of the system was never told of.
StatusAnnounced == \A o \in Orders : Announced(o, status[o])

\* Units of s the saga accounts to the orders, f[o] units-of-demand each.
Units(f, s) == SumFunction([o \in Orders |-> f[o] * Demand[o][s]])

\* The books balance: availableQty and reservedQty are exactly what the
\* reservations, releases and confirmations that committed make of the
\* initial stock, however their transactions interleaved.
StockAccounting ==
    \A s \in Skus :
        LET held == [o \in Orders |-> outbox["stock.reserved"][o] - released[o]]
            sold == [o \in Orders |-> outbox["order.confirmed"][o]]
        IN /\ available[s] = Stock[s] - Units(held, s)
           /\ reserved[s] = Units(held, s) - Units(sold, s)

\* A product is in stock exactly when units of it are available, through
\* every reservation and release, whichever order their transactions take.
FlagFollowsStock == \A s \in Skus : inStock[s] <=> available[s] > 0

\* Units of s an order wants beyond its largest line, which is all that the
\* check compares.
Unchecked(o, s) == Demand[o][s] - LargestLine[o][s]

\* No order wants more of s than large, nor more unchecked than split.
Largest(s, large, split) ==
    \A o \in Orders : /\ Demand[o][s] <= Demand[large][s]
                      /\ Unchecked(o, s) <= Unchecked(split, s)

\* Stock is oversold by a bounded amount only, however many orders come: the
\* worker checks before it decrements, so beyond what the lines of one order
\* hide from the check, each delivery handled at the same time can take one
\* more order's units that no check saw.  One consumer and single-line orders
\* never oversell.
OversellBounded ==
    \A s \in Skus : \A large, split \in Orders :
        Largest(s, large, split) => available[s] >=
              -((Cardinality(Consumers) - 1) * Demand[large][s]
                + Unchecked(split, s))

\* A message whose row was committed and that no consumer ever claimed is
\* still somewhere: in the outbox, a queue, a consumer's hands, or parked
\* where an operator finds it.
NothingVanishes ==
    \A o \in Orders, t \in ConsumedTypes :
        outbox[t][o] > 0 =>
            \/ Msg(t, o) \in unsent \cup queue \cup parked \cup processed
            \/ \E c \in Consumers : consumer[c].msg = Msg(t, o)

\* Without failures an order the API created is decided on: reserved,
\* cancelled, or further.
CreatedIsDecided ==
    \A o \in Orders : status[o] = "CREATED" ~> status[o] # "CREATED"

\* The worker consumes order.confirmed and asks for the charge: an order does
\* not stay CONFIRMED without one.
ConfirmedIsCharged ==
    \A o \in Orders :
        status[o] = "CONFIRMED" ~>
            \/ outbox["payment.charge_requested"][o] > 0
            \/ status[o] # "CONFIRMED"

-----------------------------------------------------------------------------
(* What the documentation and the tests say, and the code does not do.      *)

\* Nothing is under way: no request, no delivery, no message on its way.
AtRest ==
    /\ \A r \in Requests : request[r].phase = "idle"
    /\ \A c \in Consumers : consumer[c].phase = "idle"
    /\ unsent = {} /\ queue = {}

\* Stock is released on cancel: once everything has been handled, a cancelled
\* order holds no reservation.
CancelReleasesStock ==
    AtRest => \A o \in Orders :
        status[o] = "CANCELLED" /\ outbox["order.confirmed"][o] = 0
            => outbox["stock.reserved"][o] = released[o]

\* The same Idempotency-Key returns the same result.
SameKeySameResult ==
    [][\A k \in Keys : created[k] # NoOrder => created'[k] = created[k]]_vars

-----------------------------------------------------------------------------
(* Refinement: the milestones read off the outbox rows, the settlement the  *)
(* worker claimed and the releases.                                         *)

Evidence(o, m) ==
    CASE m = "created"   -> outbox["order.created"][o] > 0
      [] m = "reserved"  -> outbox["stock.reserved"][o] > 0
      [] m = "cancelled" -> outbox["order.cancelled"][o] > 0
      [] m = "released"  -> released[o] > 0
      [] m = "confirmed" -> outbox["order.confirmed"][o] > 0
      [] m = "charged"   -> outbox["payment.charge_requested"][o] > 0
      [] m = "settled"   -> Msg("payment.settled", o) \in processed
      [] m = "shipped"   -> outbox["order.shipped"][o] > 0
      [] m = "delivered" -> outbox["order.delivered"][o] > 0

MilestoneNames == {"created", "reserved", "cancelled", "released", "confirmed",
                   "charged", "settled", "shipped", "delivered"}
Reached == [o \in Orders |-> {m \in MilestoneNames : Evidence(o, m)}]

Abstract == INSTANCE OrderMilestones WITH reached <- Reached

\* Every behaviour of the saga, failures included, passes milestones in order.
RefinesMilestones == Abstract!Spec

-----------------------------------------------------------------------------
(* The inductive invariant behind the safety properties.                    *)

\* A busy request has its command, key and order; a busy consumer a message.
RequestWellFormed(q) ==
    q.phase # "idle" =>
        /\ q.op \in AllCommands
        /\ q.op = "create" => q.key \in Keys
        /\ q.op # "create" \/ q.phase = "committed" => q.order \in Orders
ConsumerWellFormed(w) ==
    IF w.phase = "idle" THEN w.msg = NoMessage ELSE w.msg \in Messages

WellFormed ==
    /\ \A r \in Requests : RequestWellFormed(request[r])
    /\ \A c \in Consumers : ConsumerWellFormed(consumer[c])

\* A consumer between the dedup key and its commit; one past the key.
Active(c) == consumer[c].phase \in {"claimed", "fetched", "short"}
PastKey(c) == consumer[c].phase \in {"claimed", "fetched", "short", "done"}

\* The dedup key is a lock that is never released: at most one consumer is
\* ever active for a message, and none once its effect is committed.
Exclusive ==
    /\ \A c \in Consumers : PastKey(c) => consumer[c].msg \in processed
    /\ \A c, d \in Consumers :
          Active(c) /\ Active(d) /\ consumer[c].msg = consumer[d].msg => c = d

Spent(m) ==
    m \in processed /\ \A c \in Consumers : Active(c) => consumer[c].msg # m

\* An effect that has happened has spent the message that causes it.
EffectSpent ==
    \A o \in Orders :
        /\ outbox["stock.reserved"][o] > 0 => Spent(Msg("order.created", o))
        /\ released[o] > 0 => Spent(Msg("order.cancelled", o))
        /\ outbox["payment.charge_requested"][o] > 0 =>
              Spent(Msg("order.confirmed", o))

\* A message exists only because its event does.
Caused(m) ==
    IF m.type = "payment.settled"
    THEN outbox["payment.charge_requested"][m.order] > 0
    ELSE outbox[m.type][m.order] > 0

MessagesCaused ==
    /\ \A m \in unsent \cup queue \cup parked \cup processed : Caused(m)
    /\ \A c \in Consumers :
          consumer[c].phase # "idle" => Caused(consumer[c].msg)

\* What a status that was read, and may be stale, still proves.
ReadsProve ==
    /\ \A r \in Requests : LET q == request[r] IN
          /\ q.phase \in {"received", "read"} /\ q.op # "create" =>
                outbox["order.created"][q.order] > 0
          /\ q.phase = "read" /\ q.op = "confirm" =>
                outbox["stock.reserved"][q.order] > 0
          /\ q.phase = "read" /\ q.op = "ship" =>
                Msg("payment.settled", q.order) \in processed
          /\ q.phase = "read" /\ q.op = "deliver" =>
                outbox["order.shipped"][q.order] > 0
    /\ \A c \in Consumers :
          Handles(c, "fetched", "order.cancelled")
            /\ consumer[c].seen = "RESERVED"
          => outbox["stock.reserved"][consumer[c].msg.order] > 0

\* Every event of an order follows its creation.
CreatedFirst ==
    \A o \in Orders, t \in OutboxTypes :
        outbox[t][o] > 0 => outbox["order.created"][o] > 0

SagaInv ==
    /\ TypeOK /\ WellFormed
    /\ Exclusive /\ EffectSpent /\ AtMostOnce
    /\ MessagesCaused /\ ReadsProve /\ CreatedFirst
    /\ CausalOrder /\ StatusAnnounced /\ NothingVanishes

\* A delivery that passed the check of s and has not decremented it yet.
Passed(w, s) ==
    /\ w.phase = "fetched" /\ w.msg.type = "order.created"
    /\ Demand[w.msg.order][s] > 0
    /\ s \notin w.left
Takers(s) == {c \in Consumers : Passed(consumer[c], s)}

\* What p takers leave at least, when an order wants most units of s, excess
\* of them unchecked.
Floor(p, most, excess) == -((Cardinality(Consumers) - p) * most + excess)

\* One of the takers, the last that passed, saw its own lines covered.
TakersCovered(s, most, excess) ==
    IF Takers(s) = {} THEN available[s] >= Floor(1, most, excess)
    ELSE \E c \in Takers(s) :
            available[s] >= Demand[consumer[c].msg.order][s]
                              + Floor(Cardinality(Takers(s)), most, excess)

\* Every sku is covered, whatever order wants most of it.
OversellInv ==
    \A s \in Skus : \A large, split \in Orders :
        Largest(s, large, split) =>
            TakersCovered(s, Demand[large][s], Unchecked(split, s))
=============================================================================
