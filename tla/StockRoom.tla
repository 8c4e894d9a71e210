------------------------------ MODULE StockRoom ------------------------------
(***************************************************************************)
(* Who else writes the stock: adjustments (InventoryService), bulk imports  *)
(* (ImportService) and product edits (ProductsService), next to the orders  *)
(* the worker reserves and releases.                                        *)
(*                                                                          *)
(* An adjustment and an import run in a transaction at READ COMMITTED that  *)
(* reads each row without a lock and then writes an ABSOLUTE availableQty   *)
(* computed from what it read; the row is locked from that write to the     *)
(* commit.  A transaction is therefore modelled line by line: a draft of    *)
(* uncommitted rows, which are the locked ones, and the copy last read.     *)
(* Prisma's upserts of products and the worker's updates are relative or    *)
(* unconditional and take effect at their commit.                           *)
(*                                                                          *)
(* Abstracted: one tenant; names, prices, reasons and audit rows; an order  *)
(* has one line (OrderSaga has several); the lines a request keeps after    *)
(* validation (CsvImport says which); the 24 h of the idempotency keys.     *)
(***************************************************************************)
EXTENDS Integers, Sequences, FiniteSets

CONSTANTS
    Skus, Orders, Keys, NoKey, NoRow,
    Clerks,       \* adjustments and imports the API serves at the same time
    Jobs,         \* what such a request may ask for, see JobsAssumption
    FlagsGiven,   \* what a row of a product import may say of inStock
    Opening,      \* availableQty of each sku at the start, or NoRow
    SkuOf, QtyOf, \* the line of each order
    MaxJobs,      \* bound: requests of clerks in a run, product edits included
    MaxFailures   \* bound: requests that die in a run

Kinds == {"IN", "OUT", "ADJUSTMENT"}
Lines == [sku : Skus, type : Kinds, qty : Nat \ {0}]
Job == [key : Keys \cup {NoKey}, lines : Seq(Lines) \ {<<>>}]

ASSUME JobsAssumption ==
    \* An adjustment has one line and maybe a key, an import has no key.
    /\ Jobs \subseteq Job
    /\ \A j \in Jobs : j.key # NoKey => Len(j.lines) = 1
ASSUME StockRoomAssumption ==
    /\ NoRow \notin Int /\ NoKey \notin Keys
    /\ FlagsGiven \subseteq {{TRUE}, {FALSE}, {}}
    /\ Opening \in [Skus -> Nat \cup {NoRow}]
    /\ SkuOf \in [Orders -> Skus] /\ QtyOf \in [Orders -> Nat \ {0}]
    /\ MaxJobs \in Nat /\ MaxFailures \in Nat

VARIABLES
    available,  \* inventory.availableQty, NoRow while there is no row
    reserved,   \* inventory.reservedQty
    product,    \* products row of each sku: row and inStock
    found,      \* product edits past findOne: <<sku, change>>
    order,      \* orders.status, and "checked" between check and decrement
    announced,  \* orders with an order.created event
    clerk,      \* what each adjustment or import is doing
    cached,     \* idempotency keys with a cached answer
    begun, failures,
    \* Histories: the stock that the committed work, one after the other,
    \* comes to; rows written from a copy that was out of date; rows whose
    \* stock or product was last written by hand; committed adjustments by
    \* key; keys sent again before their answer was cached.
    books, raced, edited, applied, excused

rowVars == <<available, reserved, books, raced>>
orderVars == <<order, announced>>
keyVars == <<cached, applied, excused>>
vars == <<rowVars, product, found, edited, orderVars, clerk, keyVars,
          begun, failures>>

NoJob == [key |-> NoKey, lines |-> <<>>]
Nothing == [s \in {} |-> 0]
IdleClerk == [phase |-> "idle", job |-> NoJob, at |-> 1, seen |-> NoRow,
              draft |-> Nothing, due |-> Nothing, stale |-> {}]

Init ==
    /\ available = Opening /\ books = Opening
    /\ reserved = [s \in Skus |-> 0]
    /\ product = [s \in Skus |->
          IF Opening[s] = NoRow THEN [row |-> "none", inStock |-> FALSE]
          ELSE [row |-> "active", inStock |-> Opening[s] > 0]]
    /\ order = [o \in Orders |-> "NONE"]
    /\ clerk = [c \in Clerks |-> IdleClerk]
    /\ applied = [k \in Keys |-> 0]
    /\ found = {} /\ announced = {} /\ cached = {} /\ raced = {}
    /\ edited = {} /\ excused = {}
    /\ begun = 0 /\ failures = 0

-----------------------------------------------------------------------------
(* Adjustments and imports.                                                 *)

Line(c) == clerk[c].job.lines[clerk[c].at]
LinesLeft(c) == clerk[c].at <= Len(clerk[c].job.lines)

\* Rows a clerk has written and not committed are locked.
LocksOf(c) == DOMAIN clerk[c].draft
Unlocked(s, c) == \A d \in Clerks \ {c} : s \notin LocksOf(d)

OneMoreRequest == begun < MaxJobs /\ begun' = begun + 1

\* A request past idemGet: no answer is cached for its key.
Begin(c, j) ==
    /\ clerk[c].phase = "idle" /\ OneMoreRequest
    /\ j.key \notin cached
    /\ clerk' = [clerk EXCEPT ![c] =
                    [IdleClerk EXCEPT !.phase = "read", !.job = j]]
    /\ excused' = excused \cup
          {k \in Keys : k = j.key /\ \E d \in Clerks : clerk[d].job.key = k}
    /\ UNCHANGED <<rowVars, product, found, edited, orderVars, cached,
                   applied, failures>>

\* Mutant: the rows are read outside the transaction.
ViewCommitted(c, s) == available[s]

\* findUnique inside the transaction: its own writes, else what is committed.
View(c, s) ==
    IF s \in LocksOf(c) THEN clerk[c].draft[s] ELSE available[s]

ReadLine(c) ==
    /\ clerk[c].phase = "read" /\ LinesLeft(c)
    /\ clerk' = [clerk EXCEPT ![c].phase = "write",
                              ![c].seen = View(c, Line(c).sku)]
    /\ UNCHANGED <<rowVars, product, found, edited, orderVars, keyVars,
                   begun, failures>>

\* The switch over the type of the line; a new row starts at 0.
QtyAfter(line, qty) ==
    LET old == IF qty = NoRow THEN 0 ELSE qty IN
    CASE line.type = "IN"  -> old + line.qty
      [] line.type = "OUT" -> old - line.qty
      [] OTHER             -> line.qty

\* OUT of a sku that is missing (404) or short (409).
Refused(c) ==
    /\ Line(c).type = "OUT"
    /\ clerk[c].seen = NoRow \/ clerk[c].seen < Line(c).qty

\* Another request created the row this one was about to create (P2002).
Collides(c) ==
    /\ clerk[c].seen = NoRow
    /\ Line(c).sku \notin LocksOf(c) /\ available[Line(c).sku] # NoRow

WriteLine(c) ==
    LET s == Line(c).sku
        own == s \in LocksOf(c)
        due == IF own THEN clerk[c].due[s] ELSE books[s]
        new(f, q) == [t \in DOMAIN f \cup {s} |-> IF t = s THEN q ELSE f[t]]
    IN
    /\ clerk[c].phase = "write" /\ ~Refused(c)
    /\ Unlocked(s, c) /\ ~Collides(c)
    /\ clerk' = [clerk EXCEPT ![c] =
          [clerk[c] EXCEPT !.phase = "read", !.at = @ + 1, !.seen = NoRow,
                    !.draft = new(@, QtyAfter(Line(c), clerk[c].seen)),
                    !.due = new(@, QtyAfter(Line(c), due)),
                    !.stale = IF ~own /\ clerk[c].seen # available[s]
                              THEN @ \cup {s} ELSE @]]
    /\ UNCHANGED <<rowVars, product, found, edited, orderVars, keyVars,
                   begun, failures>>

\* The transaction is rolled back: an error of the code, or of the database.
Refuse(c) ==
    /\ clerk[c].phase = "write" /\ Unlocked(Line(c).sku, c)
    /\ Refused(c) \/ Collides(c)
    /\ clerk' = [clerk EXCEPT ![c] = IdleClerk]
    /\ UNCHANGED <<rowVars, product, found, edited, orderVars, keyVars,
                   begun, failures>>

\* PostgreSQL ends one transaction of a cycle of waits.
Waits(c, d) ==
    /\ clerk[c].phase = "write" /\ c # d
    /\ Line(c).sku \in LocksOf(d)

\* Mutant: nobody looks for cycles.
BreakDeadlockNever(c) == clerk[c].phase = "write" /\ FALSE /\ UNCHANGED vars

BreakDeadlock(c) ==
    /\ \E Cycle \in SUBSET Clerks :
          c \in Cycle /\ \A d \in Cycle : \E e \in Cycle : Waits(d, e)
    /\ clerk' = [clerk EXCEPT ![c] = IdleClerk]
    /\ UNCHANGED <<rowVars, product, found, edited, orderVars, keyVars,
                   begun, failures>>

\* The commit publishes the draft; neither path touches product.inStock.
Commit(c) ==
    LET j == clerk[c].job IN
    /\ clerk[c].phase = "read" /\ ~LinesLeft(c)
    /\ available' = [s \in Skus |->
          IF s \in LocksOf(c) THEN clerk[c].draft[s] ELSE available[s]]
    /\ books' = [s \in Skus |->
          IF s \in LocksOf(c) THEN clerk[c].due[s] ELSE books[s]]
    /\ raced' = raced \cup clerk[c].stale
    /\ edited' = edited \cup LocksOf(c)
    /\ applied' = [k \in Keys |-> applied[k] + IF k = j.key THEN 1 ELSE 0]
    /\ clerk' = [clerk EXCEPT ![c] = [IdleClerk EXCEPT !.phase = "done",
                                                       !.job = j]]
    /\ UNCHANGED <<reserved, product, found, orderVars, cached, excused,
                   begun, failures>>

\* Mutant: no answer is cached.
FinishUncached(c) ==
    /\ clerk[c].phase = "done"
    /\ clerk' = [clerk EXCEPT ![c] = IdleClerk]
    /\ UNCHANGED <<rowVars, product, found, edited, orderVars, keyVars,
                   begun, failures>>

\* The audit row and idemSet.
Finish(c) ==
    /\ clerk[c].phase = "done"
    /\ cached' = cached \cup ({clerk[c].job.key} \ {NoKey})
    /\ clerk' = [clerk EXCEPT ![c] = IdleClerk]
    /\ UNCHANGED <<rowVars, product, found, edited, orderVars, applied,
                   excused, begun, failures>>

\* The process, Redis or the database fails under the request, or Prisma's
\* 5 s for a transaction run out: it is rolled back, or its answer is lost.
Die(c) ==
    /\ clerk[c].phase # "idle" /\ failures < MaxFailures
    /\ failures' = failures + 1
    /\ excused' = excused \cup (IF clerk[c].phase = "done"
                                THEN {clerk[c].job.key} \ {NoKey} ELSE {})
    /\ clerk' = [clerk EXCEPT ![c] = IdleClerk]
    /\ UNCHANGED <<rowVars, product, found, edited, orderVars, cached,
                   applied, begun>>

-----------------------------------------------------------------------------
(* Products.                                                                *)

SetProduct(s, p) ==
    /\ product' = [product EXCEPT ![s] = p]
    /\ edited' = edited \cup {s}
    /\ UNCHANGED <<rowVars, orderVars, clerk, keyVars, failures>>

\* create: the unique sku is taken even by a deleted product.
CreateProduct(s) ==
    /\ product[s].row = "none"
    /\ SetProduct(s, [row |-> "active", inStock |-> TRUE])
    /\ OneMoreRequest /\ UNCHANGED found

\* The upsert of one row of importProducts: inStock is TRUE, FALSE or not in
\* the row; a deleted product stays deleted.
ImportProduct(s) ==
    /\ \E given \in FlagsGiven :
          SetProduct(s,
             IF product[s].row = "none"
             THEN [row |-> "active", inStock |-> FALSE \notin given]
             ELSE [product[s] EXCEPT !.inStock =
                      IF given = {} THEN @ ELSE TRUE \in given])
    /\ OneMoreRequest /\ UNCHANGED found

\* findOne of update and softDelete, which look for an active product.
FindProduct(s, change) ==
    /\ product[s].row = "active"
    /\ <<s, change>> \notin found
    /\ found' = found \cup {<<s, change>>}
    /\ OneMoreRequest
    /\ UNCHANGED <<rowVars, product, edited, orderVars, clerk, keyVars,
                   failures>>

\* Their update by id, whatever has become of the product.
WriteProduct(s, change) ==
    /\ <<s, change>> \in found
    /\ found' = found \ {<<s, change>>}
    /\ SetProduct(s, IF change = "delete"
                     THEN [product[s] EXCEPT !.row = "deleted"]
                     ELSE [product[s] EXCEPT !.inStock = change = "on"])
    /\ UNCHANGED begun

Changes == {"on", "off", "delete"}

-----------------------------------------------------------------------------
(* Orders and the worker.                                                   *)

\* createOrder writes the outbox row in its transaction, importOrders none.
PlaceOrder(o) ==
    /\ order[o] = "NONE"
    /\ order' = [order EXCEPT ![o] = "CREATED"]
    /\ announced' = announced \cup {o}
    /\ UNCHANGED <<rowVars, product, found, edited, clerk, keyVars, begun,
                   failures>>

ImportOrder(o) ==
    /\ order[o] = "NONE"
    /\ order' = [order EXCEPT ![o] = "CREATED"]
    /\ UNCHANGED <<rowVars, product, found, edited, announced, clerk,
                   keyVars, begun, failures>>

\* Mutant: a short order is left for later.
CheckOrderLater(o) ==
    LET have == available[SkuOf[o]] IN
    /\ o \in announced /\ order[o] = "CREATED"
    /\ have # NoRow /\ have >= QtyOf[o]
    /\ order' = [order EXCEPT ![o] = "checked"]
    /\ UNCHANGED <<rowVars, product, found, edited, announced, clerk,
                   keyVars, begun, failures>>

\* The availability check of the order.created handler; a short order is
\* cancelled in the same transaction.
CheckOrder(o) ==
    LET have == available[SkuOf[o]] IN
    /\ o \in announced /\ order[o] = "CREATED"
    /\ order' = [order EXCEPT ![o] =
          IF have = NoRow THEN "CANCELLED"
          ELSE IF have < QtyOf[o] THEN "CANCELLED" ELSE "checked"]
    /\ UNCHANGED <<rowVars, product, found, edited, announced, clerk,
                   keyVars, begun, failures>>

\* Mutant: the flag is left alone.
MoveFlagless(o, sign) ==
    LET s == SkuOf[o]
        left == available[s] + sign * QtyOf[o]
        settles == IF sign < 0 THEN left <= 0 ELSE left > 0
    IN
    /\ \A c \in Clerks : s \notin LocksOf(c)
    /\ available' = [available EXCEPT ![s] = left]
    /\ reserved' = [reserved EXCEPT ![s] = @ - sign * QtyOf[o]]
    /\ books' = [books EXCEPT ![s] = @ + sign * QtyOf[o]]
    /\ edited' = IF settles THEN edited \ {s} ELSE edited
    /\ UNCHANGED <<product, raced, found, announced, clerk, keyVars, begun,
                   failures>>

\* The worker's updates: relative, and on the flag of an active product when
\* the stock they leave settles it.  sign is -1 to reserve, 1 to release.
Move(o, sign) ==
    LET s == SkuOf[o]
        left == available[s] + sign * QtyOf[o]
        settles == IF sign < 0 THEN left <= 0 ELSE left > 0
    IN
    /\ \A c \in Clerks : s \notin LocksOf(c)
    /\ available' = [available EXCEPT ![s] = left]
    /\ reserved' = [reserved EXCEPT ![s] = @ - sign * QtyOf[o]]
    /\ books' = [books EXCEPT ![s] = @ + sign * QtyOf[o]]
    /\ product' = IF settles /\ product[s].row = "active"
                  THEN [product EXCEPT ![s].inStock = sign > 0]
                  ELSE product
    /\ edited' = IF settles THEN edited \ {s} ELSE edited
    /\ UNCHANGED <<raced, found, announced, clerk, keyVars, begun, failures>>

ReserveOrder(o) ==
    /\ order[o] = "checked"
    /\ order' = [order EXCEPT ![o] = "RESERVED"]
    /\ Move(o, -1)

\* The order.cancelled handler that read RESERVED (OrderSaga says when).
ReleaseOrder(o) ==
    /\ order[o] = "RESERVED"
    /\ order' = [order EXCEPT ![o] = "CANCELLED"]
    /\ Move(o, 1)

-----------------------------------------------------------------------------
ClerkStep(c) ==
    \/ ReadLine(c) \/ WriteLine(c) \/ Refuse(c) \/ Commit(c) \/ Finish(c)
    \/ BreakDeadlock(c)

Next ==
    \/ \E c \in Clerks : (\E j \in Jobs : Begin(c, j)) \/ ClerkStep(c) \/ Die(c)
    \/ \E s \in Skus : CreateProduct(s) \/ ImportProduct(s)
    \/ \E s \in Skus, change \in Changes :
          FindProduct(s, change) \/ WriteProduct(s, change)
    \/ \E o \in Orders :
          \/ PlaceOrder(o) \/ ImportOrder(o)
          \/ CheckOrder(o) \/ ReserveOrder(o) \/ ReleaseOrder(o)

Spec == Init /\ [][Next]_vars

\* Node runs every continuation and RabbitMQ delivers every event; a row lock
\* is granted in the order it was asked for, so no writer waits for ever.
Fairness ==
    /\ \A c \in Clerks : WF_vars(ClerkStep(c)) /\ SF_vars(WriteLine(c))
    /\ \A o \in Orders : WF_vars(CheckOrder(o)) /\ SF_vars(ReserveOrder(o))

FairSpec == Spec /\ Fairness
=============================================================================
