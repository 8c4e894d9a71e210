------------------------ MODULE StockRoomProperties ------------------------
(* What holds of the stock when people and imports write it next to the      *)
(* worker.                                                                   *)
EXTENDS StockRoom

Qty == Int \cup {NoRow}

ClerkTyped(r) ==
    /\ r.phase \in {"idle", "read", "write", "done"}
    /\ r.job \in Jobs \cup {NoJob}
    /\ r.at \in Nat \ {0}
    /\ r.seen \in Qty
    /\ DOMAIN r.draft \subseteq Skus /\ DOMAIN r.due = DOMAIN r.draft
    /\ \A s \in DOMAIN r.draft : r.draft[s] \in Int /\ r.due[s] \in Int
    /\ r.stale \subseteq DOMAIN r.draft

TablesTyped ==
    /\ available \in [Skus -> Qty] /\ books \in [Skus -> Qty]
    /\ reserved \in [Skus -> Int]
    /\ product \in [Skus -> [row : {"none", "active", "deleted"},
                             inStock : BOOLEAN]]
    /\ found \subseteq Skus \X Changes
    /\ order \in [Orders -> {"NONE", "CREATED", "checked", "RESERVED",
                             "CANCELLED"}]

\* Type correctness of the tables, the keys, the histories and the requests.
TypeOK ==
    /\ TablesTyped
    /\ announced \subseteq Orders
    /\ cached \subseteq Keys /\ excused \subseteq Keys
    /\ applied \in [Keys -> Nat]
    /\ raced \subseteq Skus /\ edited \subseteq Skus
    /\ DOMAIN clerk = Clerks /\ \A c \in Clerks : ClerkTyped(clerk[c])
    /\ begun \in 0..MaxJobs /\ failures \in 0..MaxFailures

\* The stock of a sku is what the committed adjustments, imports,
\* reservations and releases come to, one after the other, in the order of
\* their commits, unless a line was computed from a copy that was out of date
\* when it was written (createAdjustment and importInventory write absolute
\* quantities).  In particular a sku written twice by one import, a rollback,
\* and a deadlock leave no trace.
SerialUnlessRaced ==
    \A s \in Skus \ raced : available[s] = books[s]

\* The flag of an active product differs from its stock only since somebody
\* adjusted or imported the stock or edited the product: these never set it,
\* or set it as they please, and the worker's next reservation of the last
\* unit, or release into an empty shelf, puts it right.
FlagDriftHasCause ==
    \A s \in Skus \ edited :
        product[s].row = "active" =>
            product[s].inStock = (IF available[s] = NoRow THEN FALSE
                                  ELSE available[s] > 0)

\* An adjustment is applied twice under one Idempotency-Key only if the key
\* was sent again while its first request was still running, or after a
\* request had died between its commit and idemSet.
DuplicateHasCause ==
    \A k \in Keys : applied[k] > 1 => k \in excused

\* Every adjustment or import ends: transactions that wait for each other's
\* rows (two imports with the same skus in another order) are broken up.
RequestsEnd ==
    \A c \in Clerks : clerk[c].phase # "idle" ~> clerk[c].phase = "idle"

\* An order whose event was written is reserved or cancelled, however many
\* adjustments and imports lock its row.  (Imported orders have no event.)
AnnouncedIsDecided ==
    \A o \in Orders :
        o \in announced ~> order[o] \in {"RESERVED", "CANCELLED"}
=============================================================================
