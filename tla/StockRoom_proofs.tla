--------------------------- MODULE StockRoom_proofs ---------------------------
(* Proofs about StockRoom for every catalogue, any number of adjustments,    *)
(* imports, edits and orders, whatever they ask for, and any failures.       *)
EXTENDS StockRoomProperties, TLAPS

-----------------------------------------------------------------------------
(* The inductive invariant.                                                  *)

Drafts == UNION {[S -> Int] : S \in SUBSET Skus}

ClerkSet == [phase : {"idle", "read", "write", "done"},
             job : Jobs \cup {NoJob}, at : Nat \ {0}, seen : Qty,
             draft : Drafts, due : Drafts, stale : SUBSET Skus]

SkuAt(r) == r.job.lines[r.at].sku

\* A request has a line to write, knows its own writes, and its draft is what
\* the books come to, except where it worked on an old copy.
ClerkTrue(r, old) ==
    /\ DOMAIN r.due = DOMAIN r.draft /\ r.stale \subseteq DOMAIN r.draft
    /\ r.phase = "write" => r.at <= Len(r.job.lines)
    /\ r.phase = "write" =>
          (SkuAt(r) \in DOMAIN r.draft => r.seen = r.draft[SkuAt(r)])
    /\ \A s \in DOMAIN r.draft : s \notin r.stale \cup old => r.draft[s] = r.due[s]

ClerksTrue == clerk \in [Clerks -> ClerkSet] /\ \A c \in Clerks : ClerkTrue(clerk[c], raced)

HistoriesTyped == announced \subseteq Orders /\ raced \subseteq Skus /\ edited \subseteq Skus
KeysTyped == cached \subseteq Keys /\ excused \subseteq Keys /\ applied \in [Keys -> Nat]
Bounds == begun \in 0..MaxJobs /\ failures \in 0..MaxFailures

\* A row never goes away, so that a checked order has one.
OrdersHaveRows ==
    \A o \in Orders : order[o] \in {"checked", "RESERVED"} => available[SkuOf[o]] # NoRow

\* The stock and the books know the same rows.
SameRows == \A s \in Skus : available[s] # NoRow => books[s] # NoRow

\* A key that nothing excuses has one request, which has been applied once if
\* its answer is cached or on its way there, and none once it is cached.
KeyTrue(k) ==
    /\ \A c, d \in Clerks : clerk[c].job.key = k /\ clerk[d].job.key = k => c = d
    /\ k \in cached => \A c \in Clerks : clerk[c].job.key # k
    /\ applied[k] <= 1
    /\ applied[k] = 1 => \/ k \in cached
                         \/ \E c \in Clerks : clerk[c].phase = "done" /\ clerk[c].job.key = k

KeysTrue == \A k \in Keys \ excused : KeyTrue(k)
OneRequestEach == \A c \in Clerks : clerk[c].phase = "idle" => clerk[c].job.key = NoKey

StockInv == /\ TablesTyped /\ HistoriesTyped /\ Bounds /\ ClerksTrue
            /\ OrdersHaveRows /\ SameRows /\ SerialUnlessRaced /\ FlagDriftHasCause
KeysInv == KeysTyped /\ OneRequestEach /\ KeysTrue

-----------------------------------------------------------------------------
(* Facts about the data.                                                     *)

LEMMA JobTyped ==
  ASSUME NEW j \in Jobs \cup {NoJob}
  PROVE  j.lines \in Seq(Lines) /\ j.key \in Keys \cup {NoKey}
  <1>1. CASE j \in Jobs
    <2>1. j \in Job
      BY <1>1, JobsAssumption
    <2> QED BY <2>1 DEF Job
  <1>2. CASE j = NoJob
    BY <1>2 DEF NoJob
  <1> QED BY <1>1, <1>2

LEMMA NothingTyped == Nothing \in Drafts /\ DOMAIN Nothing = {}
  <1>1. Nothing \in [{} -> Int] /\ DOMAIN Nothing = {}
    BY DEF Nothing
  <1> QED BY <1>1 DEF Drafts

LEMMA IdleTyped ==
  /\ IdleClerk \in ClerkSet /\ IdleClerk.phase = "idle" /\ IdleClerk.job = NoJob
  /\ NoJob.key = NoKey /\ \A old : ClerkTrue(IdleClerk, old)
  BY NothingTyped DEF IdleClerk, ClerkSet, ClerkTrue, Qty, NoJob

LEMMA LineTyped ==
  ASSUME NEW r \in ClerkSet, r.at <= Len(r.job.lines)
  PROVE  r.job.lines[r.at] \in Lines /\ SkuAt(r) \in Skus
  <1>1. r.job.lines \in Seq(Lines) /\ r.at \in Nat \ {0}
    BY JobTyped DEF ClerkSet
  <1>2. r.at \in 1..Len(r.job.lines)
    BY <1>1
  <1>3. r.job.lines[r.at] \in Lines
    BY <1>1, <1>2
  <1> QED BY <1>3 DEF SkuAt, Lines

LEMMA QtyTyped ==
  ASSUME NEW l \in Lines, NEW q \in Qty
  PROVE  QtyAfter(l, q) \in Int
  <1>1. l.qty \in Int
    BY DEF Lines
  <1>2. (IF q = NoRow THEN 0 ELSE q) \in Int
    BY DEF Qty
  <1> QED BY <1>1, <1>2 DEF QtyAfter

LEMMA DraftTyped ==
  ASSUME NEW f \in Drafts
  PROVE  DOMAIN f \subseteq Skus /\ \A s \in DOMAIN f : f[s] \in Int
  BY DEF Drafts

LEMMA NewDraft ==
  ASSUME NEW f \in Drafts, NEW s \in Skus, NEW q \in Int,
         NEW g, g = [t \in DOMAIN f \cup {s} |-> IF t = s THEN q ELSE f[t]]
  PROVE  /\ g \in Drafts /\ DOMAIN g = DOMAIN f \cup {s} /\ g[s] = q
         /\ \A t \in DOMAIN f : t # s => g[t] = f[t]
  <1>1. DOMAIN f \subseteq Skus /\ \A t \in DOMAIN f : f[t] \in Int
    BY DraftTyped
  <1>2. g \in [DOMAIN f \cup {s} -> Int]
    BY <1>1
  <1>3. DOMAIN f \cup {s} \in SUBSET Skus
    BY <1>1
  <1> QED BY <1>2, <1>3 DEF Drafts

-----------------------------------------------------------------------------
(* What the steps of a request do to it.                                     *)

LEMMA BeginEffect ==
  ASSUME StockInv, NEW c \in Clerks, NEW j \in Jobs, Begin(c, j)
  PROVE  \E r \in ClerkSet :
            /\ clerk' = [clerk EXCEPT ![c] = r] /\ ClerkTrue(r, raced)
            /\ r.phase = "read" /\ r.job = j
  <1> DEFINE r == [IdleClerk EXCEPT !.phase = "read", !.job = j]
  <1>1. r \in ClerkSet /\ r.phase = "read" /\ r.job = j
    BY IdleTyped DEF ClerkSet
  <1>2. ClerkTrue(r, raced)
    BY NothingTyped DEF IdleClerk, ClerkTrue
  <1>3. clerk' = [clerk EXCEPT ![c] = r]
    BY DEF Begin
  <1> HIDE DEF r
  <1> QED BY <1>1, <1>2, <1>3

LEMMA ReadEffect ==
  ASSUME StockInv, NEW c \in Clerks, ReadLine(c)
  PROVE  \E r \in ClerkSet :
            /\ clerk' = [clerk EXCEPT ![c] = r] /\ ClerkTrue(r, raced)
            /\ r.phase = "write" /\ r.job = clerk[c].job /\ clerk[c].phase = "read"
  <1> DEFINE k == clerk[c]
             v == View(c, Line(c).sku)
             r == [k EXCEPT !.phase = "write", !.seen = v]
  <1>1. k \in ClerkSet /\ ClerkTrue(k, raced) /\ k.phase = "read"
        /\ k.at <= Len(k.job.lines) /\ Line(c).sku = SkuAt(k)
    BY DEF StockInv, ClerksTrue, ReadLine, LinesLeft, Line, SkuAt
  <1>2. SkuAt(k) \in Skus
    BY <1>1, LineTyped
  <1>3. k.draft \in Drafts
    BY <1>1 DEF ClerkSet
  <1>4. v = IF SkuAt(k) \in DOMAIN k.draft THEN k.draft[SkuAt(k)] ELSE available[SkuAt(k)]
    BY <1>1 DEF View, LocksOf
  <1>5. available \in [Skus -> Qty]
    BY DEF StockInv, TablesTyped
  <1>6. v \in Qty
    BY <1>2, <1>3, <1>4, <1>5, DraftTyped DEF Qty
  <1>7. clerk' = [clerk EXCEPT ![c] = r]
    BY DEF ReadLine, StockInv, ClerksTrue, ClerkSet
  <1> HIDE DEF k, v
  <1>8. /\ r \in ClerkSet /\ r.phase = "write" /\ r.job = k.job /\ r.at = k.at
        /\ r.seen = v /\ r.draft = k.draft /\ r.due = k.due /\ r.stale = k.stale
    BY <1>1, <1>6 DEF ClerkSet
  <1> HIDE DEF r
  <1>9. SkuAt(r) = SkuAt(k)
    BY <1>8 DEF SkuAt
  <1>10. ClerkTrue(r, raced)
    BY <1>1, <1>4, <1>8, <1>9 DEF ClerkTrue
  <1> QED BY <1>1, <1>7, <1>8, <1>10 DEF k

LEMMA WriteEffect ==
  ASSUME StockInv, NEW c \in Clerks, WriteLine(c)
  PROVE  \E r \in ClerkSet :
            /\ clerk' = [clerk EXCEPT ![c] = r] /\ ClerkTrue(r, raced)
            /\ r.phase = "read" /\ r.job = clerk[c].job /\ clerk[c].phase = "write"
  <1> DEFINE k == clerk[c]
             s == SkuAt(k)
             own == s \in DOMAIN k.draft
             was == IF own THEN k.due[s] ELSE books[s]
             q == QtyAfter(k.job.lines[k.at], k.seen)
             p == QtyAfter(k.job.lines[k.at], was)
             f == [t \in DOMAIN k.draft \cup {s} |-> IF t = s THEN q ELSE k.draft[t]]
             g == [t \in DOMAIN k.due \cup {s} |-> IF t = s THEN p ELSE k.due[t]]
             old == IF ~own /\ k.seen # available[s] THEN k.stale \cup {s} ELSE k.stale
             r == [k EXCEPT !.phase = "read", !.at = @ + 1, !.seen = NoRow,
                            !.draft = f, !.due = g, !.stale = old]
  <1>1. /\ k \in ClerkSet /\ ClerkTrue(k, raced) /\ k.phase = "write"
        /\ k.at <= Len(k.job.lines)
    BY DEF StockInv, ClerksTrue, WriteLine, ClerkTrue
  <1>2. k.job.lines[k.at] \in Lines /\ s \in Skus
    BY <1>1, LineTyped
  <1>3. /\ k.draft \in Drafts /\ k.due \in Drafts /\ k.seen \in Qty
        /\ k.stale \subseteq Skus
    BY <1>1 DEF ClerkSet
  <1>4. was \in Qty
    <2>1. books \in [Skus -> Qty]
      BY DEF StockInv, TablesTyped
    <2>2. DOMAIN k.due = DOMAIN k.draft
      BY <1>1 DEF ClerkTrue
    <2> HIDE DEF k, s
    <2> QED BY <1>2, <1>3, <2>1, <2>2, DraftTyped DEF Qty
  <1>5. q \in Int /\ p \in Int
    BY <1>2, <1>3, <1>4, QtyTyped
  <1>6. clerk' = [clerk EXCEPT ![c] = r]
    BY DEF WriteLine, LocksOf, Line, SkuAt
  <1> HIDE DEF k, s, p, q, was
  <1>7. /\ f \in Drafts /\ DOMAIN f = DOMAIN k.draft \cup {s} /\ f[s] = q
        /\ \A t \in DOMAIN k.draft : t # s => f[t] = k.draft[t]
    BY <1>2, <1>3, <1>5, NewDraft
  <1>8. /\ g \in Drafts /\ DOMAIN g = DOMAIN k.due \cup {s} /\ g[s] = p
        /\ \A t \in DOMAIN k.due : t # s => g[t] = k.due[t]
    BY <1>2, <1>3, <1>5, NewDraft
  <1>9. old \subseteq Skus
    BY <1>2, <1>3
  <1>10. s \notin old \cup raced => p = q
    <2> SUFFICES ASSUME s \notin old, s \notin raced PROVE p = q
      OBVIOUS
    <2>1. CASE own
      <3>1. k.seen = k.draft[s] /\ k.draft[s] = k.due[s]
        BY <1>1, <2>1 DEF ClerkTrue, s
      <3> QED BY <2>1, <3>1 DEF p, q, was
    <2>2. CASE ~own
      <3>1. k.seen = available[s]
        BY <2>2
      <3>2. available[s] = books[s]
        BY <1>2 DEF StockInv, SerialUnlessRaced
      <3> QED BY <2>2, <3>1, <3>2 DEF p, q, was
    <2> QED BY <2>1, <2>2
  <1>11. k.stale \subseteq old /\ old \subseteq k.stale \cup {s}
    OBVIOUS
  <1> HIDE DEF f, g, old
  <1>12. /\ r \in ClerkSet /\ r.phase = "read" /\ r.job = k.job
         /\ r.draft = f /\ r.due = g /\ r.stale = old
    <2>1. k.at + 1 \in Nat \ {0} /\ NoRow \in Qty
      BY <1>1 DEF ClerkSet, Qty
    <2> QED BY <1>1, <1>7, <1>8, <1>9, <2>1 DEF ClerkSet
  <1> HIDE DEF r
  <1>13. ClerkTrue(r, raced)
    <2>1. /\ DOMAIN k.due = DOMAIN k.draft /\ k.stale \subseteq DOMAIN k.draft
          /\ \A t \in DOMAIN k.draft :
                t \notin k.stale \cup raced => k.draft[t] = k.due[t]
      BY <1>1 DEF ClerkTrue
    <2>2. DOMAIN g = DOMAIN f /\ old \subseteq DOMAIN f
      BY <1>7, <1>8, <1>11, <2>1
    <2>3. ASSUME NEW t \in DOMAIN f, t \notin old \cup raced PROVE f[t] = g[t]
      BY <1>7, <1>8, <1>10, <1>11, <2>1, <2>3
    <2> QED BY <1>12, <2>2, <2>3 DEF ClerkTrue
  <1> QED BY <1>1, <1>6, <1>12, <1>13 DEF k

LEMMA CommitEffect ==
  ASSUME StockInv, NEW c \in Clerks, Commit(c)
  PROVE  \E r \in ClerkSet :
            /\ clerk' = [clerk EXCEPT ![c] = r] /\ r.phase = "done"
            /\ r.job = clerk[c].job /\ clerk[c].phase = "read"
            /\ \A old : ClerkTrue(r, old)
  <1> DEFINE j == clerk[c].job
             r == [IdleClerk EXCEPT !.phase = "done", !.job = j]
  <1>1. j \in Jobs \cup {NoJob}
    BY DEF StockInv, ClerksTrue, ClerkSet
  <1>2. clerk' = [clerk EXCEPT ![c] = r] /\ clerk[c].phase = "read"
    BY DEF Commit
  <1> HIDE DEF j
  <1>3. r \in ClerkSet /\ r.phase = "done" /\ r.job = j
    BY <1>1, IdleTyped DEF ClerkSet
  <1>4. \A old : ClerkTrue(r, old)
    BY NothingTyped DEF IdleClerk, ClerkTrue
  <1> HIDE DEF r
  <1> QED BY <1>2, <1>3, <1>4 DEF j

\* Steps that end a request leave an idle clerk.
LEMMA IdleEffect ==
  ASSUME StockInv, NEW c \in Clerks,
         Refuse(c) \/ BreakDeadlock(c) \/ Finish(c) \/ Die(c)
  PROVE  clerk' = [clerk EXCEPT ![c] = IdleClerk]
  BY DEF Refuse, BreakDeadlock, Finish, Die

LEMMA UpdatedClerks ==
  ASSUME clerk \in [Clerks -> ClerkSet], NEW c \in Clerks, NEW r \in ClerkSet,
         clerk' = [clerk EXCEPT ![c] = r]
  PROVE  /\ clerk' \in [Clerks -> ClerkSet] /\ clerk'[c] = r
         /\ \A d \in Clerks : d # c => clerk'[d] = clerk[d]
  OBVIOUS

\* The history of races only grows.
LEMMA TrueOfMore ==
  ASSUME NEW r, NEW old, NEW more, old \subseteq more, ClerkTrue(r, old)
  PROVE  ClerkTrue(r, more)
  BY DEF ClerkTrue

LEMMA NextClerksTrue ==
  ASSUME StockInv, [Next]_vars
  PROVE  ClerksTrue'
  <1> USE DEF ClerksTrue
  <1>a. clerk \in [Clerks -> ClerkSet] /\ \A c \in Clerks : ClerkTrue(clerk[c], raced)
    BY DEF StockInv
  <1>1. ASSUME NEW c \in Clerks, NEW r \in ClerkSet, ClerkTrue(r, raced'),
               clerk' = [clerk EXCEPT ![c] = r], raced \subseteq raced'
        PROVE  ClerksTrue'
    <2>1. \A d \in Clerks : ClerkTrue(clerk[d], raced')
      BY <1>1, <1>a, TrueOfMore
    <2>2. \A d \in Clerks : ClerkTrue(clerk'[d], raced')
      BY <1>1, <1>a, <2>1, UpdatedClerks
    <2> QED BY <1>1, <1>a, <2>2, UpdatedClerks
  <1>2. ASSUME NEW c \in Clerks, NEW j \in Jobs, Begin(c, j) PROVE ClerksTrue'
    <2>1. raced' = raced
      BY <1>2 DEF Begin, rowVars
    <2> QED BY <1>1, <1>2, <2>1, BeginEffect
  <1>3. ASSUME NEW c \in Clerks, ReadLine(c) PROVE ClerksTrue'
    <2>1. raced' = raced
      BY <1>3 DEF ReadLine, rowVars
    <2> QED BY <1>1, <1>3, <2>1, ReadEffect
  <1>4. ASSUME NEW c \in Clerks, WriteLine(c) PROVE ClerksTrue'
    <2>1. raced' = raced
      BY <1>4 DEF WriteLine, rowVars
    <2> QED BY <1>1, <1>4, <2>1, WriteEffect
  <1>5. ASSUME NEW c \in Clerks, Commit(c) PROVE ClerksTrue'
    <2>1. raced \subseteq raced'
      BY <1>5 DEF Commit
    <2> QED BY <1>1, <1>5, <2>1, CommitEffect
  <1>6. ASSUME NEW c \in Clerks,
               Refuse(c) \/ BreakDeadlock(c) \/ Finish(c) \/ Die(c)
        PROVE  ClerksTrue'
    <2>1. raced' = raced
      BY <1>6 DEF Refuse, BreakDeadlock, Finish, Die, rowVars
    <2> QED BY <1>1, <1>6, <2>1, IdleEffect, IdleTyped
  <1>7. CASE UNCHANGED <<clerk, raced>>
    BY <1>7, <1>a
  <1> QED BY <1>2, <1>3, <1>4, <1>5, <1>6, <1>7 DEF Next, ClerkStep, vars, rowVars,
             CreateProduct, ImportProduct, SetProduct, FindProduct, WriteProduct,
             PlaceOrder, ImportOrder, CheckOrder, ReserveOrder, ReleaseOrder, Move

-----------------------------------------------------------------------------
(* What the worker's updates and a commit do to the stock.                   *)

LEMMA OrderData ==
  ASSUME NEW o \in Orders
  PROVE  SkuOf[o] \in Skus /\ QtyOf[o] \in Nat \ {0}
  BY StockRoomAssumption

\* A reservation or release of q units that leaves v of u.
Moved(s, sign, q, u, v, w) ==
    /\ q # 0 /\ (sign < 0 <=> q < 0) /\ u = available[s] /\ v = u + q
    /\ available' = [available EXCEPT ![s] = v]
    /\ reserved' = [reserved EXCEPT ![s] = w]
    /\ books' = [books EXCEPT ![s] = books[s] + q]
    /\ product' = IF (IF sign < 0 THEN v <= 0 ELSE v > 0) /\ product[s].row = "active"
                  THEN [product EXCEPT ![s].inStock = sign > 0] ELSE product
    /\ edited' = IF (IF sign < 0 THEN v <= 0 ELSE v > 0) THEN edited \ {s} ELSE edited
    /\ raced' = raced

LEMMA MoveEffect ==
  ASSUME StockInv, NEW o \in Orders, NEW sign \in {-1, 1}, Move(o, sign),
         available[SkuOf[o]] # NoRow
  PROVE  \E q \in Int, u \in Int, v \in Int, w \in Int : Moved(SkuOf[o], sign, q, u, v, w)
  <1> DEFINE s == SkuOf[o]
             q == sign * QtyOf[o]
             u == available[s]
             v == u + q
             w == reserved[s] - q
  <1>1. s \in Skus /\ QtyOf[o] \in Nat \ {0}
    BY OrderData
  <1>2. q \in Int /\ q # 0 /\ (sign < 0 <=> q < 0)
    BY <1>1
  <1>3. u \in Int
    BY <1>1 DEF StockInv, TablesTyped, Qty
  <1>4. w \in Int
    BY <1>1, <1>2 DEF StockInv, TablesTyped
  <1>5. v \in Int
    BY <1>2, <1>3
  <1>6. /\ available' = [available EXCEPT ![s] = v]
        /\ reserved' = [reserved EXCEPT ![s] = w]
        /\ books' = [books EXCEPT ![s] = books[s] + q]
        /\ product' = IF (IF sign < 0 THEN v <= 0 ELSE v > 0) /\ product[s].row = "active"
                      THEN [product EXCEPT ![s].inStock = sign > 0] ELSE product
        /\ edited' = IF (IF sign < 0 THEN v <= 0 ELSE v > 0)
                     THEN edited \ {s} ELSE edited
        /\ raced' = raced
    BY DEF Move
  <1> HIDE DEF v, w, q, u, s
  <1>7. Moved(s, sign, q, u, v, w)
    BY <1>2, <1>6 DEF Moved, v, u
  <1> QED BY <1>2, <1>3, <1>4, <1>5, <1>7 DEF s

LEMMA CommitStock ==
  ASSUME StockInv, NEW c \in Clerks, Commit(c)
  PROVE  /\ available' \in [Skus -> Qty] /\ books' \in [Skus -> Qty]
         /\ raced' \subseteq Skus /\ edited' \subseteq Skus
         /\ raced \subseteq raced' /\ edited \subseteq edited'
         /\ \A s \in Skus :
               \/ available'[s] = available[s] /\ books'[s] = books[s]
               \/ /\ available'[s] \in Int /\ books'[s] \in Int /\ s \in edited'
                  /\ s \notin raced' => available'[s] = books'[s]
  <1> DEFINE k == clerk[c]
  <1>1. k \in ClerkSet /\ ClerkTrue(k, raced)
    BY DEF StockInv, ClerksTrue
  <1>2. /\ k.draft \in Drafts /\ k.due \in Drafts /\ k.stale \subseteq Skus
        /\ DOMAIN k.due = DOMAIN k.draft
        /\ \A s \in DOMAIN k.draft : s \notin k.stale \cup raced => k.draft[s] = k.due[s]
    BY <1>1 DEF ClerkSet, ClerkTrue
  <1>3. /\ DOMAIN k.draft \subseteq Skus
        /\ \A s \in DOMAIN k.draft : k.draft[s] \in Int /\ k.due[s] \in Int
    BY <1>2, DraftTyped
  <1>4. /\ available' = [s \in Skus |->
              IF s \in DOMAIN k.draft THEN k.draft[s] ELSE available[s]]
        /\ books' = [s \in Skus |->
              IF s \in DOMAIN k.draft THEN k.due[s] ELSE books[s]]
        /\ raced' = raced \cup k.stale /\ edited' = edited \cup DOMAIN k.draft
    BY DEF Commit, LocksOf
  <1>5. /\ available \in [Skus -> Qty] /\ books \in [Skus -> Qty]
        /\ raced \subseteq Skus /\ edited \subseteq Skus
    BY DEF StockInv, TablesTyped, HistoriesTyped
  <1> HIDE DEF k
  <1>6. available' \in [Skus -> Qty] /\ books' \in [Skus -> Qty]
    BY <1>3, <1>4, <1>5 DEF Qty
  <1> QED BY <1>2, <1>3, <1>4, <1>5, <1>6

Statuses == {"NONE", "CREATED", "checked", "RESERVED", "CANCELLED"}
ProductSet == [row : {"none", "active", "deleted"}, inStock : BOOLEAN]

LEMMA SetProductEffect ==
  ASSUME StockInv, NEW s \in Skus, NEW p \in ProductSet, SetProduct(s, p)
  PROVE  /\ product' \in [Skus -> ProductSet] /\ edited' = edited \cup {s}
         /\ \A t \in Skus : t # s => product'[t] = product[t]
         /\ UNCHANGED <<available, reserved, books, raced, order, announced, failures>>
  <1>1. product \in [Skus -> ProductSet]
    BY DEF StockInv, TablesTyped, ProductSet
  <1>2. /\ product' = [product EXCEPT ![s] = p] /\ edited' = edited \cup {s}
        /\ UNCHANGED <<available, reserved, books, raced, order, announced, failures>>
    BY DEF SetProduct, rowVars, orderVars
  <1> QED BY <1>1, <1>2

\* Whoever writes a product makes it an edited one.
LEMMA ProductEffect ==
  ASSUME StockInv, NEW s \in Skus,
         \/ CreateProduct(s) \/ ImportProduct(s)
         \/ \E change \in Changes : WriteProduct(s, change)
  PROVE  /\ product' \in [Skus -> ProductSet] /\ edited' = edited \cup {s}
         /\ \A t \in Skus : t # s => product'[t] = product[t]
         /\ UNCHANGED <<available, reserved, books, raced, order, announced, failures>>
  <1>1. product[s] \in ProductSet
    BY DEF StockInv, TablesTyped, ProductSet
  <1>2. CASE CreateProduct(s)
    <2>1. [row |-> "active", inStock |-> TRUE] \in ProductSet
      BY DEF ProductSet
    <2> QED BY <1>2, <2>1, SetProductEffect DEF CreateProduct
  <1>3. CASE ImportProduct(s)
    <2>1. PICK given \in FlagsGiven : SetProduct(s,
             IF product[s].row = "none"
             THEN [row |-> "active", inStock |-> FALSE \notin given]
             ELSE [product[s] EXCEPT !.inStock = IF given = {} THEN @ ELSE TRUE \in given])
      BY <1>3 DEF ImportProduct
    <2>2. [row |-> "active", inStock |-> FALSE \notin given] \in ProductSet
      BY DEF ProductSet
    <2>3. [product[s] EXCEPT !.inStock = IF given = {} THEN @ ELSE TRUE \in given]
             \in ProductSet
      <3> DEFINE b == IF given = {} THEN product[s].inStock ELSE TRUE \in given
      <3>1. b \in BOOLEAN
        <4>1. product[s].inStock \in BOOLEAN
          BY <1>1 DEF ProductSet
        <4>2. (TRUE \in given) \in BOOLEAN
          OBVIOUS
        <4> QED BY <4>1, <4>2, Zenon
      <3> HIDE DEF b
      <3>2. [product[s] EXCEPT !.inStock = b] \in ProductSet
        BY <1>1, <3>1 DEF ProductSet
      <3> QED BY <3>2 DEF b
    <2> QED BY <2>1, <2>2, <2>3, SetProductEffect
  <1>4. ASSUME NEW change \in Changes, WriteProduct(s, change)
        PROVE  \E p \in ProductSet : SetProduct(s, p)
    <2>1. [product[s] EXCEPT !.row = "deleted"] \in ProductSet
      BY <1>1 DEF ProductSet
    <2>2. [product[s] EXCEPT !.inStock = change = "on"] \in ProductSet
      BY <1>1 DEF ProductSet
    <2> QED BY <1>4, <2>1, <2>2 DEF WriteProduct
  <1> QED BY <1>2, <1>3, <1>4, SetProductEffect

\* What leaves the stock alone.
Apart == UNCHANGED <<available, reserved, books, raced, product, edited>>

LEMMA ElsewhereApart ==
  ASSUME [Next]_vars
  PROVE  \/ Apart
         \/ \E c \in Clerks : Commit(c)
         \/ \E s \in Skus : \/ CreateProduct(s) \/ ImportProduct(s)
                            \/ \E change \in Changes : WriteProduct(s, change)
         \/ \E o \in Orders : ReserveOrder(o) \/ ReleaseOrder(o)
  BY ZenonT(60) DEF Next, ClerkStep, Apart, vars, rowVars, Begin, ReadLine, WriteLine, Refuse,
         BreakDeadlock, Finish, Die, FindProduct, PlaceOrder, ImportOrder, CheckOrder

\* The worker only moves units of a row that is there.
LEMMA WorkerMoves ==
  ASSUME StockInv, NEW o \in Orders, ReserveOrder(o) \/ ReleaseOrder(o)
  PROVE  /\ available[SkuOf[o]] # NoRow
         /\ \E sign \in {-1, 1} : Move(o, sign)
  BY DEF StockInv, OrdersHaveRows, ReserveOrder, ReleaseOrder


StockTyped ==
    /\ available \in [Skus -> Qty] /\ books \in [Skus -> Qty]
    /\ reserved \in [Skus -> Int] /\ product \in [Skus -> ProductSet]
    /\ raced \subseteq Skus /\ edited \subseteq Skus

LEMMA NextStockTyped ==
  ASSUME StockInv, [Next]_vars PROVE StockTyped'
  <1> USE DEF StockTyped
  <1>a. StockTyped
    BY DEF StockInv, TablesTyped, HistoriesTyped, ProductSet
  <1>1. CASE Apart
    BY <1>1, <1>a DEF Apart
  <1>2. ASSUME NEW c \in Clerks, Commit(c) PROVE StockTyped'
    <2>1. UNCHANGED <<reserved, product>>
      BY <1>2 DEF Commit
    <2> QED BY <1>2, <1>a, <2>1, CommitStock
  <1>3. ASSUME NEW s \in Skus,
               \/ CreateProduct(s) \/ ImportProduct(s)
               \/ \E change \in Changes : WriteProduct(s, change)
        PROVE  StockTyped'
    BY <1>3, <1>a, ProductEffect
  <1>4. ASSUME NEW o \in Orders, ReserveOrder(o) \/ ReleaseOrder(o) PROVE StockTyped'
    <2> DEFINE s == SkuOf[o]
    <2>1. s \in Skus /\ available[s] # NoRow
      BY <1>4, OrderData, WorkerMoves
    <2>2. available[s] \in Int
      BY <1>a, <2>1 DEF Qty
    <2>3. PICK sign \in {-1, 1} : Move(o, sign)
      BY <1>4, WorkerMoves
    <2>4. PICK q \in Int, u \in Int, v \in Int, w \in Int : Moved(s, sign, q, u, v, w)
      BY <2>1, <2>3, MoveEffect
    <2> USE DEF Moved
    <2> HIDE DEF s
    <2>5. /\ available' \in [Skus -> Qty] /\ reserved' \in [Skus -> Int]
          /\ books' \in [Skus -> Qty]
      <3>1. books[s] \in Int
        BY <1>a, <2>1 DEF Qty, StockInv, SameRows
      <3>2. books[s] + q \in Int
        BY <3>1, <2>4
      <3> QED BY <1>a, <2>1, <2>4, <3>2 DEF Qty
    <2>6. (sign > 0) \in BOOLEAN
      OBVIOUS
    <2>7. product' \in [Skus -> ProductSet]
      <3>1. [product[s] EXCEPT !.inStock = sign > 0] \in ProductSet
        BY <1>a, <2>1, <2>6 DEF ProductSet
      <3> QED BY <1>a, <2>1, <2>4, <3>1
    <2> QED BY <1>a, <2>4, <2>5, <2>7
  <1> QED BY <1>1, <1>2, <1>3, <1>4, ElsewhereApart

LEMMA NextSerial ==
  ASSUME StockInv, [Next]_vars PROVE SerialUnlessRaced' /\ SameRows'
  <1> USE DEF SerialUnlessRaced, SameRows
  <1>a. SerialUnlessRaced /\ SameRows /\ available \in [Skus -> Qty] /\ books \in [Skus -> Qty]
    BY DEF StockInv, TablesTyped
  <1>1. CASE Apart
    BY <1>1, <1>a DEF Apart
  <1>2. ASSUME NEW c \in Clerks, Commit(c) PROVE SerialUnlessRaced' /\ SameRows'
    BY <1>2, <1>a, CommitStock, StockRoomAssumption
  <1>3. ASSUME NEW s \in Skus,
               \/ CreateProduct(s) \/ ImportProduct(s)
               \/ \E change \in Changes : WriteProduct(s, change)
        PROVE  SerialUnlessRaced' /\ SameRows'
    BY <1>3, <1>a, ProductEffect
  <1>4. ASSUME NEW o \in Orders, ReserveOrder(o) \/ ReleaseOrder(o)
        PROVE  SerialUnlessRaced' /\ SameRows'
    <2> DEFINE s == SkuOf[o]
    <2>1. s \in Skus /\ available[s] # NoRow
      BY <1>4, OrderData, WorkerMoves
    <2>2. PICK sign \in {-1, 1} : Move(o, sign)
      BY <1>4, WorkerMoves
    <2>3. PICK q \in Int, u \in Int, v \in Int, w \in Int : Moved(s, sign, q, u, v, w)
      BY <2>1, <2>2, MoveEffect
    <2> HIDE DEF s
    <2>4. books[s] + q \in Int
      BY <1>a, <2>1, <2>3 DEF Qty
    <2>5. /\ available'[s] = v /\ books'[s] = books[s] + q
          /\ s \notin raced => v = books[s] + q
          /\ raced' = raced
          /\ \A t \in Skus : t # s => available'[t] = available[t] /\ books'[t] = books[t]
      BY <1>a, <2>1, <2>3 DEF Moved
    <2> QED BY <1>a, <2>1, <2>4, <2>5, StockRoomAssumption
  <1> QED BY <1>1, <1>2, <1>3, <1>4, ElsewhereApart

LEMMA NextFlags ==
  ASSUME StockInv, [Next]_vars PROVE FlagDriftHasCause'
  <1> USE DEF FlagDriftHasCause
  <1>a. /\ FlagDriftHasCause /\ available \in [Skus -> Qty]
        /\ product \in [Skus -> ProductSet]
    BY DEF StockInv, TablesTyped, ProductSet
  <1>1. CASE Apart
    BY <1>1, <1>a DEF Apart
  <1>2. ASSUME NEW c \in Clerks, Commit(c) PROVE FlagDriftHasCause'
    <2>1. product' = product
      BY <1>2 DEF Commit
    <2>2. \A s \in Skus \ edited' : s \notin edited /\ available'[s] = available[s]
      BY <1>2, CommitStock
    <2> QED BY <1>a, <2>1, <2>2
  <1>3. ASSUME NEW s \in Skus,
               \/ CreateProduct(s) \/ ImportProduct(s)
               \/ \E change \in Changes : WriteProduct(s, change)
        PROVE  FlagDriftHasCause'
    <2>1. \A t \in Skus \ edited' : t \notin edited /\ product'[t] = product[t]
      BY <1>3, ProductEffect
    <2>2. available' = available
      BY <1>3, ProductEffect
    <2> QED BY <1>a, <2>1, <2>2
  <1>4. ASSUME NEW o \in Orders, ReserveOrder(o) \/ ReleaseOrder(o)
        PROVE  FlagDriftHasCause'
    <2> DEFINE s == SkuOf[o]
    <2>1. s \in Skus /\ available[s] # NoRow
      BY <1>4, OrderData, WorkerMoves
    <2>2. PICK sign \in {-1, 1} : Move(o, sign)
      BY <1>4, WorkerMoves
    <2>3. PICK q \in Int, u \in Int, v \in Int, w \in Int : Moved(s, sign, q, u, v, w)
      BY <2>1, <2>2, MoveEffect
    <2> HIDE DEF s
    <2>4. /\ available'[s] = v /\ v # NoRow /\ u = available[s] /\ v = u + q /\ q # 0
          /\ sign < 0 <=> q < 0
          /\ \A t \in Skus : t # s => available'[t] = available[t]
          /\ \A t \in Skus : t # s => product'[t] = product[t]
          /\ product'[s].row = product[s].row
      <3>1. product'[s].row = product[s].row
        BY <1>a, <2>1, <2>3 DEF Moved, ProductSet
      <3> QED BY <1>a, <2>1, <2>3, <3>1, StockRoomAssumption DEF Moved
    <2>5. ASSUME s \notin edited', product[s].row = "active"
          PROVE  product'[s].inStock = (v > 0)
      <3>1. CASE IF sign < 0 THEN v <= 0 ELSE v > 0
        <4>1. product'[s].inStock = (sign > 0)
          BY <1>a, <2>1, <2>3, <2>5, <3>1 DEF Moved, ProductSet
        <4>2. sign > 0 <=> v > 0
          BY <3>1
        <4> QED BY <4>1, <4>2
      <3>2. CASE ~ IF sign < 0 THEN v <= 0 ELSE v > 0
        <4>1. product' = product /\ s \notin edited
          BY <2>3, <2>5, <3>2 DEF Moved
        <4>2. product[s].inStock = (u > 0)
          BY <1>a, <2>1, <2>4, <2>5, <4>1
        <4>3. u > 0 <=> v > 0
          BY <2>4, <3>2
        <4> QED BY <4>1, <4>2, <4>3
      <3> QED BY <3>1, <3>2
    <2>6. \A t \in Skus \ edited' : t # s => t \notin edited
      BY <2>3 DEF Moved
    <2> QED BY <1>a, <2>1, <2>4, <2>5, <2>6
  <1> QED BY <1>1, <1>2, <1>3, <1>4, ElsewhereApart

LEMMA OrderEffect ==
  ASSUME StockInv, NEW o \in Orders,
         \/ PlaceOrder(o) \/ ImportOrder(o) \/ CheckOrder(o)
         \/ ReserveOrder(o) \/ ReleaseOrder(o)
  PROVE  /\ announced' \subseteq Orders
         /\ \E st \in Statuses :
               /\ order' = [order EXCEPT ![o] = st]
               /\ st \in {"checked", "RESERVED"} => available[SkuOf[o]] # NoRow
  <1>1. announced' \subseteq Orders
    BY DEF StockInv, HistoriesTyped, PlaceOrder, ImportOrder, CheckOrder, ReserveOrder,
           ReleaseOrder, Move
  <1>2. CASE PlaceOrder(o) \/ ImportOrder(o)
    BY <1>1, <1>2 DEF PlaceOrder, ImportOrder, Statuses
  <1>3. CASE CheckOrder(o)
    BY <1>1, <1>3 DEF CheckOrder, Statuses
  <1>4. CASE ReserveOrder(o) \/ ReleaseOrder(o)
    BY <1>1, <1>4 DEF ReserveOrder, ReleaseOrder, Statuses, StockInv, OrdersHaveRows
  <1> QED BY <1>2, <1>3, <1>4

LEMMA RowsStay ==
  ASSUME StockInv, [Next]_vars, NEW s \in Skus, available[s] # NoRow
  PROVE  available'[s] # NoRow
  <1>a. NoRow \notin Int /\ available \in [Skus -> Qty]
    BY StockRoomAssumption DEF StockInv, TablesTyped
  <1>1. CASE Apart
    BY <1>1 DEF Apart
  <1>2. ASSUME NEW c \in Clerks, Commit(c) PROVE available'[s] # NoRow
    BY <1>2, <1>a, CommitStock
  <1>3. ASSUME NEW t \in Skus,
               \/ CreateProduct(t) \/ ImportProduct(t)
               \/ \E change \in Changes : WriteProduct(t, change)
        PROVE  available'[s] # NoRow
    BY <1>3, ProductEffect
  <1>4. ASSUME NEW o \in Orders, ReserveOrder(o) \/ ReleaseOrder(o)
        PROVE  available'[s] # NoRow
    <2>1. PICK sign \in {-1, 1} : Move(o, sign)
      BY <1>4, WorkerMoves
    <2>2. PICK q \in Int, u \in Int, v \in Int, w \in Int : Moved(SkuOf[o], sign, q, u, v, w)
      BY <1>4, <2>1, WorkerMoves, MoveEffect
    <2> QED BY <1>a, <2>2 DEF Moved
  <1> QED BY <1>1, <1>2, <1>3, <1>4, ElsewhereApart

OrdersTyped ==
    order \in [Orders -> Statuses] /\ announced \subseteq Orders /\ OrdersHaveRows

LEMMA NextOrders ==
  ASSUME StockInv, [Next]_vars PROVE OrdersTyped'
  <1> USE DEF OrdersTyped, OrdersHaveRows
  <1>a. OrdersTyped
    BY DEF StockInv, TablesTyped, HistoriesTyped, Statuses
  <1>b. \A o \in Orders : available[SkuOf[o]] # NoRow => available'[SkuOf[o]] # NoRow
    BY RowsStay, OrderData
  <1>1. ASSUME NEW o \in Orders,
               \/ PlaceOrder(o) \/ ImportOrder(o) \/ CheckOrder(o)
               \/ ReserveOrder(o) \/ ReleaseOrder(o)
        PROVE  OrdersTyped'
    BY <1>1, <1>a, <1>b, OrderEffect
  <1>2. CASE UNCHANGED <<order, announced>>
    BY <1>2, <1>a, <1>b
  <1> QED BY <1>1, <1>2 DEF Next, ClerkStep, vars, orderVars, Begin, ReadLine, WriteLine,
             Refuse, BreakDeadlock, Commit, Finish, Die, CreateProduct, ImportProduct,
             SetProduct, FindProduct, WriteProduct

LEMMA NextBounds ==
  ASSUME StockInv, [Next]_vars PROVE Bounds' /\ found' \subseteq Skus \X Changes
  <1> USE DEF Bounds
  <1>a. Bounds /\ found \subseteq Skus \X Changes /\ MaxJobs \in Nat /\ MaxFailures \in Nat
    BY StockRoomAssumption DEF StockInv, TablesTyped
  <1>1. CASE OneMoreRequest /\ failures' = failures /\ found' = found
    BY <1>1, <1>a DEF OneMoreRequest
  <1>2. CASE UNCHANGED <<begun, failures, found>>
    BY <1>2, <1>a
  <1>3. ASSUME NEW c \in Clerks, Die(c) PROVE Bounds' /\ found' \subseteq Skus \X Changes
    BY <1>3, <1>a DEF Die
  <1>4. ASSUME NEW s \in Skus, NEW change \in Changes, FindProduct(s, change)
        PROVE  Bounds' /\ found' \subseteq Skus \X Changes
    BY <1>4, <1>a DEF FindProduct, OneMoreRequest
  <1>5. ASSUME NEW s \in Skus, NEW change \in Changes, WriteProduct(s, change)
        PROVE  Bounds' /\ found' \subseteq Skus \X Changes
    BY <1>5, <1>a DEF WriteProduct, SetProduct
  <1> QED BY <1>1, <1>2, <1>3, <1>4, <1>5 DEF Next, ClerkStep, vars, Begin, ReadLine,
             WriteLine, Refuse, BreakDeadlock, Commit, Finish, CreateProduct,
             ImportProduct, SetProduct, PlaceOrder, ImportOrder, CheckOrder,
             ReserveOrder, ReleaseOrder, Move

LEMMA NextStock == StockInv /\ [Next]_vars => StockInv'
  <1> SUFFICES ASSUME StockInv, [Next]_vars PROVE StockInv'
    OBVIOUS
  <1>1. StockTyped' /\ OrdersTyped' /\ Bounds' /\ (found' \subseteq Skus \X Changes)
    BY NextStockTyped, NextOrders, NextBounds
  <1>2. TablesTyped' /\ HistoriesTyped' /\ OrdersHaveRows'
    BY <1>1 DEF StockTyped, OrdersTyped, TablesTyped, HistoriesTyped, ProductSet, Statuses
  <1> QED BY <1>1, <1>2, NextClerksTrue, NextSerial, NextFlags DEF StockInv

LEMMA InitStock == Init => StockInv
  <1> SUFFICES ASSUME Init PROVE StockInv
    OBVIOUS
  <1>1. Opening \in [Skus -> Nat \cup {NoRow}] /\ NoRow \notin Int
    BY StockRoomAssumption
  <1>2. \A s \in Skus : product[s] \in ProductSet
    <2> SUFFICES ASSUME NEW s \in Skus PROVE product[s] \in ProductSet
      OBVIOUS
    <2>1. product[s] = IF Opening[s] = NoRow THEN [row |-> "none", inStock |-> FALSE]
                       ELSE [row |-> "active", inStock |-> Opening[s] > 0]
      BY DEF Init
    <2>2. (Opening[s] > 0) \in BOOLEAN
      OBVIOUS
    <2> QED BY <2>1, <2>2 DEF ProductSet
  <1>3. TablesTyped
    <2>1. available \in [Skus -> Qty] /\ books \in [Skus -> Qty] /\ reserved \in [Skus -> Int]
      BY <1>1 DEF Init, Qty
    <2>2. product \in [Skus -> ProductSet]
      BY <1>2 DEF Init
    <2> QED BY <2>1, <2>2 DEF Init, TablesTyped, ProductSet
  <1>4. ClerksTrue
    BY IdleTyped DEF Init, ClerksTrue
  <1>5. HistoriesTyped /\ Bounds
    BY StockRoomAssumption DEF Init, HistoriesTyped, Bounds
  <1>6. OrdersHaveRows /\ SameRows /\ SerialUnlessRaced
    BY DEF Init, OrdersHaveRows, SameRows, SerialUnlessRaced
  <1>7. FlagDriftHasCause
    BY DEF Init, FlagDriftHasCause
  <1> QED BY <1>3, <1>4, <1>5, <1>6, <1>7 DEF StockInv

-----------------------------------------------------------------------------
(* Keys.                                                                     *)

LEMMA KeyOf ==
  ASSUME NEW r \in ClerkSet
  PROVE  r.job.key \in Keys \cup {NoKey}
  BY JobTyped DEF ClerkSet

\* A key that no step of a request touches is as it was.
LEMMA KeyStays ==
  ASSUME NEW k \in Keys, KeyTrue(k), applied'[k] = applied[k],
         k \in cached <=> k \in cached',
         \A c \in Clerks : /\ clerk'[c].job.key = clerk[c].job.key
                           /\ clerk[c].phase = "done" => clerk'[c].phase = "done"
  PROVE  KeyTrue(k)'
  BY DEF KeyTrue

\* A request that ends, of another key, or before it has committed.
LEMMA KeyLeft ==
  ASSUME StockInv, NEW k \in Keys, KeyTrue(k), applied'[k] = applied[k],
         NEW c \in Clerks, clerk' = [clerk EXCEPT ![c] = IdleClerk],
         \/ clerk[c].job.key # k /\ (k \in cached <=> k \in cached')
         \/ clerk[c].phase # "done" /\ (k \in cached <=> k \in cached')
         \/ clerk[c].job.key = k /\ k \in cached'
  PROVE  KeyTrue(k)'
  <1>1. /\ clerk'[c].job.key # k /\ clerk'[c].phase = "idle"
        /\ \A d \in Clerks : d # c => clerk'[d] = clerk[d]
    BY IdleTyped, StockRoomAssumption, UpdatedClerks DEF StockInv, ClerksTrue
  <1>2. CASE clerk[c].job.key = k /\ k \in cached'
    <2>1. \A d \in Clerks : clerk'[d].job.key # k
      BY <1>1, <1>2 DEF KeyTrue
    <2> QED BY <1>2, <2>1 DEF KeyTrue
  <1>3. CASE k \in cached <=> k \in cached'
    <2>1. \A d \in Clerks : clerk'[d].job.key = k => d # c /\ clerk[d].job.key = k
      BY <1>1
    <2>2. applied[k] = 1 => \/ k \in cached
                            \/ \E d \in Clerks : clerk'[d].phase = "done" /\ clerk'[d].job.key = k
                            \/ clerk[c].phase = "done" /\ clerk[c].job.key = k
      BY <1>1 DEF KeyTrue
    <2>3. clerk[c].phase # "done" \/ clerk[c].job.key # k \/ k \in cached'
      OBVIOUS
    <2> QED BY <1>3, <2>1, <2>2, <2>3 DEF KeyTrue
  <1> QED BY <1>2, <1>3

LEMMA NextKeysTyped ==
  ASSUME StockInv, KeysTyped, [Next]_vars PROVE KeysTyped'
  <1> USE DEF KeysTyped
  <1>a. \A c \in Clerks : clerk[c].job.key \in Keys \cup {NoKey}
    BY KeyOf DEF StockInv, ClerksTrue
  <1>1. ASSUME NEW c \in Clerks, NEW j \in Jobs, Begin(c, j) PROVE KeysTyped'
    BY <1>1 DEF Begin
  <1>2. ASSUME NEW c \in Clerks, Commit(c) PROVE KeysTyped'
    <2>1. applied' = [k \in Keys |-> applied[k] + IF k = clerk[c].job.key THEN 1 ELSE 0]
      BY <1>2 DEF Commit
    <2>2. UNCHANGED <<cached, excused>>
      BY <1>2 DEF Commit
    <2> QED BY <2>1, <2>2
  <1>3. ASSUME NEW c \in Clerks, Finish(c) PROVE KeysTyped'
    BY <1>3, <1>a DEF Finish
  <1>4. ASSUME NEW c \in Clerks, Die(c) PROVE KeysTyped'
    BY <1>4, <1>a DEF Die
  <1>5. CASE UNCHANGED keyVars
    BY <1>5 DEF keyVars
  <1> QED BY <1>1, <1>2, <1>3, <1>4, <1>5 DEF Next, ClerkStep, vars, ReadLine, WriteLine,
             Refuse, BreakDeadlock, CreateProduct, ImportProduct, SetProduct, FindProduct,
             WriteProduct, PlaceOrder, ImportOrder, CheckOrder, ReserveOrder, ReleaseOrder,
             Move

LEMMA NextKeys ==
  ASSUME StockInv, KeysInv, [Next]_vars PROVE KeysTrue' /\ OneRequestEach'
  <1> USE DEF KeysTrue, OneRequestEach
  <1>a. /\ KeysTrue /\ OneRequestEach /\ clerk \in [Clerks -> ClerkSet]
        /\ applied \in [Keys -> Nat] /\ NoKey \notin Keys
    BY StockRoomAssumption DEF KeysInv, KeysTyped, StockInv, ClerksTrue
  <1>1. ASSUME NEW c \in Clerks, NEW j \in Jobs, Begin(c, j)
        PROVE  KeysTrue' /\ OneRequestEach'
    <2>1. PICK r \in ClerkSet : /\ clerk' = [clerk EXCEPT ![c] = r]
                               /\ r.phase = "read" /\ r.job = j
      BY <1>1, BeginEffect
    <2>2. /\ clerk'[c] = r /\ \A d \in Clerks : d # c => clerk'[d] = clerk[d]
      BY <1>a, <2>1, UpdatedClerks
    <2>3. OneRequestEach'
      BY <1>a, <2>1, <2>2
    <2>4. /\ clerk[c].phase = "idle" /\ j.key \notin cached
          /\ excused' = excused \cup
                {k \in Keys : k = j.key /\ \E d \in Clerks : clerk[d].job.key = k}
          /\ UNCHANGED <<cached, applied>>
      BY <1>1 DEF Begin
    <2>5. ASSUME NEW k \in Keys, k \notin excused' PROVE KeyTrue(k)'
      <3>1. KeyTrue(k) /\ clerk[c].job.key # k
        BY <1>a, <2>4, <2>5
      <3>2. k = j.key => k \notin cached /\ \A d \in Clerks : clerk[d].job.key # k
        BY <2>4, <2>5
      <3>3. \A d \in Clerks : clerk[d].phase = "done" => d # c
        BY <2>4
      <3>4. k = j.key => applied[k] # 1
        BY <3>1, <3>2 DEF KeyTrue
      <3>5. CASE k = j.key
        BY <2>1, <2>2, <2>4, <3>1, <3>2, <3>4, <3>5 DEF KeyTrue
      <3>6. CASE k # j.key
        BY <2>1, <2>2, <2>4, <3>1, <3>3, <3>6 DEF KeyTrue
      <3> QED BY <3>5, <3>6
    <2> QED BY <2>3, <2>5
  <1>2. ASSUME NEW c \in Clerks, NEW r \in ClerkSet,
               clerk' = [clerk EXCEPT ![c] = r], r.job = clerk[c].job,
               r.phase \in {"read", "write"}, clerk[c].phase \in {"read", "write"},
               UNCHANGED <<cached, applied, excused>>
        PROVE  KeysTrue' /\ OneRequestEach'
    <2>1. /\ clerk'[c] = r /\ \A d \in Clerks : d # c => clerk'[d] = clerk[d]
      BY <1>a, <1>2, UpdatedClerks
    <2>2. \A d \in Clerks : /\ clerk'[d].job.key = clerk[d].job.key
                            /\ clerk[d].phase = "done" => clerk'[d].phase = "done"
                            /\ clerk'[d].phase = "idle" => clerk[d].phase = "idle"
      BY <1>2, <2>1
    <2> QED BY <1>a, <1>2, <2>2, KeyStays
  <1>3. ASSUME NEW c \in Clerks, ReadLine(c) \/ WriteLine(c)
        PROVE  KeysTrue' /\ OneRequestEach'
    <2>1. UNCHANGED <<cached, applied, excused>>
      BY <1>3 DEF ReadLine, WriteLine, keyVars
    <2>2. PICK r \in ClerkSet : /\ clerk' = [clerk EXCEPT ![c] = r]
                               /\ r.job = clerk[c].job /\ r.phase \in {"read", "write"}
                               /\ clerk[c].phase \in {"read", "write"}
      BY <1>3, ReadEffect, WriteEffect
    <2> QED BY <1>2, <2>1, <2>2
  <1>4. ASSUME NEW c \in Clerks, Commit(c) PROVE KeysTrue' /\ OneRequestEach'
    <2>1. PICK r \in ClerkSet : /\ clerk' = [clerk EXCEPT ![c] = r] /\ r.phase = "done"
                               /\ r.job = clerk[c].job /\ clerk[c].phase = "read"
      BY <1>4, CommitEffect
    <2>2. /\ clerk'[c] = r /\ \A d \in Clerks : d # c => clerk'[d] = clerk[d]
      BY <1>a, <2>1, UpdatedClerks
    <2>3. /\ UNCHANGED <<cached, excused>>
          /\ \A k \in Keys : applied'[k] = applied[k] + IF k = r.job.key THEN 1 ELSE 0
      BY <1>4, <2>1 DEF Commit
    <2>4. \A d \in Clerks : clerk'[d].job.key = clerk[d].job.key
      BY <2>1, <2>2
    <2>5. OneRequestEach'
      BY <1>a, <2>1, <2>2, <2>4
    <2>6. ASSUME NEW k \in Keys, k \notin excused' PROVE KeyTrue(k)'
      <3>1. KeyTrue(k) /\ applied[k] \in Nat
        BY <1>a, <2>3, <2>6
      <3>2. CASE k # r.job.key
        <4>1. applied'[k] = applied[k]
          BY <2>3, <3>1, <3>2
        <4>2. \A d \in Clerks : clerk[d].phase = "done" => clerk'[d].phase = "done"
          BY <2>1, <2>2
        <4> QED BY <2>3, <2>4, <3>1, <4>1, <4>2, KeyStays
      <3>3. CASE k = r.job.key
        <4>1. clerk[c].job.key = k
          BY <2>1, <3>3
        <4>2. \A d \in Clerks : clerk[d].job.key = k => d = c
          BY <3>1, <4>1 DEF KeyTrue
        <4>3. k \notin cached
          BY <3>1, <4>1 DEF KeyTrue
        <4>4. applied[k] # 1
          BY <2>1, <3>1, <4>2, <4>3 DEF KeyTrue
        <4>5. applied'[k] = 1
          <5>1. applied[k] <= 1
            BY <3>1 DEF KeyTrue
          <5> QED BY <2>3, <3>1, <3>3, <4>4, <5>1
        <4>6. clerk'[c].phase = "done" /\ clerk'[c].job.key = k
          BY <2>1, <2>2, <3>3
        <4>7. \A d \in Clerks : clerk'[d].job.key = k => d = c
          BY <2>4, <4>2
        <4>8. k \notin cached'
          BY <2>3, <4>3
        <4> QED BY <4>5, <4>6, <4>7, <4>8 DEF KeyTrue
      <3> QED BY <3>2, <3>3
    <2> QED BY <2>5, <2>6
  <1>5. ASSUME NEW c \in Clerks, Refuse(c) \/ BreakDeadlock(c) \/ Finish(c) \/ Die(c)
        PROVE  KeysTrue' /\ OneRequestEach'
    <2>1. clerk' = [clerk EXCEPT ![c] = IdleClerk]
      BY <1>5, IdleEffect
    <2>2. OneRequestEach'
      BY <1>a, <2>1, IdleTyped, UpdatedClerks
    <2>3. applied' = applied /\ excused \subseteq excused'
      BY <1>5 DEF Refuse, BreakDeadlock, Finish, Die, keyVars
    <2>4. ASSUME NEW k \in Keys, k \notin excused' PROVE KeyTrue(k)'
      <3>1. KeyTrue(k)
        BY <1>a, <2>3, <2>4
      <3>2. CASE Refuse(c) \/ BreakDeadlock(c)
        <4>1. clerk[c].phase # "done" /\ cached' = cached
          BY <3>2 DEF Refuse, BreakDeadlock, Waits, keyVars
        <4> QED BY <2>1, <2>3, <3>1, <4>1, KeyLeft
      <3>3. CASE Finish(c)
        <4>1. cached' = cached \cup ({clerk[c].job.key} \ {NoKey})
          BY <3>3 DEF Finish
        <4>2. CASE clerk[c].job.key = k
          BY <1>a, <2>1, <2>3, <3>1, <4>1, <4>2, KeyLeft
        <4>3. CASE clerk[c].job.key # k
          BY <1>a, <2>1, <2>3, <3>1, <4>1, <4>3, KeyLeft
        <4> QED BY <4>2, <4>3
      <3>4. CASE Die(c)
        <4>1. cached' = cached /\ (clerk[c].phase = "done" => clerk[c].job.key # k)
          BY <1>a, <2>4, <3>4 DEF Die
        <4> QED BY <2>1, <2>3, <3>1, <4>1, KeyLeft
      <3> QED BY <1>5, <3>2, <3>3, <3>4
    <2> QED BY <2>2, <2>4
  <1>6. CASE UNCHANGED <<clerk, keyVars>>
    <2>1. \A k \in Keys : KeyTrue(k) => KeyTrue(k)'
      BY <1>6, KeyStays DEF keyVars
    <2> QED BY <1>6, <1>a, <2>1 DEF keyVars
  <1> QED BY <1>1, <1>3, <1>4, <1>5, <1>6 DEF Next, ClerkStep, vars, CreateProduct,
             ImportProduct, SetProduct, FindProduct, WriteProduct, PlaceOrder,
             ImportOrder, CheckOrder, ReserveOrder, ReleaseOrder, Move

LEMMA InitKeys == Init => KeysInv
  <1> SUFFICES ASSUME Init PROVE KeysInv
    OBVIOUS
  <1>1. \A c \in Clerks : clerk[c] = IdleClerk
    BY DEF Init
  <1>2. \A c \in Clerks : clerk[c].job.key = NoKey
    BY <1>1, IdleTyped
  <1> QED BY <1>2, StockRoomAssumption DEF Init, KeysInv, KeysTyped, KeysTrue, KeyTrue,
             OneRequestEach

LEMMA NextAll == StockInv /\ KeysInv /\ [Next]_vars => StockInv' /\ KeysInv'
  BY NextStock, NextKeysTyped, NextKeys DEF KeysInv

-----------------------------------------------------------------------------
(* The theorems.                                                             *)

\* Type correctness, for every catalogue and whatever is asked for.
THEOREM StockTypeCorrect == Spec => []TypeOK
  <1>1. StockInv /\ KeysInv => TypeOK
    <2> SUFFICES ASSUME StockInv, KeysInv PROVE TypeOK
      OBVIOUS
    <2>1. DOMAIN clerk = Clerks
      BY DEF StockInv, ClerksTrue
    <2>2. ASSUME NEW c \in Clerks PROVE ClerkTyped(clerk[c])
      <3> DEFINE r == clerk[c]
      <3>1. r \in ClerkSet /\ ClerkTrue(r, raced)
        BY DEF StockInv, ClerksTrue
      <3> HIDE DEF r
      <3>2. r.draft \in Drafts /\ r.due \in Drafts
        BY <3>1 DEF ClerkSet
      <3>3. /\ DOMAIN r.draft \subseteq Skus /\ DOMAIN r.due = DOMAIN r.draft
            /\ \A s \in DOMAIN r.draft : r.draft[s] \in Int /\ r.due[s] \in Int
        BY <3>1, <3>2, DraftTyped DEF ClerkTrue
      <3>4. ClerkTyped(r)
        BY <3>1, <3>3 DEF ClerkTyped, ClerkSet, ClerkTrue
      <3> QED BY <3>4 DEF r
    <2> QED BY <2>1, <2>2 DEF StockInv, KeysInv, HistoriesTyped, KeysTyped, Bounds, TypeOK
  <1> QED BY <1>1, InitStock, InitKeys, NextAll, PTL DEF Spec

\* Adjustments, imports, reservations and releases come to what they come to
\* one after the other, unless one wrote a quantity computed from an old copy.
THEOREM StockIsSerial == Spec => []SerialUnlessRaced
  <1>1. StockInv => SerialUnlessRaced
    BY DEF StockInv
  <1> QED BY <1>1, InitStock, NextStock, PTL DEF Spec

\* The worker keeps the flag of a product right; only an adjustment, an import
\* or an edit makes it differ from the stock.
THEOREM OnlyEditsMoveTheFlag == Spec => []FlagDriftHasCause
  <1>1. StockInv => FlagDriftHasCause
    BY DEF StockInv
  <1> QED BY <1>1, InitStock, NextStock, PTL DEF Spec

\* createAdjustment applies a key twice only if it was sent again before its
\* first answer was cached, or that answer was lost after the commit.
THEOREM KeysApplyOnce == Spec => []DuplicateHasCause
  <1>1. KeysInv => DuplicateHasCause
    <2> SUFFICES ASSUME KeysInv, NEW k \in Keys, applied[k] > 1 PROVE k \in excused
      BY DEF DuplicateHasCause
    <2>1. applied[k] \in Nat
      BY DEF KeysInv, KeysTyped
    <2>2. ~KeyTrue(k)
      BY <2>1 DEF KeyTrue
    <2> QED BY <2>2 DEF KeysInv, KeysTrue
  <1> QED BY <1>1, InitStock, InitKeys, NextAll, PTL DEF Spec
=============================================================================
