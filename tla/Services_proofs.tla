--------------------------- MODULE Services_proofs ---------------------------
(* Proofs about Listing, for any rows, readers and limits, and about         *)
(* Webhooks, for every number of endpoints, events and pollers, and any      *)
(* number of posts and deaths.                                               *)
EXTENDS Listing, Webhooks, FiniteSetTheorems, WellFoundedInduction, TLAPS

-----------------------------------------------------------------------------
(* Lists.  What every page and every walk says of the rows, now as when it   *)
(* was read: rows keep their tenant, and never come back into the filter.    *)

QuerySet == [tenant : Tenants, limit : Nat \ {0}, filtered : BOOLEAN, cursor : Nat]
PageSet == [data : SUBSET Nat, asOf : Nat, nextCursor : Nat]
WalkSet == [step : {"lookup", "find", "fill", "done"}, cached : BOOLEAN,
            query : QuerySet, page : SUBSET PageSet, got : Seq(SUBSET Nat),
            cursors : SUBSET Nat, asOf : Nat]
EntrySet == [key : QuerySet, page : PageSet, expires : Nat]
TableRow == [tenant : Tenants, found : BOOLEAN]

ListTyped ==
    /\ rows \in Seq(TableRow) /\ cache \in SUBSET EntrySet /\ listTime \in Nat
    /\ walk \in [Readers -> WalkSet \cup {NotWalking}]

\* What lies behind the cursor of a query, or before its first page.
Ahead(cursor, i) == cursor = NoCursor \/ i < cursor

\* A page goes on below its cursor and ends at the next one; if the row of the
\* cursor is still listed, it has left out no row between them.
PageTrue(q, page) ==
    /\ q.cursor \in 0..Len(rows)
    /\ page.data \subseteq 1..Len(rows) /\ page.asOf <= Len(rows)
    /\ \A i \in page.data : rows[i].tenant = q.tenant /\ Ahead(q.cursor, i)
    /\ page.nextCursor # NoCursor =>
          page.nextCursor \in page.data /\ \A i \in page.data : page.nextCursor <= i
    /\ (q.cursor = NoCursor \/ InList(q, q.cursor)) =>
          \A i \in Listed(q) : i <= page.asOf /\ Ahead(q.cursor, i) =>
              i \in page.data \/ (page.nextCursor # NoCursor /\ i < page.nextCursor)

\* A walk has taken no more pages than there are rows from its cursor on.
WalkShort(w) ==
    /\ w.step # "done" /\ w.query.cursor = NoCursor => w.got = <<>>
    /\ w.query.cursor # NoCursor => w.query.cursor + Len(w.got) <= Len(rows) + 1
    /\ Len(w.got) <= Len(rows) + 1

\* A walk has got what is not ahead of it.
WalkTrue(w) ==
    /\ WalkShort(w)
    /\ w.query.cursor \in 0..Len(rows) /\ w.cursors \subseteq 1..Len(rows)
    /\ w.query.cursor # NoCursor => w.query.cursor \in w.cursors
    /\ \A k \in DOMAIN w.got : \A i \in w.got[k] :
          /\ i \in 1..Len(rows) /\ rows[i].tenant = w.query.tenant
          /\ w.step # "done" => w.query.cursor # NoCursor /\ w.query.cursor <= i
    /\ \A k, l \in DOMAIN w.got : k < l =>
          \A i \in w.got[k], j \in w.got[l] : j < i
    /\ (w.step # "done" /\ w.query.cursor = NoCursor) \/ w.asOf <= Len(rows)
    /\ (\A c \in w.cursors : InList(w.query, c)) =>
          \A i \in Listed(w.query) : i <= w.asOf =>
              \/ \E k \in DOMAIN w.got : i \in w.got[k]
              \/ w.step # "done" /\ Ahead(w.query.cursor, i)
    /\ w.step = "fill" => \A page \in w.page : PageTrue(w.query, page)

ListInv ==
    /\ ListTyped /\ \A e \in cache : PageTrue(e.key, e.page)
    /\ \A r \in Readers : walk[r] \in WalkSet => WalkTrue(walk[r])

LEMMA NotWalkingOut == NotWalking \notin WalkSet /\ NotWalking.step = "idle"
  <1>1. NotWalking.step = "idle"
    BY DEF NotWalking
  <1>2. \A w \in WalkSet : w.step # "idle"
    BY DEF WalkSet
  <1> QED BY <1>1, <1>2

-----------------------------------------------------------------------------
(* Numbers, and pages of them.                                               *)

LEMMA HasLeast ==
  ASSUME NEW T \in SUBSET Nat, T # {}
  PROVE  \E x \in T : \A y \in T : x <= y
  <1>1. PICK x \in T : \A y \in T : <<y, x>> \notin OpToRel(<, Nat)
    BY NatLessThanWellFounded, WFMin
  <1>2. \A y \in T : ~(y < x)
    BY <1>1 DEF OpToRel
  <1> QED BY <1>2

LEMMA PartNumbers ==
  ASSUME NEW n \in Nat, NEW S \in SUBSET (1..n)
  PROVE  S \in SUBSET Nat /\ \A y \in S : y \in Nat /\ 1 <= y /\ y <= n
  <1>1. \A y \in S : y \in 1..n
    OBVIOUS
  <1> QED BY <1>1

LEMMA HasGreatest ==
  ASSUME NEW n \in Nat, NEW T \in SUBSET (1..n), T # {}
  PROVE  \E x \in T : \A y \in T : y <= x
  <1> DEFINE D == {n - y : y \in T}
  <1>a. \A y \in T : y \in Nat /\ 1 <= y /\ y <= n
    BY PartNumbers
  <1>1. D \in SUBSET Nat /\ D # {}
    <2>1. \A y \in T : n - y \in Nat
      BY <1>a
    <2> QED BY <2>1
  <1>2. PICK d \in D : \A e \in D : d <= e
    BY <1>1, HasLeast
  <1>3. PICK x \in T : d = n - x
    OBVIOUS
  <1>4. \A y \in T : n - x <= n - y
    BY <1>2, <1>3
  <1>5. \A y \in T : y <= x
    BY <1>4, <1>a
  <1> QED BY <1>5

LEMMA OldestIsLeast ==
  ASSUME NEW S \in SUBSET Nat, S # {}
  PROVE  Oldest(S) \in S /\ \A j \in S : Oldest(S) <= j
  BY HasLeast DEF Oldest

LEMMA PartFinite ==
  ASSUME NEW n \in Nat, NEW S \in SUBSET (1..n)
  PROVE  IsFiniteSet(S) /\ Cardinality(S) \in Nat
  <1>1. IsFiniteSet(1..n)
    BY FS_Interval
  <1>2. IsFiniteSet(S)
    BY <1>1, FS_Subset
  <1> QED BY <1>2, FS_CardinalityType

LEMMA NewestSubset == \A S, n : Newest(S, n) \subseteq S
  BY DEF Newest

\* A page is not empty if there is anything to show.
LEMMA NewestNonempty ==
  ASSUME NEW n \in Nat, NEW S \in SUBSET (1..n), S # {}, NEW l \in Nat \ {0}
  PROVE  Newest(S, l) # {}
  <1>1. PICK x \in S : \A y \in S : y <= x
    BY HasGreatest
  <1>2. {j \in S : j > x} = {}
    <2>1. \A j \in S : j \in Nat
      BY PartNumbers
    <2>2. \A j \in S : ~(j > x)
      BY <1>1, <2>1
    <2> QED BY <2>2
  <1>3. Cardinality({j \in S : j > x}) < l
    BY <1>2, FS_EmptySet
  <1> QED BY <1>3 DEF Newest

\* When one row more than a page is not there, the page is all there is.
LEMMA NewestAll ==
  ASSUME NEW n \in Nat, NEW S \in SUBSET (1..n), NEW l \in Nat \ {0},
         ~(Cardinality(Newest(S, l + 1)) > l)
  PROVE  Newest(S, l) = S
  <1> DEFINE Above(i) == {j \in S : j > i}
  <1>a. \A i \in S : Cardinality(Above(i)) \in Nat /\ IsFiniteSet(Above(i))
    <2>1. \A i \in S : Above(i) \in SUBSET (1..n)
      OBVIOUS
    <2> HIDE DEF Above
    <2> QED BY <2>1, PartFinite
  <1>b. S \in SUBSET Nat /\ \A i \in S : i \in Nat
    BY PartNumbers
  <1> SUFFICES ASSUME S \ Newest(S, l) # {} PROVE FALSE
    BY NewestSubset
  \* The newest row that is not on the page.
  <1>1. PICK x \in S \ Newest(S, l) : \A y \in S \ Newest(S, l) : y <= x
    BY HasGreatest
  <1>2. Cardinality(Above(x)) >= l
    BY <1>1, <1>a DEF Newest
  <1>3. Above(x) \subseteq Newest(S, l)
    <2> SUFFICES ASSUME NEW y \in Above(x), y \notin Newest(S, l) PROVE FALSE
      OBVIOUS
    <2>1. y \in S /\ y > x /\ y <= x
      BY <1>1
    <2> QED BY <1>1, <1>b, <2>1
  <1>4. Above(x) # {}
    BY <1>2, FS_EmptySet
  <1>5. PICK k \in Above(x) : \A y \in Above(x) : k <= y
    <2>1. Above(x) \in SUBSET Nat
      BY <1>b
    <2> HIDE DEF Above
    <2> QED BY <1>4, <2>1, HasLeast
  <1>6. Above(x) = Above(k) \cup {k} /\ k \notin Above(k)
    <2>1. k \in S /\ k > x /\ x \in Nat /\ k \in Nat
      BY <1>1, <1>5, <1>b
    <2>2. ASSUME NEW y \in S PROVE y > x <=> (y > k \/ y = k)
      <3>1. y > x => k <= y
        BY <1>5
      <3> QED BY <2>1, <3>1, <1>b
    <2>3. k \notin Above(k)
      BY <2>1
    <2>4. \A y : y \in Above(x) <=> (y \in S /\ (y > k \/ y = k))
      BY <2>2
    <2>5. \A y : y \in Above(x) <=> (y \in Above(k) \/ y = k)
      BY <2>1, <2>4
    <2> HIDE DEF Above
    <2> QED BY <2>3, <2>5
  <1>7. Cardinality(Above(k)) < l
    BY <1>3, <1>5 DEF Newest
  <1>8. Cardinality(Above(x)) = Cardinality(Above(k)) + 1
    BY <1>5, <1>6, <1>a, FS_AddElement
  <1>9. \A i \in S : Cardinality(Above(i)) < l + 1 => i \in Newest(S, l + 1)
    BY DEF Newest
  <1>10. x \in Newest(S, l + 1)
    <2>1. Cardinality(Above(x)) < l + 1
      BY <1>5, <1>7, <1>8, <1>a
    <2> QED BY <1>1, <1>9, <2>1
  <1>11. Above(x) \subseteq Newest(S, l + 1)
    <2> SUFFICES ASSUME NEW i \in Above(x) PROVE Cardinality(Above(i)) < l + 1
      BY <1>9
    <2>1. Cardinality(Above(i)) < l
      BY <1>3 DEF Newest
    <2> QED BY <2>1, <1>a
  <1>12. Above(x) \cup {x} \in SUBSET Newest(S, l + 1) /\ x \notin Above(x)
    BY <1>10, <1>11
  <1>13. Cardinality(Above(x) \cup {x}) = Cardinality(Above(x)) + 1
    BY <1>1, <1>12, <1>a, FS_AddElement
  <1>14. IsFiniteSet(Newest(S, l + 1)) /\ Cardinality(Newest(S, l + 1)) \in Nat
    BY NewestSubset, PartFinite
  <1>15. Cardinality(Above(x) \cup {x}) <= Cardinality(Newest(S, l + 1))
    BY <1>12, <1>14, FS_Subset
  <1> HIDE DEF Above
  <1> QED BY <1>1, <1>2, <1>13, <1>14, <1>15, <1>a

\* What is on a page is newer than all that is not.
LEMMA NewestAreAbove ==
  ASSUME NEW n \in Nat, NEW S \in SUBSET (1..n), NEW l \in Nat,
         NEW i \in Newest(S, l), NEW j \in S \ Newest(S, l)
  PROVE  j < i
  <1> SUFFICES ASSUME ~(j < i) PROVE FALSE
    OBVIOUS
  <1>1. i \in S /\ i \in Nat /\ j \in Nat /\ \A k \in S : k \in Nat
    <2>1. i \in S
      BY NewestSubset
    <2> QED BY <2>1, PartNumbers
  <1>2. {k \in S : k > j} \in SUBSET {k \in S : k > i}
    <2>1. \A k \in S : k > j => k > i
      BY <1>1
    <2> QED BY <2>1
  <1>3. Cardinality({k \in S : k > j}) <= Cardinality({k \in S : k > i})
    BY <1>2, PartFinite, FS_Subset
  <1>4. /\ Cardinality({k \in S : k > j}) \in Nat
        /\ Cardinality({k \in S : k > i}) \in Nat
    BY PartFinite
  <1> QED BY <1>3, <1>4 DEF Newest

-----------------------------------------------------------------------------
(* A page as it is read.                                                     *)

LEMMA ResolveType == ASSUME NEW raw \in RawLimits PROVE resolveLimit(raw) \in Nat \ {0}
  BY ListingAssumption DEF resolveLimit

LEMMA PageOfTrue ==
  ASSUME ListTyped, NEW q \in QuerySet, q.cursor \in 0..Len(rows),
         NEW after \in Behind(q)
  PROVE  PageOf(q, after) \in PageSet /\ PageTrue(q, PageOf(q, after))
  <1> DEFINE n == Len(rows)
             page == PageOf(q, after)
             data == Newest(after, q.limit)
             more == Cardinality(Newest(after, q.limit + 1)) > q.limit
  <1>1. /\ n \in Nat /\ DOMAIN rows = 1..n /\ q.limit \in Nat \ {0}
        /\ q.cursor \in 0..n
    BY DEF ListTyped, QuerySet
  <1>2. page.data = data /\ page.asOf = n
        /\ page.nextCursor = (IF more THEN Oldest(data) ELSE NoCursor)
    BY DEF PageOf
  <1>3. after \subseteq {i \in Listed(q) : Ahead(q.cursor, i)}
    BY NewestSubset DEF Behind, Ahead
  <1>4. (q.cursor = NoCursor \/ InList(q, q.cursor)) =>
           after = {i \in Listed(q) : Ahead(q.cursor, i)}
    BY DEF Behind, Ahead
  <1>5. Listed(q) \subseteq 1..n
    BY <1>1 DEF Listed
  <1>6. after \in SUBSET (1..n) /\ data \subseteq after
    BY <1>3, <1>5, NewestSubset
  <1>b. after \in SUBSET Nat /\ data \in SUBSET Nat
    <2>1. data \in SUBSET (1..n)
      BY <1>6
    <2> QED BY <1>1, <1>6, <2>1, PartNumbers
  <1>7. more => after # {}
    <2>1. ASSUME after = {} PROVE ~more
      <3>1. Newest(after, q.limit + 1) = {}
        BY <2>1, NewestSubset
      <3>2. Cardinality(Newest(after, q.limit + 1)) = 0
        BY <3>1, FS_EmptySet
      <3> QED BY <1>1, <3>2
    <2> QED BY <2>1
  <1>8. more => Oldest(data) \in data /\ \A i \in data : Oldest(data) <= i
    <2>1. more => data # {}
      BY <1>1, <1>6, <1>7, NewestNonempty
    <2> QED BY <1>b, <2>1, OldestIsLeast
  <1>9. ~more => data = after
    BY <1>1, <1>6, NewestAll
  <1>10. more => \A i \in after : i \in data \/ i < Oldest(data)
    BY <1>1, <1>6, <1>8, NewestAreAbove
  <1>11. more => Oldest(data) # NoCursor
    BY <1>1, <1>6, <1>8 DEF NoCursor
  <1> HIDE DEF n, data, more, page
  <1>12. page.nextCursor \in Nat
    <2>1. more => Oldest(data) \in Nat
      BY <1>8, <1>b
    <2>2. NoCursor \in Nat
      BY DEF NoCursor
    <2> QED BY <1>2, <2>1, <2>2
  <1>13. page \in PageSet
    <2>1. page = [data |-> page.data, asOf |-> page.asOf, nextCursor |-> page.nextCursor]
      BY DEF page, PageOf
    <2> QED BY <1>1, <1>2, <1>6, <1>12, <2>1 DEF PageSet
  <1>14. \A i \in Listed(q) : rows[i].tenant = q.tenant
    BY DEF Listed, InList
  <1>15. \A i \in data : rows[i].tenant = q.tenant /\ Ahead(q.cursor, i)
    BY <1>3, <1>6, <1>14
  <1>16. page.nextCursor # NoCursor =>
            page.nextCursor \in data /\ \A i \in data : page.nextCursor <= i
    BY <1>2, <1>8
  <1>17. (q.cursor = NoCursor \/ InList(q, q.cursor)) =>
          \A i \in Listed(q) : Ahead(q.cursor, i) =>
              i \in data \/ (page.nextCursor # NoCursor /\ i < page.nextCursor)
    BY <1>2, <1>4, <1>9, <1>10, <1>11
  <1>18. page.data \subseteq 1..Len(rows) /\ page.asOf <= Len(rows)
    <2>1. page.data \subseteq 1..n /\ page.asOf <= n
      BY <1>1, <1>2, <1>6
    <2> QED BY <2>1 DEF n
  <1>19. PageTrue(q, page)
    BY <1>1, <1>2, <1>15, <1>16, <1>17, <1>18 DEF PageTrue, n
  <1> QED BY <1>13, <1>19 DEF page

-----------------------------------------------------------------------------
(* Rows that come and leave the filter.                                      *)

RowsGo ==
    /\ rows' \in Seq(TableRow) /\ Len(rows) <= Len(rows')
    /\ \A i \in 1..Len(rows) : /\ rows'[i].tenant = rows[i].tenant
                               /\ rows'[i].found => rows[i].found

LEMMA InListStays ==
  ASSUME ListTyped, RowsGo, NEW q, NEW i \in 1..Len(rows), InList(q, i)'
  PROVE  InList(q, i)
  <1>1. rows'[i].tenant = q.tenant /\ (q.filtered => rows'[i].found)
    BY DEF InList
  <1> QED BY <1>1 DEF InList, RowsGo

LEMMA RowsOld ==
  ASSUME ListTyped, RowsGo
  PROVE  /\ Len(rows) \in Nat /\ Len(rows') \in Nat /\ Len(rows) <= Len(rows')
         /\ DOMAIN rows = 1..Len(rows) /\ 1..Len(rows) \subseteq 1..Len(rows')
         /\ \A i \in 1..Len(rows) : rows'[i].tenant = rows[i].tenant
  BY DEF ListTyped, RowsGo

LEMMA ListedStays ==
  ASSUME ListTyped, RowsGo, NEW q, NEW i \in Listed(q)', NEW n \in Nat,
         n <= Len(rows), i <= n
  PROVE  i \in Listed(q)
  <1>1. i \in 1..Len(rows') /\ InList(q, i)'
    BY DEF Listed, RowsGo
  <1>2. i \in 1..Len(rows)
    BY <1>1, RowsOld
  <1> QED BY <1>1, <1>2, InListStays, RowsOld DEF Listed

LEMMA PageStaysTrue ==
  ASSUME ListTyped, RowsGo, NEW q \in QuerySet, NEW page \in PageSet,
         PageTrue(q, page)
  PROVE  PageTrue(q, page)'
  <1>1. /\ q.cursor \in 0..Len(rows) /\ page.data \subseteq 1..Len(rows)
        /\ page.asOf <= Len(rows) /\ page.asOf \in Nat
        /\ \A i \in page.data : rows[i].tenant = q.tenant /\ Ahead(q.cursor, i)
        /\ page.nextCursor # NoCursor =>
              page.nextCursor \in page.data /\ \A i \in page.data : page.nextCursor <= i
    BY DEF PageTrue, PageSet
  <1>2. q.cursor \in 0..Len(rows') /\ page.data \subseteq 1..Len(rows')
        /\ page.asOf <= Len(rows')
    BY <1>1, RowsOld
  <1>3. \A i \in page.data : rows'[i].tenant = q.tenant /\ Ahead(q.cursor, i)
    BY <1>1, RowsOld
  <1>4. ASSUME q.cursor = NoCursor \/ InList(q, q.cursor)', NEW i \in Listed(q)',
               i <= page.asOf, Ahead(q.cursor, i)
        PROVE  i \in page.data \/ (page.nextCursor # NoCursor /\ i < page.nextCursor)
    <2>1. q.cursor = NoCursor \/ q.cursor \in 1..Len(rows)
      BY <1>1, RowsOld DEF NoCursor
    <2>2. q.cursor = NoCursor \/ InList(q, q.cursor)
      BY <1>4, <2>1, InListStays
    <2>3. i \in Listed(q)
      BY <1>1, <1>4, ListedStays
    <2> QED BY <1>4, <2>2, <2>3 DEF PageTrue
  <1> QED BY <1>1, <1>2, <1>3, <1>4 DEF PageTrue, Ahead

LEMMA WalkStaysTrue ==
  ASSUME ListTyped, RowsGo, NEW w \in WalkSet, WalkTrue(w)
  PROVE  WalkTrue(w)'
  <1>1. /\ w.query.cursor \in 0..Len(rows) /\ w.cursors \subseteq 1..Len(rows)
        /\ w.query.cursor # NoCursor => w.query.cursor \in w.cursors
        /\ \A k, l \in DOMAIN w.got : k < l =>
              \A i \in w.got[k], j \in w.got[l] : j < i
        /\ (w.step # "done" /\ w.query.cursor = NoCursor) \/ w.asOf <= Len(rows)
        /\ w.asOf \in Nat /\ w.query \in QuerySet /\ w.page \in SUBSET PageSet
    BY DEF WalkTrue, WalkSet
  <1>2. w.query.cursor \in 0..Len(rows') /\ w.cursors \subseteq 1..Len(rows')
    BY <1>1, RowsOld
  <1>3. \A k \in DOMAIN w.got : \A i \in w.got[k] :
          /\ i \in 1..Len(rows') /\ rows'[i].tenant = w.query.tenant
          /\ w.step # "done" => w.query.cursor # NoCursor /\ w.query.cursor <= i
    BY RowsOld DEF WalkTrue
  <1>4. (w.step # "done" /\ w.query.cursor = NoCursor) \/ w.asOf <= Len(rows')
    BY <1>1, RowsOld
  <1>5. ASSUME \A c \in w.cursors : InList(w.query, c)', NEW i \in Listed(w.query)',
               i <= w.asOf
        PROVE  \/ \E k \in DOMAIN w.got : i \in w.got[k]
               \/ w.step # "done" /\ Ahead(w.query.cursor, i)
    <2>1. CASE w.step # "done" /\ w.query.cursor = NoCursor
      BY <2>1 DEF Ahead
    <2>2. CASE w.asOf <= Len(rows)
      <3>1. \A c \in w.cursors : InList(w.query, c)
        BY <1>1, <1>5, InListStays
      <3>2. i \in Listed(w.query)
        BY <1>1, <1>5, <2>2, ListedStays
      <3> QED BY <1>5, <3>1, <3>2 DEF WalkTrue
    <2> QED BY <1>1, <2>1, <2>2
  <1>6. w.step = "fill" => \A page \in w.page : PageTrue(w.query, page)'
    BY <1>1, PageStaysTrue DEF WalkTrue
  <1>7. WalkShort(w)'
    <2>1. w.got \in Seq(SUBSET Nat) /\ w.query.cursor \in Nat /\ WalkShort(w)
      BY DEF WalkSet, QuerySet, WalkTrue
    <2>2. Len(rows) \in Nat /\ Len(rows') \in Nat /\ Len(rows) <= Len(rows')
      BY RowsOld
    <2> QED BY <2>1, <2>2 DEF WalkShort
  <1> QED BY <1>1, <1>2, <1>3, <1>4, <1>5, <1>6, <1>7 DEF WalkTrue, Ahead

-----------------------------------------------------------------------------
(* A client takes a page.                                                    *)

LEMMA TakeTrue ==
  ASSUME ListTyped, NEW w \in WalkSet, WalkTrue(w), w.step # "done",
         NEW page \in PageSet, PageTrue(w.query, page)
  PROVE  Take(w, page) \in WalkSet /\ WalkTrue(Take(w, page))
  <1> DEFINE v == Take(w, page)
             q == w.query
             next == page.nextCursor
             n == Len(w.got)
  <1>1. /\ q \in QuerySet /\ w.got \in Seq(SUBSET Nat) /\ n \in Nat
        /\ page.data \in SUBSET Nat /\ next \in Nat /\ page.asOf \in Nat
        /\ w.cursors \in SUBSET Nat /\ w.asOf \in Nat /\ w.cached \in BOOLEAN
        /\ DOMAIN w.got = 1..n /\ q.cursor \in Nat
    BY DEF WalkSet, PageSet, QuerySet
  <1> DEFINE got == Append(w.got, page.data)
             cursors == IF next = NoCursor THEN w.cursors ELSE w.cursors \cup {next}
             query == [q EXCEPT !.cursor = next]
             asOf == IF page.asOf < w.asOf THEN page.asOf ELSE w.asOf
             step == IF next = NoCursor THEN "done"
                     ELSE IF w.cached THEN "lookup" ELSE "find"
  <1>e. v = [w EXCEPT !.got = got, !.cursors = cursors, !.query = query,
                      !.asOf = asOf, !.page = {}, !.step = step]
    BY DEF Take
  <1>t. /\ got \in Seq(SUBSET Nat) /\ cursors \in SUBSET Nat /\ asOf \in Nat
        /\ step \in {"lookup", "find", "done"}
    BY <1>1
  <1>3. /\ query.cursor = next /\ query.tenant = q.tenant
        /\ query.filtered = q.filtered /\ query \in QuerySet
    BY <1>1 DEF QuerySet
  <1> HIDE DEF v, got, cursors, query, asOf, step
  <1>5. /\ v \in WalkSet /\ v.got = got /\ v.cursors = cursors /\ v.query = query
        /\ v.asOf = asOf /\ v.page = {} /\ v.step = step
    BY <1>1, <1>e, <1>t, <1>3 DEF WalkSet
  <1>2. /\ v.got = Append(w.got, page.data)
        /\ v.cursors = (IF next = NoCursor THEN w.cursors ELSE w.cursors \cup {next})
        /\ v.asOf = (IF page.asOf < w.asOf THEN page.asOf ELSE w.asOf)
        /\ v.step = (IF next = NoCursor THEN "done"
                     ELSE IF w.cached THEN "lookup" ELSE "find")
        /\ v.query.cursor = next /\ v.query.tenant = q.tenant
        /\ v.query.filtered = q.filtered
    BY <1>3, <1>5 DEF got, cursors, asOf, step
  <1>6. /\ DOMAIN v.got = 1..(n + 1) /\ v.got[n + 1] = page.data
        /\ \A k \in 1..n : v.got[k] = w.got[k]
    BY <1>1, <1>2
  <1>7. /\ \A i : InList(v.query, i) <=> InList(q, i)
        /\ Listed(v.query) = Listed(q)
    BY <1>2 DEF InList, Listed
  <1>8. /\ page.data \subseteq 1..Len(rows) /\ page.asOf <= Len(rows)
        /\ \A i \in page.data : rows[i].tenant = q.tenant /\ Ahead(q.cursor, i)
        /\ next # NoCursor => next \in page.data /\ \A i \in page.data : next <= i
        /\ Len(rows) \in Nat
    BY DEF PageTrue, ListTyped
  <1>9. /\ q.cursor # NoCursor => q.cursor \in w.cursors
        /\ w.cursors \subseteq 1..Len(rows)
        /\ \A k \in 1..n : \A i \in w.got[k] :
              /\ i \in 1..Len(rows) /\ rows[i].tenant = q.tenant
              /\ q.cursor # NoCursor /\ q.cursor <= i
    BY <1>1 DEF WalkTrue
  <1> HIDE DEF n
  \* The page lies below all that came before.
  <1>10. ASSUME NEW k \in 1..n, NEW i \in w.got[k], NEW j \in page.data
         PROVE  j < i
    <2>1. j < q.cursor /\ q.cursor <= i /\ i \in Nat /\ j \in Nat
      BY <1>1, <1>8, <1>9 DEF Ahead
    <2> QED BY <1>1, <2>1
  <1>11. next \in 0..Len(rows) /\ v.cursors \subseteq 1..Len(rows)
         /\ (next # NoCursor => next \in v.cursors)
    BY <1>1, <1>2, <1>8, <1>9 DEF NoCursor
  <1>12. ASSUME NEW k \in DOMAIN v.got, NEW i \in v.got[k]
         PROVE  /\ i \in 1..Len(rows) /\ rows[i].tenant = q.tenant
                /\ v.step # "done" => next # NoCursor /\ next <= i
    <2>1. v.step # "done" => next # NoCursor
      BY <1>2
    <2>2. CASE k = n + 1
      BY <1>6, <1>8, <2>1, <2>2
    <2>3. CASE k \in 1..n
      <3>1. i \in w.got[k]
        BY <1>6, <2>3
      <3>2. i \in 1..Len(rows) /\ rows[i].tenant = q.tenant
        BY <1>9, <2>3, <3>1
      <3>3. next # NoCursor => next < i
        BY <1>8, <1>10, <2>3, <3>1
      <3>4. next # NoCursor => next <= i
        BY <1>1, <1>8, <3>2, <3>3
      <3> QED BY <2>1, <3>2, <3>4
    <2>4. k = n + 1 \/ k \in 1..n
      BY <1>1, <1>6
    <2> QED BY <2>2, <2>3, <2>4
  <1>13. ASSUME NEW k \in DOMAIN v.got, NEW l \in DOMAIN v.got, k < l,
                NEW i \in v.got[k], NEW j \in v.got[l]
         PROVE  j < i
    <2>1. k \in 1..n /\ (l \in 1..n \/ l = n + 1)
      BY <1>1, <1>6, <1>13
    <2>2. CASE l = n + 1
      BY <1>6, <1>10, <1>13, <2>1, <2>2
    <2>3. CASE l \in 1..n
      BY <1>1, <1>6, <1>13, <2>1, <2>3 DEF WalkTrue
    <2> QED BY <2>1, <2>2, <2>3
  <1>14. v.asOf <= Len(rows) /\ v.asOf <= page.asOf /\ v.asOf <= w.asOf
    BY <1>1, <1>2, <1>8
  <1>15. ASSUME \A c \in v.cursors : InList(q, c), NEW i \in Listed(q), i <= v.asOf
         PROVE  \/ \E k \in DOMAIN v.got : i \in v.got[k]
                \/ v.step # "done" /\ Ahead(next, i)
    <2>1. \A c \in w.cursors : InList(q, c)
      BY <1>2, <1>15
    <2>2. q.cursor = NoCursor \/ InList(q, q.cursor)
      BY <1>9, <2>1
    <2>3. i \in Nat
      BY <1>8 DEF Listed, ListTyped
    <2>4. i <= page.asOf /\ i <= w.asOf
      BY <1>1, <1>8, <1>14, <1>15, <1>5, <2>3 DEF WalkSet
    <2>5. (\E k \in 1..n : i \in w.got[k]) \/ Ahead(q.cursor, i)
      BY <1>1, <2>1, <2>4 DEF WalkTrue
    <2>6. CASE \E k \in 1..n : i \in w.got[k]
      <3>1. PICK k \in 1..n : i \in v.got[k]
        BY <1>6, <2>6
      <3>2. k \in DOMAIN v.got
        BY <1>1, <1>6, <3>1
      <3> QED BY <3>1, <3>2
    <2>7. CASE Ahead(q.cursor, i)
      <3>1. i \in page.data \/ (next # NoCursor /\ i < next)
        BY <2>2, <2>4, <2>7 DEF PageTrue
      <3>2. n + 1 \in DOMAIN v.got
        BY <1>1, <1>6
      <3>3. next # NoCursor => v.step # "done"
        BY <1>2
      <3> QED BY <1>6, <3>1, <3>2, <3>3 DEF Ahead
    <2> QED BY <2>5, <2>6, <2>7
  <1>16. v.step # "fill"
    BY <1>2
  \* The next cursor is below the last one.
  <1>18. WalkShort(v)
    <2>1. /\ q.cursor = NoCursor => Len(w.got) = 0
          /\ q.cursor # NoCursor => q.cursor + Len(w.got) <= Len(rows) + 1
      BY DEF WalkTrue, WalkShort
    <2>2. Len(v.got) = Len(w.got) + 1 /\ Len(w.got) \in Nat
      BY <1>1, <1>2
    <2>3. next # NoCursor =>
            next \in 1..Len(rows) /\ (q.cursor = NoCursor \/ next < q.cursor)
      BY <1>8 DEF Ahead
    <2>4. q.cursor # NoCursor => q.cursor >= 1
      BY <1>1 DEF NoCursor
    <2>5. next # NoCursor => next + Len(v.got) <= Len(rows) + 1
      BY <1>1, <1>8, <2>1, <2>2, <2>3
    <2>6. Len(v.got) <= Len(rows) + 1
      BY <1>1, <1>8, <2>1, <2>2, <2>4
    <2>7. v.step # "done" => next # NoCursor
      BY <1>2
    <2> QED BY <1>2, <2>5, <2>6, <2>7 DEF WalkShort
  <1> HIDE DEF q, next
  <1>17. WalkTrue(v)
    BY <1>2, <1>7, <1>11, <1>12, <1>13, <1>14, <1>15, <1>16, <1>18 DEF WalkTrue
  <1> QED BY <1>5, <1>17 DEF v

-----------------------------------------------------------------------------
(* The invariant.                                                            *)

LEMMA InitListInv == ListingInit => ListInv
  <1> SUFFICES ASSUME ListingInit PROVE ListInv
    OBVIOUS
  <1>1. ListTyped
    BY DEF ListingInit, ListTyped
  <1>2. \A r \in Readers : walk[r] \notin WalkSet
    BY NotWalkingOut DEF ListingInit
  <1> QED BY <1>1, <1>2 DEF ListInv, ListingInit

\* One walk changes, to one that is true.
LEMMA WalkStep ==
  ASSUME ListInv, NEW r \in Readers, NEW w \in WalkSet, WalkTrue(w),
         walk' = [walk EXCEPT ![r] = w], UNCHANGED rows,
         cache' \in SUBSET EntrySet, \A e \in cache' : PageTrue(e.key, e.page),
         listTime' \in Nat
  PROVE  ListInv'
  <1>1. ListTyped'
    BY DEF ListInv, ListTyped
  <1>2. \A e \in cache' : PageTrue(e.key, e.page)'
    BY DEF PageTrue, InList, Listed
  <1>3. ASSUME NEW s \in Readers, NEW x \in WalkSet, x = walk'[s]
        PROVE  WalkTrue(x)'
    <2>1. WalkTrue(x)
      BY <1>3 DEF ListInv, ListTyped
    <2> QED BY <2>1 DEF WalkTrue, WalkShort, PageTrue, InList, Listed
  <1>4. ASSUME NEW s \in Readers, walk'[s] \in WalkSet PROVE WalkTrue(walk[s])'
    <2>1. PICK x \in WalkSet : x = walk'[s]
      BY <1>4
    <2>2. WalkTrue(x)'
      BY <1>3, <2>1
    <2> QED BY <2>1, <2>2
  <1> QED BY <1>1, <1>2, <1>4 DEF ListInv

\* Rows come or go, and no walk moves.
LEMMA RowsStep ==
  ASSUME ListInv, RowsGo, UNCHANGED <<cache, listTime, walk>>
  PROVE  ListInv'
  <1>1. ListTyped'
    BY DEF ListInv, ListTyped, RowsGo
  <1>2. ASSUME NEW e \in cache PROVE PageTrue(e.key, e.page)'
    <2>1. e.key \in QuerySet /\ e.page \in PageSet /\ PageTrue(e.key, e.page)
      BY DEF ListInv, ListTyped, EntrySet
    <2> QED BY <2>1, PageStaysTrue DEF ListInv
  <1>3. ASSUME NEW r \in Readers, walk[r] \in WalkSet PROVE WalkTrue(walk[r])'
    <2>1. PICK w \in WalkSet : w = walk[r] /\ WalkTrue(w)
      BY <1>3 DEF ListInv
    <2>2. WalkTrue(w)'
      BY <2>1, WalkStaysTrue DEF ListInv
    <2>3. w = walk'[r]
      BY <2>1
    <2> QED BY <2>2, <2>3
  <1> QED BY <1>1, <1>2, <1>3 DEF ListInv

LEMMA BeginTrue ==
  ASSUME ListInv, NEW t \in Tenants, NEW raw \in RawLimits,
         NEW filtered \in BOOLEAN, NEW cached \in BOOLEAN, NEW w,
         w = [step |-> IF cached THEN "lookup" ELSE "find", cached |-> cached,
              query |-> [tenant |-> t, limit |-> resolveLimit(raw),
                         filtered |-> filtered, cursor |-> NoCursor],
              page |-> {}, got |-> <<>>, cursors |-> {}, asOf |-> MaxRows]
  PROVE  w \in WalkSet /\ WalkTrue(w)
  <1>1. /\ w.query \in QuerySet /\ w.query.cursor = NoCursor
        /\ w.step \in {"lookup", "find"} /\ w.cursors = {} /\ w.got = <<>>
    BY ResolveType DEF QuerySet, NoCursor
  <1>2. w \in WalkSet
    BY <1>1, ListingAssumption DEF WalkSet
  <1>3. Len(rows) \in Nat /\ DOMAIN w.got = {}
    BY <1>1 DEF ListInv, ListTyped
  <1>4. w.query.cursor \in 0..Len(rows)
    BY <1>1, <1>3 DEF NoCursor
  <1>5. WalkShort(w)
    <2>1. Len(w.got) = 0
      BY <1>1
    <2> QED BY <1>1, <1>3, <2>1 DEF WalkShort
  <1> QED BY <1>1, <1>2, <1>3, <1>4, <1>5 DEF WalkTrue, Ahead

LEMMA NextListInv == ListInv /\ [ListingNext]_listVars => ListInv'
  <1> SUFFICES ASSUME ListInv, [ListingNext]_listVars PROVE ListInv'
    OBVIOUS
  <1>a. /\ ListTyped /\ rows \in Seq(TableRow) /\ cache \in SUBSET EntrySet
        /\ listTime \in Nat /\ \A e \in cache : PageTrue(e.key, e.page)
        /\ walk \in [Readers -> WalkSet \cup {NotWalking}]
    BY DEF ListInv, ListTyped
  <1>b. ASSUME NEW r \in Readers, walk[r].step # "idle"
        PROVE  walk[r] \in WalkSet /\ WalkTrue(walk[r])
    BY <1>a, <1>b, NotWalkingOut DEF ListInv
  <1>1. ASSUME NEW t \in Tenants, Insert(t) PROVE ListInv'
    <2> DEFINE new == [tenant |-> t, found |-> TRUE]
    <2>1. new \in TableRow /\ rows' = Append(rows, new)
      BY <1>1 DEF Insert, TableRow
    <2> HIDE DEF new
    <2>2. /\ rows' \in Seq(TableRow) /\ Len(rows') = Len(rows) + 1
          /\ Len(rows) \in Nat /\ \A i \in 1..Len(rows) : rows'[i] = rows[i]
      BY <1>a, <2>1
    <2>3. RowsGo
      BY <2>2 DEF RowsGo
    <2> QED BY <1>1, <2>3, RowsStep DEF Insert
  <1>2. ASSUME NEW i \in DOMAIN rows, LeaveFilter(i) PROVE ListInv'
    <2>1. rows' = [rows EXCEPT ![i].found = FALSE]
      BY <1>2 DEF LeaveFilter
    <2>2. rows[i] \in TableRow
      BY <1>a
    <2>3. [rows[i] EXCEPT !.found = FALSE] \in TableRow
          /\ [rows[i] EXCEPT !.found = FALSE].tenant = rows[i].tenant
          /\ [rows[i] EXCEPT !.found = FALSE].found = FALSE
      BY <2>2 DEF TableRow
    <2>4. PICK x \in TableRow : /\ rows' = [rows EXCEPT ![i] = x]
                               /\ x.tenant = rows[i].tenant /\ x.found = FALSE
      BY <2>1, <2>3
    <2>5. /\ rows' \in Seq(TableRow) /\ Len(rows') = Len(rows) /\ Len(rows) \in Nat
          /\ \A j \in 1..Len(rows) : rows'[j] = IF j = i THEN x ELSE rows[j]
      BY <1>a, <2>4
    <2>6. RowsGo
      BY <2>4, <2>5 DEF RowsGo
    <2> QED BY <1>2, <2>6, RowsStep DEF LeaveFilter
  <1>3. CASE ListTick
    <2>1. /\ UNCHANGED <<rows, walk>> /\ listTime' = listTime + 1
          /\ cache' \subseteq cache
      BY <1>3 DEF ListTick
    <2>2. ListTyped'
      BY <1>a, <2>1 DEF ListTyped
    <2>3. \A e \in cache' : PageTrue(e.key, e.page)'
      BY <1>a, <2>1 DEF PageTrue, InList, Listed
    <2>4. \A r \in Readers : walk'[r] \in WalkSet => WalkTrue(walk[r])'
      BY <2>1 DEF ListInv, WalkTrue, WalkShort, PageTrue, InList, Listed
    <2> QED BY <2>2, <2>3, <2>4 DEF ListInv
  <1>4. ASSUME NEW r \in Readers, NEW t \in Tenants, NEW raw \in RawLimits,
               NEW filtered \in BOOLEAN, NEW cached \in BOOLEAN,
               Begin(r, t, raw, filtered, cached)
        PROVE  ListInv'
    <2> DEFINE w == [step |-> IF cached THEN "lookup" ELSE "find", cached |-> cached,
              query |-> [tenant |-> t, limit |-> resolveLimit(raw),
                         filtered |-> filtered, cursor |-> NoCursor],
              page |-> {}, got |-> <<>>, cursors |-> {}, asOf |-> MaxRows]
    <2>1. w \in WalkSet /\ WalkTrue(w)
      BY BeginTrue
    <2>2. walk' = [walk EXCEPT ![r] = w] /\ UNCHANGED <<rows, cache, listTime>>
      BY <1>4 DEF Begin
    <2> HIDE DEF w
    <2> QED BY <1>a, <2>1, <2>2, WalkStep
  <1>5. ASSUME NEW r \in Readers, LookUp(r) PROVE ListInv'
    <2>1. /\ walk[r].step = "lookup" /\ walk[r] \in WalkSet /\ WalkTrue(walk[r])
          /\ UNCHANGED <<rows, cache, listTime>>
      BY <1>5, <1>b DEF LookUp
    <2>2. CASE walk' = [walk EXCEPT ![r].step = "find"]
      <3> DEFINE w == [walk[r] EXCEPT !.step = "find"]
      <3>1. walk' = [walk EXCEPT ![r] = w]
        BY <2>2
      <3>2. /\ w \in WalkSet /\ w.step = "find" /\ w.query = walk[r].query
            /\ w.got = walk[r].got /\ w.cursors = walk[r].cursors
            /\ w.asOf = walk[r].asOf
        BY <2>1 DEF WalkSet
      <3> HIDE DEF w
      <3>3. WalkTrue(w)
        BY <2>1, <3>2 DEF WalkTrue, WalkShort
      <3> QED BY <1>a, <2>1, <3>1, <3>2, <3>3, WalkStep
    <2>3. ASSUME NEW e \in cache, e.key = CacheKey(walk[r].query),
                 walk' = [walk EXCEPT ![r] = Take(@, e.page)]
          PROVE  ListInv'
      <3>1. PageTrue(walk[r].query, e.page) /\ e.page \in PageSet
        BY <1>a, <2>3 DEF CacheKey, EntrySet
      <3>2. Take(walk[r], e.page) \in WalkSet /\ WalkTrue(Take(walk[r], e.page))
        BY <1>a, <2>1, <3>1, TakeTrue
      <3>3. walk' = [walk EXCEPT ![r] = Take(walk[r], e.page)]
        BY <2>3
      <3> QED BY <1>a, <2>1, <3>2, <3>3, WalkStep
    <2> QED BY <1>5, <2>2, <2>3 DEF LookUp
  <1>6. ASSUME NEW r \in Readers, FindMany(r) PROVE ListInv'
    <2>1. /\ walk[r].step = "find" /\ walk[r] \in WalkSet /\ WalkTrue(walk[r])
          /\ UNCHANGED <<rows, cache, listTime>>
      BY <1>6, <1>b DEF FindMany
    <2>2. PICK after \in Behind(walk[r].query) :
            LET page == PageOf(walk[r].query, after) IN
            walk' = [walk EXCEPT ![r] = IF @.cached
                        THEN [@ EXCEPT !.step = "fill", !.page = {page}]
                        ELSE Take(@, page)]
      BY <1>6 DEF FindMany
    <2> DEFINE page == PageOf(walk[r].query, after)
    <2>3. walk[r].query \in QuerySet /\ walk[r].query.cursor \in 0..Len(rows)
      BY <2>1 DEF WalkSet, WalkTrue
    <2>4. page \in PageSet /\ PageTrue(walk[r].query, page)
      BY <1>a, <2>3, PageOfTrue
    <2> HIDE DEF page
    <2>5. \/ walk' = [walk EXCEPT ![r] = [walk[r] EXCEPT !.step = "fill", !.page = {page}]]
          \/ walk' = [walk EXCEPT ![r] = Take(walk[r], page)]
      BY <2>2 DEF page
    <2>6. CASE walk' = [walk EXCEPT ![r] =
                          [walk[r] EXCEPT !.step = "fill", !.page = {page}]]
      <3> DEFINE w == [walk[r] EXCEPT !.step = "fill", !.page = {page}]
      <3>1. /\ w \in WalkSet /\ w.step = "fill" /\ w.query = walk[r].query
            /\ w.got = walk[r].got /\ w.cursors = walk[r].cursors
            /\ w.asOf = walk[r].asOf /\ w.page = {page}
        BY <2>1, <2>4 DEF WalkSet
      <3>2. walk' = [walk EXCEPT ![r] = w]
        BY <2>6
      <3> HIDE DEF w
      <3>3. WalkTrue(w)
        BY <2>1, <2>4, <3>1 DEF WalkTrue, WalkShort
      <3> QED BY <1>a, <2>1, <3>1, <3>2, <3>3, WalkStep
    <2>7. CASE walk' = [walk EXCEPT ![r] = Take(walk[r], page)]
      <3>1. Take(walk[r], page) \in WalkSet /\ WalkTrue(Take(walk[r], page))
        BY <1>a, <2>1, <2>4, TakeTrue
      <3> QED BY <1>a, <2>1, <2>7, <3>1, WalkStep
    <2> QED BY <2>5, <2>6, <2>7
  <1>7. ASSUME NEW r \in Readers, Fill(r) PROVE ListInv'
    <2> DEFINE key == walk[r].query
    <2>1. /\ walk[r].step = "fill" /\ walk[r] \in WalkSet /\ WalkTrue(walk[r])
          /\ UNCHANGED <<rows, listTime>>
      BY <1>7, <1>b DEF Fill
    <2>2. PICK page \in walk[r].page :
            /\ cache' = {e \in cache : e.key # key}
                  \cup {[key |-> key, page |-> page, expires |-> listTime + PageTtl]}
            /\ walk' = [walk EXCEPT ![r] = Take(@, page)]
      BY <1>7 DEF Fill, CacheKey
    <2>3. key \in QuerySet /\ page \in PageSet /\ PageTrue(key, page)
      BY <2>1 DEF WalkSet, WalkTrue
    <2>4. Take(walk[r], page) \in WalkSet /\ WalkTrue(Take(walk[r], page))
      BY <1>a, <2>1, <2>3, TakeTrue
    <2> DEFINE new == [key |-> key, page |-> page, expires |-> listTime + PageTtl]
    <2>5. new \in EntrySet /\ new.key = key /\ new.page = page
      BY <1>a, <2>3, ListingAssumption DEF EntrySet
    <2>6. cache' \subseteq cache \cup {new}
      BY <2>2
    <2> HIDE DEF new, key
    <2>7. cache' \in SUBSET EntrySet /\ \A e \in cache' : PageTrue(e.key, e.page)
      BY <1>a, <2>3, <2>5, <2>6
    <2>8. walk' = [walk EXCEPT ![r] = Take(walk[r], page)] /\ listTime' \in Nat
      BY <1>a, <2>1, <2>2
    <2> QED BY <2>1, <2>4, <2>7, <2>8, WalkStep
  <1>8. CASE UNCHANGED listVars
    <2>1. RowsGo
      BY <1>8, <1>a DEF listVars, RowsGo
    <2> QED BY <1>8, <2>1, RowsStep DEF listVars
  <1> QED BY <1>1, <1>2, <1>3, <1>4, <1>5, <1>6, <1>7, <1>8 DEF ListingNext

-----------------------------------------------------------------------------
(* Webhooks: the inductive invariant.                                        *)

RowSet == [status : {"none", "PENDING", "DELIVERED", "FAILED", "CANCELLED"},
           attempts : Nat]
CopySet == [delivery : Deliveries, attempts : Nat]
PollerSet == [step : {"poll", "look", "post", "cancel", "record", "ended"},
              batch : SUBSET CopySet, copy : CopySet \cup {NoCopy},
              answer : {"none", "ok", "error", "lost"}]

HooksTyped ==
    /\ endpoint \in [Endpoints -> {"none", "active", "inactive"}]
    /\ row \in [Deliveries -> RowSet]
    /\ DOMAIN found = Events
    /\ poller \in [Pollers -> PollerSet]
    /\ posts \in [Deliveries -> Nat] /\ deaths \in Nat

\* A poller has a row at work from its look to its record.
StepsTrue ==
    \A p \in Pollers :
        /\ poller[p].step \in {"poll", "ended"} => poller[p].batch = {}
        /\ poller[p].step \in {"poll", "look", "ended"} => poller[p].copy = NoCopy
        /\ poller[p].step \in {"post", "cancel", "record"}
              => poller[p].copy \in CopySet

\* Before the rows of an event are written it has none, and no posts.
Untouched ==
    \A d \in Deliveries : found[d[1]] # {} => posts[d] = 0 /\ row[d] = NoRow

\* What a poller copied was true, and its count is behind at worst.
CopyTrue(c) ==
    /\ c.attempts < MAX_ATTEMPTS /\ c.attempts <= posts[c.delivery]
    /\ found[c.delivery[1]] = {}

CopiesTrue ==
    \A p \in Pollers :
        /\ \A c \in poller[p].batch : CopyTrue(c)
        /\ poller[p].copy \in CopySet => CopyTrue(poller[p].copy)

\* What a poller is about to write has been earned.
AnswerTrue(r) ==
    LET d == r.copy.delivery IN
    /\ r.step = "cancel" =>
          endpoint[EndpointOf(d)] = "inactive" \/ row[d] = NoRow
    /\ r.step = "record" =>
          r.copy.attempts < posts[d] /\ (r.answer = "ok" => d \in accepted)

AnswersTrue == \A p \in Pollers : AnswerTrue(poller[p])

RowsGone ==
    \A d \in Deliveries : endpoint[EndpointOf(d)] = "none" => row[d] = NoRow

EarnedInv == /\ HooksTyped /\ StepsTrue /\ Untouched /\ CopiesTrue /\ AnswersTrue
             /\ RowsGone /\ OutcomesAreEarned

-----------------------------------------------------------------------------
(* Facts about the data.                                                     *)

LEMMA DeliveryPair ==
  ASSUME NEW d \in Deliveries
  PROVE  d[1] \in Events /\ EndpointOf(d) \in Endpoints /\ d # <<>>
  BY DEF Deliveries, EndpointOf

LEMMA NoRowTyped == NoRow \in RowSet /\ NoRow.attempts = 0 /\ NoRow.status = "none"
  BY DEF NoRow, RowSet

LEMMA NoCopyOut == NoCopy \notin CopySet /\ NoCopy.delivery = <<>>
  <1>1. NoCopy.delivery = <<>>
    BY DEF NoCopy
  <1>2. \A c \in CopySet : c.delivery \in Deliveries
    BY DEF CopySet
  <1> QED BY <1>1, <1>2, DeliveryPair

LEMMA WaitingTyped ==
  /\ Waiting \in PollerSet /\ Waiting.step = "poll" /\ Waiting.batch = {}
  /\ Waiting.copy = NoCopy
  BY DEF Waiting, PollerSet

-----------------------------------------------------------------------------
(* What each step does to its poller.                                        *)

LEMMA PollEffect ==
  ASSUME EarnedInv, NEW p \in Pollers, Poll(p)
  PROVE  \E r \in PollerSet :
            /\ poller' = [poller EXCEPT ![p] = r]
            /\ r.step = "look" /\ r.copy = NoCopy
            /\ r.batch = {Copy(d) : d \in {d \in Deliveries : Due(d)}}
  <1> DEFINE b == {Copy(d) : d \in {d \in Deliveries : Due(d)}}
             r == [Waiting EXCEPT !.step = "look", !.batch = b]
  <1>1. \A d \in Deliveries : Copy(d) \in CopySet
    BY DEF Copy, CopySet, EarnedInv, HooksTyped, RowSet
  <1>2. b \in SUBSET CopySet
    BY <1>1
  <1>3. poller' = [poller EXCEPT ![p] = r]
    BY DEF Poll
  <1> HIDE DEF b
  <1>4. r \in PollerSet /\ r.step = "look" /\ r.copy = NoCopy /\ r.batch = b
    BY <1>2 DEF Waiting, PollerSet
  <1> HIDE DEF r
  <1> QED BY <1>3, <1>4 DEF b

LEMMA LookEffect ==
  ASSUME EarnedInv, NEW p \in Pollers, Look(p)
  PROVE  \E r \in PollerSet, c \in poller[p].batch :
            /\ poller' = [poller EXCEPT ![p] = r] /\ poller[p].step = "look"
            /\ c \in CopySet /\ r.copy = c /\ r.batch = poller[p].batch \ {c}
            /\ r.step = (IF endpoint[EndpointOf(c.delivery)] = "active"
                         THEN "post" ELSE "cancel")
  <1>1. poller[p] \in PollerSet
    BY DEF EarnedInv, HooksTyped
  <1>2. PICK c \in poller[p].batch :
          poller' = [poller EXCEPT
              ![p].batch = @ \ {c}, ![p].copy = c,
              ![p].step = IF endpoint[EndpointOf(c.delivery)] = "active"
                          THEN "post" ELSE "cancel"]
    BY DEF Look
  <1>3. c \in CopySet
    BY <1>1, <1>2 DEF PollerSet
  <1> DEFINE st == IF endpoint[EndpointOf(c.delivery)] = "active"
                   THEN "post" ELSE "cancel"
             r == [poller[p] EXCEPT !.batch = @ \ {c}, !.copy = c, !.step = st]
  <1>4. st \in {"post", "cancel"}
    OBVIOUS
  <1>5. poller' = [poller EXCEPT ![p] = r]
    BY <1>2
  <1> HIDE DEF st
  <1>6. r \in PollerSet /\ r.step = st /\ r.copy = c /\ r.batch = poller[p].batch \ {c}
    BY <1>1, <1>3, <1>4 DEF PollerSet
  <1> HIDE DEF r
  <1>7. poller[p].step = "look"
    BY DEF Look
  <1> QED BY <1>3, <1>5, <1>6, <1>7 DEF st

\* A poller that goes on, or ends, or starts again, lets go of its row.
LEMMA LettingGo ==
  ASSUME EarnedInv, NEW p \in Pollers,
         Onwards(p) \/ Ends(p) \/ poller' = [poller EXCEPT ![p] = Waiting]
  PROVE  \E r \in PollerSet :
            /\ poller' = [poller EXCEPT ![p] = r]
            /\ r.step \in {"poll", "look", "ended"} /\ r.copy = NoCopy
            /\ r.batch \subseteq poller[p].batch
            /\ r.step # "look" => r.batch = {}
  <1>1. poller[p] \in PollerSet
    BY DEF EarnedInv, HooksTyped
  <1> DEFINE on == [poller[p] EXCEPT !.step = "look", !.copy = NoCopy]
             over == [Waiting EXCEPT !.step = "ended"]
  <1>2. on \in PollerSet /\ on.step = "look" /\ on.copy = NoCopy
        /\ on.batch = poller[p].batch
    BY <1>1 DEF PollerSet
  <1>3. over \in PollerSet /\ over.step = "ended" /\ over.copy = NoCopy
        /\ over.batch = {}
    BY DEF Waiting, PollerSet
  <1>4. \/ poller' = [poller EXCEPT ![p] = on]
        \/ poller' = [poller EXCEPT ![p] = over]
        \/ poller' = [poller EXCEPT ![p] = Waiting]
    BY DEF Onwards, Ends
  <1> HIDE DEF on, over
  <1> QED BY <1>2, <1>3, <1>4, WaitingTyped

LEMMA PostEffect ==
  ASSUME EarnedInv, NEW p \in Pollers, Post(p)
  PROVE  \E r \in PollerSet, d \in Deliveries :
            /\ poller' = [poller EXCEPT ![p] = r] /\ poller[p].step = "post"
            /\ d = poller[p].copy.delivery /\ poller[p].copy \in CopySet
            /\ r.step = "record" /\ r.copy = poller[p].copy /\ r.batch = poller[p].batch
            /\ posts' = [posts EXCEPT ![d] = @ + 1]
            /\ r.answer = "ok" => d \in accepted'
            /\ accepted \subseteq accepted'
  <1>1. poller[p] \in PollerSet /\ poller[p].step = "post"
    BY DEF EarnedInv, HooksTyped, Post
  <1>2. poller[p].copy \in CopySet /\ poller[p].copy.delivery \in Deliveries
    BY <1>1 DEF EarnedInv, StepsTrue, CopySet
  <1> DEFINE d == poller[p].copy.delivery
  <1>3. PICK answer \in {"ok", "error", "lost"} :
          /\ poller' = [poller EXCEPT ![p].step = "record", ![p].answer = answer]
          /\ accepted' \in {accepted \cup IF answer = "error" THEN {} ELSE {d},
                            accepted \cup IF answer = "ok" THEN {d} ELSE {}}
    BY DEF Post
  <1> DEFINE r == [poller[p] EXCEPT !.step = "record", !.answer = answer]
  <1>4. /\ r \in PollerSet /\ r.step = "record" /\ r.copy = poller[p].copy
        /\ r.batch = poller[p].batch /\ r.answer = answer
    BY <1>1, <1>3 DEF PollerSet
  <1>5. poller' = [poller EXCEPT ![p] = r]
    BY <1>3
  <1>6. posts' = [posts EXCEPT ![d] = @ + 1]
    BY DEF Post
  <1> HIDE DEF r, d
  <1>7. accepted \subseteq accepted' /\ (answer = "ok" => d \in accepted')
    BY <1>3
  <1> QED BY <1>1, <1>2, <1>4, <1>5, <1>6, <1>7 DEF d

LEMMA CancelEffect ==
  ASSUME EarnedInv, NEW p \in Pollers, Cancel(p)
  PROVE  \E r \in PollerSet, d \in Deliveries :
            /\ poller' = [poller EXCEPT ![p] = r] /\ poller[p].step = "cancel"
            /\ r.step \in {"poll", "look", "ended"} /\ r.copy = NoCopy
            /\ r.batch \subseteq poller[p].batch /\ (r.step # "look" => r.batch = {})
            /\ d = poller[p].copy.delivery /\ poller[p].copy \in CopySet
            /\ \/ row' = row
               \/ row[d] # NoRow /\ row' = [row EXCEPT ![d].status = "CANCELLED"]
  <1>1. /\ poller[p] \in PollerSet /\ poller[p].step = "cancel"
        /\ poller[p].copy \in CopySet /\ poller[p].copy.delivery \in Deliveries
    BY DEF EarnedInv, HooksTyped, Cancel, StepsTrue, CopySet
  <1>2. Onwards(p) \/ Ends(p)
    BY DEF Cancel
  <1>3. PICK r \in PollerSet :
            /\ poller' = [poller EXCEPT ![p] = r]
            /\ r.step \in {"poll", "look", "ended"} /\ r.copy = NoCopy
            /\ r.batch \subseteq poller[p].batch /\ (r.step # "look" => r.batch = {})
    BY <1>2, LettingGo
  <1> DEFINE d == poller[p].copy.delivery
  <1>4. \/ row' = row
        \/ row[d] # NoRow /\ row' = [row EXCEPT ![d].status = "CANCELLED"]
    BY DEF Cancel
  <1> QED BY <1>1, <1>3, <1>4

LEMMA RecordEffect ==
  ASSUME EarnedInv, NEW p \in Pollers, Record(p)
  PROVE  \E r \in PollerSet, d \in Deliveries, out \in RowSet :
            /\ poller' = [poller EXCEPT ![p] = r] /\ poller[p].step = "record"
            /\ r.step \in {"poll", "look", "ended"} /\ r.copy = NoCopy
            /\ r.batch \subseteq poller[p].batch /\ (r.step # "look" => r.batch = {})
            /\ d = poller[p].copy.delivery /\ poller[p].copy \in CopySet
            /\ out.attempts = poller[p].copy.attempts + 1
            /\ out.status \in {"DELIVERED", "FAILED", "PENDING"}
            /\ out.status = "DELIVERED" => d \in accepted
            /\ out.status = "FAILED" => out.attempts >= MAX_ATTEMPTS
            /\ out.status = "PENDING" => out.attempts < MAX_ATTEMPTS
            /\ \/ row' = row /\ row[d] = NoRow
               \/ row[d] # NoRow /\ row' = [row EXCEPT ![d] = out]
  <1>1. /\ poller[p] \in PollerSet /\ poller[p].step = "record"
        /\ poller[p].copy \in CopySet /\ poller[p].copy.delivery \in Deliveries
        /\ poller[p].copy.attempts \in Nat
    BY DEF EarnedInv, HooksTyped, Record, StepsTrue, CopySet
  <1>2. Onwards(p) \/ Ends(p)
    BY DEF Record
  <1>3. PICK r \in PollerSet :
            /\ poller' = [poller EXCEPT ![p] = r]
            /\ r.step \in {"poll", "look", "ended"} /\ r.copy = NoCopy
            /\ r.batch \subseteq poller[p].batch /\ (r.step # "look" => r.batch = {})
    BY <1>2, LettingGo
  <1> DEFINE d == poller[p].copy.delivery
             c == poller[p].copy
             out == Outcome(c, poller[p].answer)
  <1>4. \/ row' = row /\ row[d] = NoRow
        \/ row[d] # NoRow /\ row' = [row EXCEPT ![d] = out]
    BY DEF Record
  <1>5. poller[p].answer = "ok" => d \in accepted
    BY <1>1 DEF EarnedInv, AnswersTrue, AnswerTrue
  <1> HIDE DEF d, c
  <1>6. c.attempts \in Nat
    BY <1>1 DEF c
  <1>7. /\ out \in RowSet /\ out.attempts = c.attempts + 1
        /\ out.status \in {"DELIVERED", "FAILED", "PENDING"}
        /\ out.status = "DELIVERED" => poller[p].answer = "ok"
        /\ out.status = "FAILED" => out.attempts >= MAX_ATTEMPTS
        /\ out.status = "PENDING" => out.attempts < MAX_ATTEMPTS
    BY <1>6, WebhooksAssumption DEF Outcome, markFailed, RowSet
  <1> HIDE DEF out
  <1> QED BY <1>1, <1>3, <1>4, <1>5, <1>7 DEF c, d

LEMMA StartEffect ==
  ASSUME EarnedInv, NEW p \in Pollers, StartAgain(p)
  PROVE  \E r \in PollerSet :
            /\ poller' = [poller EXCEPT ![p] = r]
            /\ r.step \in {"poll", "look", "ended"} /\ r.copy = NoCopy
            /\ r.batch \subseteq poller[p].batch /\ (r.step # "look" => r.batch = {})
  BY LettingGo DEF StartAgain

\* Writing the rows of an event, or finding its endpoints.
LEMMA CreateEffect ==
  ASSUME EarnedInv, NEW ev \in Events, CreateRows(ev)
  PROVE  /\ found[ev] # {} /\ found' = [found EXCEPT ![ev] = {}]
         /\ \A d \in Deliveries : row'[d] = row[d] \/
               /\ d[1] = ev /\ row'[d] = [status |-> "PENDING", attempts |-> 0]
               /\ endpoint[EndpointOf(d)] # "none"
         /\ row' \in [Deliveries -> RowSet]
  <1> DEFINE fresh == [status |-> "PENDING", attempts |-> 0]
  <1>1. fresh \in RowSet
    BY DEF RowSet
  <1> HIDE DEF fresh
  <1>2. row' = row \/ /\ ~ \E e \in found[ev] : endpoint[e] = "none"
                      /\ row' = [d \in Deliveries |->
                            IF d[1] = ev /\ EndpointOf(d) \in found[ev]
                            THEN fresh ELSE row[d]]
    BY DEF CreateRows, fresh
  <1>3. row \in [Deliveries -> RowSet]
    BY DEF EarnedInv, HooksTyped
  <1>4. row' \in [Deliveries -> RowSet]
    BY <1>1, <1>2, <1>3
  <1>5. found[ev] # {} /\ found' = [found EXCEPT ![ev] = {}]
    BY DEF CreateRows
  <1>6. ASSUME NEW d \in Deliveries
        PROVE  row'[d] = row[d] \/ (d[1] = ev /\ row'[d] = fresh
                                    /\ endpoint[EndpointOf(d)] # "none")
    BY <1>2
  <1> QED BY <1>4, <1>5, <1>6 DEF fresh

-----------------------------------------------------------------------------
(* The invariant.                                                            *)

LEMMA InitEarned == WebhooksInit => EarnedInv
  <1> SUFFICES ASSUME WebhooksInit PROVE EarnedInv
    OBVIOUS
  <1>1. HooksTyped
    BY WaitingTyped, NoRowTyped DEF WebhooksInit, HooksTyped
  <1>2. \A p \in Pollers : poller[p] = Waiting
    BY DEF WebhooksInit
  <1>3. StepsTrue /\ CopiesTrue /\ AnswersTrue
    BY <1>2, WaitingTyped, NoCopyOut
       DEF StepsTrue, CopiesTrue, AnswersTrue, AnswerTrue
  <1>4. Untouched /\ RowsGone
    BY DEF WebhooksInit, Untouched, RowsGone
  <1>5. OutcomesAreEarned
    BY NoRowTyped DEF WebhooksInit, OutcomesAreEarned
  <1> QED BY <1>1, <1>3, <1>4, <1>5 DEF EarnedInv

LEMMA NextHooksTyped ==
  ASSUME EarnedInv, [WebhooksNext]_hookVars PROVE HooksTyped'
  <1> USE DEF HooksTyped, histories
  <1>a. HooksTyped
    BY DEF EarnedInv
  <1>1. ASSUME NEW e \in Endpoints, registerEndpoint(e) \/ SwitchOff(e)
        PROVE  HooksTyped'
    BY <1>1, <1>a DEF registerEndpoint, SwitchOff
  <1>2. ASSUME NEW e \in Endpoints, deleteEndpoint(e) PROVE HooksTyped'
    <2>1. row' \in [Deliveries -> RowSet]
      BY <1>2, <1>a, NoRowTyped DEF deleteEndpoint
    <2> QED BY <1>2, <1>a, <2>1 DEF deleteEndpoint
  <1>3. ASSUME NEW ev \in Events, FindEndpoints(ev) PROVE HooksTyped'
    BY <1>3, <1>a DEF FindEndpoints
  <1>4. ASSUME NEW ev \in Events, CreateRows(ev) PROVE HooksTyped'
    <2>1. row' \in [Deliveries -> RowSet] /\ DOMAIN found' = Events
      BY <1>4, <1>a, CreateEffect
    <2> QED BY <1>4, <1>a, <2>1 DEF CreateRows
  <1>5. ASSUME NEW p \in Pollers, Poll(p) PROVE HooksTyped'
    BY <1>5, <1>a, PollEffect DEF Poll
  <1>6. ASSUME NEW p \in Pollers, Look(p) PROVE HooksTyped'
    <2>1. PICK r \in PollerSet : poller' = [poller EXCEPT ![p] = r]
      BY <1>6, LookEffect
    <2> QED BY <1>6, <1>a, <2>1 DEF Look
  <1>7. ASSUME NEW p \in Pollers, Cancel(p) PROVE HooksTyped'
    <2>1. PICK r \in PollerSet, d \in Deliveries :
            /\ poller' = [poller EXCEPT ![p] = r]
            /\ \/ row' = row
               \/ row[d] # NoRow /\ row' = [row EXCEPT ![d].status = "CANCELLED"]
      BY <1>7, CancelEffect
    <2>2. [row[d] EXCEPT !.status = "CANCELLED"] \in RowSet
      BY <1>a DEF RowSet
    <2> QED BY <1>7, <1>a, <2>1, <2>2 DEF Cancel
  <1>8. ASSUME NEW p \in Pollers, Post(p) PROVE HooksTyped'
    <2>1. PICK r \in PollerSet, d \in Deliveries :
            /\ poller' = [poller EXCEPT ![p] = r]
            /\ posts' = [posts EXCEPT ![d] = @ + 1]
      BY <1>8, PostEffect
    <2>2. posts' \in [Deliveries -> Nat]
      BY <1>a, <2>1
    <2> QED BY <1>8, <1>a, <2>1, <2>2 DEF Post
  <1>9. ASSUME NEW p \in Pollers, Record(p) PROVE HooksTyped'
    <2>1. PICK r \in PollerSet, d \in Deliveries, out \in RowSet :
            /\ poller' = [poller EXCEPT ![p] = r]
            /\ row' = row \/ row' = [row EXCEPT ![d] = out]
      BY <1>9, RecordEffect
    <2> QED BY <1>9, <1>a, <2>1 DEF Record
  <1>10. ASSUME NEW p \in Pollers, StartAgain(p) PROVE HooksTyped'
    <2>1. PICK r \in PollerSet : poller' = [poller EXCEPT ![p] = r]
      BY <1>10, StartEffect
    <2>2. deaths' \in Nat
      BY <1>10, <1>a DEF StartAgain
    <2> QED BY <1>10, <1>a, <2>1, <2>2 DEF StartAgain
  <1>11. CASE UNCHANGED hookVars
    BY <1>11, <1>a DEF hookVars
  <1> QED BY <1>1, <1>2, <1>3, <1>4, <1>5, <1>6, <1>7, <1>8, <1>9, <1>10, <1>11
          DEF WebhooksNext

LEMMA NextStepsTrue ==
  ASSUME EarnedInv, [WebhooksNext]_hookVars PROVE StepsTrue'
  <1> DEFINE Good(r) ==
        /\ r.step \in {"poll", "ended"} => r.batch = {}
        /\ r.step \in {"poll", "look", "ended"} => r.copy = NoCopy
        /\ r.step \in {"post", "cancel", "record"} => r.copy \in CopySet
  <1>a. poller \in [Pollers -> PollerSet] /\ \A p \in Pollers : Good(poller[p])
    BY DEF EarnedInv, HooksTyped, StepsTrue
  <1>1. ASSUME NEW p \in Pollers, NEW r \in PollerSet, Good(r),
               poller' = [poller EXCEPT ![p] = r]
        PROVE  StepsTrue'
    BY <1>1, <1>a DEF StepsTrue
  <1>2. ASSUME NEW p \in Pollers, Poll(p) PROVE StepsTrue'
    BY <1>1, <1>2, PollEffect
  <1>3. ASSUME NEW p \in Pollers, Look(p) PROVE StepsTrue'
    <2>1. PICK r \in PollerSet, c \in poller[p].batch :
            /\ poller' = [poller EXCEPT ![p] = r]
            /\ c \in CopySet /\ r.copy = c /\ r.step \in {"post", "cancel"}
      BY <1>3, LookEffect
    <2> QED BY <1>1, <2>1
  <1>4. ASSUME NEW p \in Pollers, Cancel(p) PROVE StepsTrue'
    BY <1>1, <1>4, CancelEffect
  <1>5. ASSUME NEW p \in Pollers, Post(p) PROVE StepsTrue'
    BY <1>1, <1>5, PostEffect
  <1>6. ASSUME NEW p \in Pollers, Record(p) PROVE StepsTrue'
    BY <1>1, <1>6, RecordEffect
  <1>7. ASSUME NEW p \in Pollers, StartAgain(p) PROVE StepsTrue'
    BY <1>1, <1>7, StartEffect
  <1>8. CASE UNCHANGED poller
    BY <1>8, <1>a DEF StepsTrue
  <1> HIDE DEF Good
  <1> QED BY <1>2, <1>3, <1>4, <1>5, <1>6, <1>7, <1>8 DEF WebhooksNext, hookVars,
             registerEndpoint, deleteEndpoint, SwitchOff, FindEndpoints, CreateRows

LEMMA NextUntouched ==
  ASSUME EarnedInv, [WebhooksNext]_hookVars PROVE Untouched'
  <1> USE DEF Untouched
  <1>a. /\ Untouched /\ \A d \in Deliveries : d[1] \in Events
        /\ row \in [Deliveries -> RowSet] /\ DOMAIN found = Events
        /\ posts \in [Deliveries -> Nat]
    BY DeliveryPair DEF EarnedInv, HooksTyped
  <1>1. ASSUME NEW e \in Endpoints, deleteEndpoint(e) PROVE Untouched'
    BY <1>1, <1>a DEF deleteEndpoint, histories
  <1>2. ASSUME NEW ev \in Events, FindEndpoints(ev) PROVE Untouched'
    <2>1. found[ev] # {} /\ UNCHANGED <<row, posts>>
          /\ \A x \in Events : x # ev => found'[x] = found[x]
      BY <1>2, <1>a DEF FindEndpoints, NotAsked, histories
    <2> QED BY <1>a, <2>1
  <1>3. ASSUME NEW ev \in Events, CreateRows(ev) PROVE Untouched'
    <2>1. posts' = posts
      BY <1>3 DEF CreateRows, histories
    <2> QED BY <1>3, <1>a, <2>1, CreateEffect
  \* A poller writes and posts only what it has copied.
  <1>4. ASSUME NEW p \in Pollers, poller[p].step \in {"post", "cancel", "record"}
        PROVE  found[poller[p].copy.delivery[1]] = {}
    BY <1>4 DEF EarnedInv, StepsTrue, CopiesTrue, CopyTrue
  <1>5. ASSUME NEW p \in Pollers, Cancel(p) PROVE Untouched'
    <2>1. PICK d \in Deliveries :
            /\ d = poller[p].copy.delivery /\ poller[p].step = "cancel"
            /\ row' = row \/ row' = [row EXCEPT ![d].status = "CANCELLED"]
      BY <1>5, CancelEffect
    <2>2. UNCHANGED <<found, posts>> /\ found[d[1]] = {}
      BY <1>4, <1>5, <2>1 DEF Cancel, histories
    <2>3. \A x \in Deliveries : x # d => row'[x] = row[x]
      BY <1>a, <2>1
    <2> QED BY <1>a, <2>2, <2>3
  <1>6. ASSUME NEW p \in Pollers, Post(p) PROVE Untouched'
    <2>1. PICK d \in Deliveries :
            /\ d = poller[p].copy.delivery /\ poller[p].step = "post"
            /\ posts' = [posts EXCEPT ![d] = @ + 1]
      BY <1>6, PostEffect
    <2>2. UNCHANGED <<found, row>> /\ found[d[1]] = {}
      BY <1>4, <1>6, <2>1 DEF Post
    <2>3. \A x \in Deliveries : x # d => posts'[x] = posts[x]
      BY <1>a, <2>1
    <2> QED BY <1>a, <2>2, <2>3
  <1>7. ASSUME NEW p \in Pollers, Record(p) PROVE Untouched'
    <2>1. PICK d \in Deliveries, out \in RowSet :
            /\ d = poller[p].copy.delivery /\ poller[p].step = "record"
            /\ row' = row \/ row' = [row EXCEPT ![d] = out]
      BY <1>7, RecordEffect
    <2>2. UNCHANGED <<found, posts>> /\ found[d[1]] = {}
      BY <1>4, <1>7, <2>1 DEF Record, histories
    <2>3. \A x \in Deliveries : x # d => row'[x] = row[x]
      BY <1>a, <2>1
    <2> QED BY <1>a, <2>2, <2>3
  <1>8. CASE UNCHANGED <<row, found, posts>>
    BY <1>8, <1>a
  <1> QED BY <1>1, <1>2, <1>3, <1>5, <1>6, <1>7, <1>8 DEF WebhooksNext, hookVars,
             histories, registerEndpoint, SwitchOff, Poll, Look, StartAgain

\* What was true of a copy stays true.
LEMMA CopyStaysTrue ==
  ASSUME EarnedInv, [WebhooksNext]_hookVars, NEW c \in CopySet, CopyTrue(c)
  PROVE  CopyTrue(c)'
  <1>a. /\ c.delivery \in Deliveries /\ c.attempts \in Nat
        /\ c.delivery[1] \in Events
        /\ posts \in [Deliveries -> Nat] /\ DOMAIN found = Events
    BY DeliveryPair DEF CopySet, EarnedInv, HooksTyped
  <1>1. posts[c.delivery] <= posts'[c.delivery]
    <2>1. ASSUME NEW p \in Pollers, Post(p)
          PROVE  posts[c.delivery] <= posts'[c.delivery]
      <3>1. PICK d \in Deliveries : posts' = [posts EXCEPT ![d] = @ + 1]
        BY <2>1, PostEffect
      <3> QED BY <1>a, <3>1
    <2>2. CASE UNCHANGED posts
      BY <1>a, <2>2
    <2> QED BY <2>1, <2>2 DEF WebhooksNext, hookVars, histories,
               registerEndpoint, deleteEndpoint, SwitchOff, FindEndpoints,
               CreateRows, Poll, Look, Cancel, Record, StartAgain
  <1>2. found'[c.delivery[1]] = {}
    <2>1. found[c.delivery[1]] = {}
      BY DEF CopyTrue
    <2>2. ASSUME NEW ev \in Events, FindEndpoints(ev)
          PROVE  found'[c.delivery[1]] = {}
      BY <1>a, <2>1, <2>2 DEF FindEndpoints, NotAsked
    <2>3. ASSUME NEW ev \in Events, CreateRows(ev)
          PROVE  found'[c.delivery[1]] = {}
      BY <1>a, <2>1, <2>3, CreateEffect
    <2>4. CASE UNCHANGED found
      BY <2>1, <2>4
    <2> QED BY <2>2, <2>3, <2>4 DEF WebhooksNext, hookVars, histories,
               registerEndpoint, deleteEndpoint, SwitchOff, Poll, Look, Cancel,
               Post, Record, StartAgain
  <1>3. posts'[c.delivery] \in Nat
    BY <1>a, NextHooksTyped DEF HooksTyped
  <1>4. c.attempts <= posts[c.delivery] /\ c.attempts < MAX_ATTEMPTS
    BY DEF CopyTrue
  <1>5. c.attempts <= posts'[c.delivery]
    BY <1>a, <1>1, <1>3, <1>4
  <1> QED BY <1>2, <1>4, <1>5 DEF CopyTrue

LEMMA NextCopiesTrue ==
  ASSUME EarnedInv, [WebhooksNext]_hookVars PROVE CopiesTrue'
  <1> DEFINE Held(r) == /\ \A c \in r.batch : c \in CopySet /\ CopyTrue(c)
                        /\ r.copy \in CopySet => CopyTrue(r.copy)
             Next(r) == /\ \A c \in r.batch : c \in CopySet /\ CopyTrue(c)'
                        /\ \A c \in CopySet : r.copy = c => CopyTrue(c)'
  <1>a. poller \in [Pollers -> PollerSet] /\ \A p \in Pollers : Held(poller[p])
    BY DEF EarnedInv, HooksTyped, CopiesTrue, PollerSet
  <1>b. \A p \in Pollers : Next(poller[p])
    BY <1>a, CopyStaysTrue
  <1>1. ASSUME NEW p \in Pollers, NEW r \in PollerSet, Next(r),
               poller' = [poller EXCEPT ![p] = r]
        PROVE  CopiesTrue'
    <2>1. \A q \in Pollers : Next(poller'[q])
      BY <1>1, <1>a, <1>b
    <2> QED BY <2>1 DEF CopiesTrue
  <1>2. ASSUME NEW p \in Pollers, Poll(p) PROVE CopiesTrue'
    <2>1. PICK r \in PollerSet :
            /\ poller' = [poller EXCEPT ![p] = r] /\ r.copy = NoCopy
            /\ r.batch = {Copy(d) : d \in {d \in Deliveries : Due(d)}}
      BY <1>2, PollEffect
    <2>2. ASSUME NEW d \in Deliveries, Due(d)
          PROVE  Copy(d) \in CopySet /\ CopyTrue(Copy(d))
      <3>1. /\ Copy(d).delivery = d /\ Copy(d).attempts = row[d].attempts
            /\ Copy(d) \in CopySet
        BY DEF Copy, CopySet, EarnedInv, HooksTyped, RowSet
      <3>2. row[d].attempts < MAX_ATTEMPTS /\ row[d] # NoRow
        BY <2>2, NoRowTyped DEF Due
      <3>3. row[d].attempts <= posts[d] /\ found[d[1]] = {}
        BY <3>2 DEF EarnedInv, OutcomesAreEarned, Untouched
      <3> QED BY <3>1, <3>2, <3>3 DEF CopyTrue
    <2>3. \A c \in r.batch : c \in CopySet /\ CopyTrue(c)'
      BY <2>1, <2>2, CopyStaysTrue
    <2> QED BY <1>1, <2>1, <2>3, NoCopyOut
  <1>3. ASSUME NEW p \in Pollers, Look(p) PROVE CopiesTrue'
    <2>1. PICK r \in PollerSet, c \in poller[p].batch :
            /\ poller' = [poller EXCEPT ![p] = r]
            /\ c \in CopySet /\ r.copy = c /\ r.batch = poller[p].batch \ {c}
      BY <1>3, LookEffect
    <2>2. Next(r)
      BY <1>b, <2>1
    <2> QED BY <1>1, <2>1, <2>2
  \* The other steps only let go of copies.
  <1>4. ASSUME NEW p \in Pollers, NEW r \in PollerSet,
               r.copy \in {poller[p].copy, NoCopy},
               r.batch \subseteq poller[p].batch,
               poller' = [poller EXCEPT ![p] = r]
        PROVE  CopiesTrue'
    <2>1. Next(r)
      BY <1>4, <1>b, NoCopyOut
    <2> QED BY <1>1, <1>4, <2>1
  <1>5. ASSUME NEW p \in Pollers, Cancel(p) PROVE CopiesTrue'
    BY <1>4, <1>5, CancelEffect
  <1>6. ASSUME NEW p \in Pollers, Post(p) PROVE CopiesTrue'
    BY <1>4, <1>6, PostEffect
  <1>7. ASSUME NEW p \in Pollers, Record(p) PROVE CopiesTrue'
    BY <1>4, <1>7, RecordEffect
  <1>8. ASSUME NEW p \in Pollers, StartAgain(p) PROVE CopiesTrue'
    BY <1>4, <1>8, StartEffect
  <1>9. ASSUME UNCHANGED poller PROVE CopiesTrue'
    <2>1. \A q \in Pollers : Next(poller'[q])
      BY <1>9, <1>b
    <2> QED BY <2>1 DEF CopiesTrue
  <1> HIDE DEF Held, Next
  <1> QED BY <1>2, <1>3, <1>5, <1>6, <1>7, <1>8, <1>9 DEF WebhooksNext, hookVars,
             registerEndpoint, deleteEndpoint, SwitchOff, FindEndpoints, CreateRows

\* What a poller is about to write stays earned.
LEMMA AnswerStaysTrue ==
  ASSUME EarnedInv, [WebhooksNext]_hookVars, NEW r \in PollerSet, AnswerTrue(r),
         r.step \in {"cancel", "record"} => r.copy \in CopySet /\ CopyTrue(r.copy)
  PROVE  AnswerTrue(r)'
  <1> SUFFICES ASSUME r.step \in {"cancel", "record"} PROVE AnswerTrue(r)'
    BY DEF AnswerTrue
  <1> DEFINE d == r.copy.delivery
             e == EndpointOf(d)
  <1>a. /\ d \in Deliveries /\ e \in Endpoints /\ r.copy.attempts \in Nat
        /\ found[d[1]] = {} /\ d[1] \in Events
        /\ r.step = "cancel" => endpoint[e] = "inactive" \/ row[d] = NoRow
        /\ r.step = "record" => r.copy.attempts < posts[d]
        /\ r.step = "record" /\ r.answer = "ok" => d \in accepted
    BY DeliveryPair DEF CopySet, AnswerTrue, CopyTrue
  <1>b. /\ endpoint \in [Endpoints -> {"none", "active", "inactive"}]
        /\ row \in [Deliveries -> RowSet] /\ posts \in [Deliveries -> Nat]
    BY DEF EarnedInv, HooksTyped
  <1> HIDE DEF d, e
  <1> DEFINE Earned == endpoint[e] = "inactive" \/ row[d] = NoRow
             After == endpoint'[e] = "inactive" \/ row'[d] = NoRow
             Made == posts[d] <= posts'[d] /\ accepted \subseteq accepted'
  <1>1. ASSUME Earned PROVE After
    <2>1. ASSUME NEW x \in Endpoints, registerEndpoint(x) PROVE After
      BY <1>1, <1>b, <2>1 DEF registerEndpoint
    <2>2. ASSUME NEW x \in Endpoints, deleteEndpoint(x) PROVE After
      BY <1>1, <1>a, <1>b, <2>2 DEF deleteEndpoint, e
    <2>3. ASSUME NEW x \in Endpoints, SwitchOff(x) PROVE After
      BY <1>1, <1>b, <2>3 DEF SwitchOff
    <2>4. ASSUME NEW ev \in Events, CreateRows(ev) PROVE After
      <3>1. found[ev] # {} /\ endpoint' = endpoint
        BY <2>4, CreateEffect DEF CreateRows
      <3>2. d[1] # ev
        BY <1>a, <3>1
      <3> QED BY <1>1, <1>a, <2>4, <3>1, <3>2, CreateEffect
    <2>5. ASSUME NEW p \in Pollers, Cancel(p) PROVE After
      <3>1. PICK x \in Deliveries :
              row' = row \/ (row[x] # NoRow /\ row' = [row EXCEPT ![x].status = "CANCELLED"])
        BY <2>5, CancelEffect
      <3>2. endpoint' = endpoint
        BY <2>5 DEF Cancel
      <3> QED BY <1>1, <1>a, <1>b, <3>1, <3>2
    <2>6. ASSUME NEW p \in Pollers, Record(p) PROVE After
      <3>1. PICK x \in Deliveries, out \in RowSet :
              row' = row \/ (row[x] # NoRow /\ row' = [row EXCEPT ![x] = out])
        BY <2>6, RecordEffect
      <3>2. endpoint' = endpoint
        BY <2>6 DEF Record
      <3> QED BY <1>1, <1>a, <1>b, <3>1, <3>2
    <2>7. CASE UNCHANGED <<endpoint, row>>
      BY <1>1, <2>7
    <2> HIDE DEF After
    <2> QED BY <2>1, <2>2, <2>3, <2>4, <2>5, <2>6, <2>7 DEF WebhooksNext, hookVars,
               FindEndpoints, Poll, Look, Post, StartAgain
  <1>2. Made
    <2>1. ASSUME NEW p \in Pollers, Post(p) PROVE Made
      <3>1. PICK x \in Deliveries : /\ posts' = [posts EXCEPT ![x] = @ + 1]
                                   /\ accepted \subseteq accepted'
        BY <2>1, PostEffect
      <3> QED BY <1>a, <1>b, <3>1
    <2>2. CASE UNCHANGED <<posts, accepted>>
      BY <1>a, <1>b, <2>2
    <2> HIDE DEF Made
    <2> QED BY <2>1, <2>2 DEF WebhooksNext, hookVars, histories, registerEndpoint,
               deleteEndpoint, SwitchOff, FindEndpoints, CreateRows, Poll, Look,
               Cancel, Record, StartAgain
  <1>3. posts'[d] \in Nat
    BY <1>a, NextHooksTyped DEF HooksTyped
  <1>4. posts[d] \in Nat
    BY <1>a, <1>b
  <1>5. r.step = "record" => r.copy.attempts < posts'[d]
    BY <1>a, <1>2, <1>3, <1>4
  <1> QED BY <1>a, <1>1, <1>2, <1>5 DEF AnswerTrue, d, e

LEMMA NextAnswersTrue ==
  ASSUME EarnedInv, [WebhooksNext]_hookVars PROVE AnswersTrue'
  <1>a. poller \in [Pollers -> PollerSet]
    BY DEF EarnedInv, HooksTyped
  <1>b. \A p \in Pollers : \A r \in PollerSet : r = poller[p] => AnswerTrue(r)'
    <2> SUFFICES ASSUME NEW p \in Pollers, NEW r \in PollerSet, r = poller[p]
                 PROVE  AnswerTrue(r)'
      OBVIOUS
    <2>1. AnswerTrue(r)
      BY DEF EarnedInv, AnswersTrue
    <2>2. r.step \in {"cancel", "record"} => r.copy \in CopySet /\ CopyTrue(r.copy)
      BY DEF EarnedInv, StepsTrue, CopiesTrue
    <2> QED BY <2>1, <2>2, AnswerStaysTrue
  <1>1. ASSUME NEW p \in Pollers, NEW r \in PollerSet, AnswerTrue(r)',
               poller' = [poller EXCEPT ![p] = r]
        PROVE  AnswersTrue'
    <2>1. ASSUME NEW q \in Pollers, NEW x \in PollerSet, x = poller'[q]
          PROVE  AnswerTrue(x)'
      BY <1>1, <1>a, <1>b, <2>1
    <2>2. \A q \in Pollers : poller'[q] \in PollerSet
      BY <1>1, <1>a
    <2> QED BY <2>1, <2>2 DEF AnswersTrue
  <1>2. ASSUME NEW p \in Pollers, NEW r \in PollerSet,
               r.step \in {"poll", "look", "ended", "post"},
               poller' = [poller EXCEPT ![p] = r]
        PROVE  AnswersTrue'
    <2>1. AnswerTrue(r)'
      BY <1>2 DEF AnswerTrue
    <2> QED BY <1>1, <1>2, <2>1
  <1>3. ASSUME NEW p \in Pollers, Poll(p) PROVE AnswersTrue'
    BY <1>2, <1>3, PollEffect
  <1>4. ASSUME NEW p \in Pollers, Look(p) PROVE AnswersTrue'
    <2>1. PICK r \in PollerSet, c \in poller[p].batch :
            /\ poller' = [poller EXCEPT ![p] = r] /\ c \in CopySet /\ r.copy = c
            /\ r.step = (IF endpoint[EndpointOf(c.delivery)] = "active"
                         THEN "post" ELSE "cancel")
      BY <1>4, LookEffect
    <2>2. CASE r.step = "cancel"
      <3> DEFINE d == c.delivery
      <3>1. d \in Deliveries /\ EndpointOf(d) \in Endpoints
        BY <2>1, DeliveryPair DEF CopySet
      <3>2. endpoint[EndpointOf(d)] \in {"none", "inactive"}
        BY <2>1, <2>2, <3>1 DEF EarnedInv, HooksTyped
      <3>3. endpoint[EndpointOf(d)] = "inactive" \/ row[d] = NoRow
        BY <3>1, <3>2 DEF EarnedInv, RowsGone
      <3>4. UNCHANGED <<endpoint, row>>
        BY <1>4 DEF Look
      <3>5. AnswerTrue(r)'
        BY <2>1, <2>2, <3>3, <3>4 DEF AnswerTrue
      <3> QED BY <1>1, <2>1, <3>5
    <2> QED BY <1>2, <2>1, <2>2
  <1>5. ASSUME NEW p \in Pollers, Post(p) PROVE AnswersTrue'
    <2>1. PICK r \in PollerSet, d \in Deliveries :
            /\ poller' = [poller EXCEPT ![p] = r] /\ poller[p].step = "post"
            /\ d = poller[p].copy.delivery /\ poller[p].copy \in CopySet
            /\ r.step = "record" /\ r.copy = poller[p].copy
            /\ posts' = [posts EXCEPT ![d] = @ + 1]
            /\ r.answer = "ok" => d \in accepted'
      BY <1>5, PostEffect
    <2>2. r.copy.attempts <= posts[d] /\ r.copy.attempts \in Nat /\ posts[d] \in Nat
      BY <2>1 DEF EarnedInv, HooksTyped, CopiesTrue, CopyTrue, CopySet
    <2>3. posts'[d] = posts[d] + 1
      BY <2>1 DEF EarnedInv, HooksTyped
    <2>4. r.copy.attempts < posts'[d]
      BY <2>2, <2>3
    <2>5. AnswerTrue(r)'
      BY <2>1, <2>4 DEF AnswerTrue
    <2> QED BY <1>1, <2>1, <2>5
  <1>6. ASSUME NEW p \in Pollers, Cancel(p) PROVE AnswersTrue'
    BY <1>2, <1>6, CancelEffect
  <1>7. ASSUME NEW p \in Pollers, Record(p) PROVE AnswersTrue'
    BY <1>2, <1>7, RecordEffect
  <1>8. ASSUME NEW p \in Pollers, StartAgain(p) PROVE AnswersTrue'
    BY <1>2, <1>8, StartEffect
  <1>9. ASSUME UNCHANGED poller PROVE AnswersTrue'
    <2>1. ASSUME NEW q \in Pollers, NEW x \in PollerSet, x = poller'[q]
          PROVE  AnswerTrue(x)'
      BY <1>9, <1>b, <2>1
    <2>2. \A q \in Pollers : poller'[q] \in PollerSet
      BY <1>9, <1>a
    <2> QED BY <2>1, <2>2 DEF AnswersTrue
  <1> QED BY <1>3, <1>4, <1>5, <1>6, <1>7, <1>8, <1>9 DEF WebhooksNext, hookVars,
             registerEndpoint, deleteEndpoint, SwitchOff, FindEndpoints, CreateRows

LEMMA NextRowsGone ==
  ASSUME EarnedInv, [WebhooksNext]_hookVars PROVE RowsGone'
  <1> USE DEF RowsGone
  <1>a. /\ RowsGone /\ row \in [Deliveries -> RowSet]
        /\ endpoint \in [Endpoints -> {"none", "active", "inactive"}]
        /\ \A d \in Deliveries : EndpointOf(d) \in Endpoints
    BY DeliveryPair DEF EarnedInv, HooksTyped
  <1>1. ASSUME NEW e \in Endpoints, registerEndpoint(e) \/ SwitchOff(e)
        PROVE  RowsGone'
    BY <1>1, <1>a DEF registerEndpoint, SwitchOff
  <1>2. ASSUME NEW e \in Endpoints, deleteEndpoint(e) PROVE RowsGone'
    BY <1>2, <1>a DEF deleteEndpoint
  <1>3. ASSUME NEW ev \in Events, CreateRows(ev) PROVE RowsGone'
    <2>1. endpoint' = endpoint
      BY <1>3 DEF CreateRows
    <2> QED BY <1>3, <1>a, <2>1, CreateEffect
  <1>4. ASSUME NEW p \in Pollers, Cancel(p) PROVE RowsGone'
    <2>1. PICK x \in Deliveries :
            row' = row \/ (row[x] # NoRow /\ row' = [row EXCEPT ![x].status = "CANCELLED"])
      BY <1>4, CancelEffect
    <2>2. endpoint' = endpoint
      BY <1>4 DEF Cancel
    <2> QED BY <1>a, <2>1, <2>2
  <1>5. ASSUME NEW p \in Pollers, Record(p) PROVE RowsGone'
    <2>1. PICK x \in Deliveries, out \in RowSet :
            row' = row \/ (row[x] # NoRow /\ row' = [row EXCEPT ![x] = out])
      BY <1>5, RecordEffect
    <2>2. endpoint' = endpoint
      BY <1>5 DEF Record
    <2> QED BY <1>a, <2>1, <2>2
  <1>6. CASE UNCHANGED <<endpoint, row>>
    BY <1>6, <1>a
  <1> QED BY <1>1, <1>2, <1>3, <1>4, <1>5, <1>6 DEF WebhooksNext, hookVars,
             FindEndpoints, Poll, Look, Post, StartAgain

LEMMA NextOutcomes ==
  ASSUME EarnedInv, [WebhooksNext]_hookVars PROVE OutcomesAreEarned'
  <1> USE DEF OutcomesAreEarned
  <1>a. /\ OutcomesAreEarned /\ RowsGone /\ row \in [Deliveries -> RowSet]
        /\ endpoint \in [Endpoints -> {"none", "active", "inactive"}]
        /\ posts \in [Deliveries -> Nat]
        /\ \A d \in Deliveries : EndpointOf(d) \in Endpoints
        /\ \A d \in Deliveries : row[d].attempts \in Nat
        /\ MAX_ATTEMPTS \in Nat
    BY DeliveryPair, WebhooksAssumption DEF EarnedInv, HooksTyped, RowSet
  <1>1. ASSUME NEW e \in Endpoints, registerEndpoint(e) PROVE OutcomesAreEarned'
    <2>1. /\ endpoint[e] = "none" /\ endpoint' = [endpoint EXCEPT ![e] = "active"]
          /\ UNCHANGED <<row, posts, accepted>>
      BY <1>1 DEF registerEndpoint, histories
    <2>2. \A d \in Deliveries : row[d].status = "CANCELLED" => EndpointOf(d) # e
      BY <1>a, <2>1
    <2> QED BY <1>a, <2>1, <2>2
  <1>2. ASSUME NEW e \in Endpoints, SwitchOff(e) PROVE OutcomesAreEarned'
    BY <1>2, <1>a DEF SwitchOff, histories
  <1>3. ASSUME NEW e \in Endpoints, deleteEndpoint(e) PROVE OutcomesAreEarned'
    <2>1. /\ endpoint' = [endpoint EXCEPT ![e] = "none"]
          /\ UNCHANGED <<posts, accepted>>
          /\ \A d \in Deliveries :
                row'[d] = IF EndpointOf(d) = e THEN NoRow ELSE row[d]
      BY <1>3 DEF deleteEndpoint, histories
    <2> QED BY <1>a, <2>1, NoRowTyped
  <1>4. ASSUME NEW ev \in Events, CreateRows(ev) PROVE OutcomesAreEarned'
    <2>1. UNCHANGED <<endpoint, posts, accepted>>
      BY <1>4 DEF CreateRows, histories
    <2> QED BY <1>4, <1>a, <2>1, CreateEffect
  <1>5. ASSUME NEW p \in Pollers, Cancel(p) PROVE OutcomesAreEarned'
    <2>1. PICK d \in Deliveries :
            /\ poller[p].step = "cancel" /\ d = poller[p].copy.delivery
            /\ \/ row' = row
               \/ row[d] # NoRow /\ row' = [row EXCEPT ![d].status = "CANCELLED"]
      BY <1>5, CancelEffect
    <2>2. UNCHANGED <<endpoint, posts, accepted>>
      BY <1>5 DEF Cancel, histories
    <2>3. CASE row' = row
      BY <1>a, <2>2, <2>3
    <2>4. CASE row[d] # NoRow /\ row' = [row EXCEPT ![d].status = "CANCELLED"]
      <3>1. endpoint[EndpointOf(d)] = "inactive"
        BY <2>1, <2>4 DEF EarnedInv, AnswersTrue, AnswerTrue
      <3>2. row'[d].status = "CANCELLED" /\ row'[d].attempts = row[d].attempts
        BY <1>a, <2>4 DEF RowSet
      <3>3. \A x \in Deliveries : x # d => row'[x] = row[x]
        BY <1>a, <2>4
      <3> QED BY <1>a, <2>2, <3>1, <3>2, <3>3
    <2> QED BY <2>1, <2>3, <2>4
  <1>6. ASSUME NEW p \in Pollers, Post(p) PROVE OutcomesAreEarned'
    <2>1. PICK d \in Deliveries : /\ posts' = [posts EXCEPT ![d] = @ + 1]
                                 /\ accepted \subseteq accepted'
      BY <1>6, PostEffect
    <2>2. UNCHANGED <<endpoint, row>>
      BY <1>6 DEF Post
    <2>3. \A x \in Deliveries : posts'[x] \in Nat /\ posts[x] <= posts'[x]
      BY <1>a, <2>1
    <2> QED BY <1>a, <2>1, <2>2, <2>3
  <1>7. ASSUME NEW p \in Pollers, Record(p) PROVE OutcomesAreEarned'
    <2>1. PICK d \in Deliveries, out \in RowSet :
            /\ poller[p].step = "record" /\ d = poller[p].copy.delivery
            /\ poller[p].copy \in CopySet
            /\ out.attempts = poller[p].copy.attempts + 1
            /\ out.status \in {"DELIVERED", "FAILED", "PENDING"}
            /\ out.status = "DELIVERED" => d \in accepted
            /\ out.status = "FAILED" => out.attempts >= MAX_ATTEMPTS
            /\ row' = row \/ row' = [row EXCEPT ![d] = out]
      BY <1>7, RecordEffect
    <2>2. UNCHANGED <<endpoint, posts, accepted>>
      BY <1>7 DEF Record, histories
    <2>3. poller[p].copy.attempts < posts[d] /\ poller[p].copy.attempts \in Nat
      BY <2>1 DEF EarnedInv, AnswersTrue, AnswerTrue, CopySet
    <2>4. out.attempts <= posts[d] /\ out.attempts \in Nat /\ posts[d] \in Nat
      BY <1>a, <2>1, <2>3
    <2>5. CASE row' = row
      BY <1>a, <2>2, <2>5
    <2>6. CASE row' = [row EXCEPT ![d] = out]
      <3>1. row'[d] = out /\ \A x \in Deliveries : x # d => row'[x] = row[x]
        BY <1>a, <2>6
      <3> QED BY <1>a, <2>1, <2>2, <2>4, <3>1
    <2> QED BY <2>1, <2>5, <2>6
  <1>8. CASE UNCHANGED <<endpoint, row, posts, accepted>>
    BY <1>8, <1>a
  <1> QED BY <1>1, <1>2, <1>3, <1>4, <1>5, <1>6, <1>7, <1>8 DEF WebhooksNext,
             hookVars, histories, FindEndpoints, Poll, Look, StartAgain

LEMMA NextEarned == EarnedInv /\ [WebhooksNext]_hookVars => EarnedInv'
  BY NextHooksTyped, NextStepsTrue, NextUntouched, NextCopiesTrue,
     NextAnswersTrue, NextRowsGone, NextOutcomes DEF EarnedInv

-----------------------------------------------------------------------------
(* Retries.  A delivery two pollers never shared is in one hand at a time,   *)
(* so the count in its row, or in the copy of its holder, misses no post but *)
(* those of pollers that died.                                               *)

CopiesOf(p) == poller[p].batch \cup {poller[p].copy}
Unrecorded(p, c) ==
    IF poller[p].step = "record" /\ c = poller[p].copy THEN 1 ELSE 0

HeldOnce(d) ==
    \A p, q \in Pollers : \A c \in CopiesOf(p), e \in CopiesOf(q) :
        c.delivery = d /\ e.delivery = d => p = q /\ c = e

HeldCounts(d) ==
    \A p \in Pollers : \A c \in CopiesOf(p) : c.delivery = d =>
        /\ posts[d] <= c.attempts + deaths + Unrecorded(p, c)
        /\ row[d] = NoRow \/ row[d].attempts = c.attempts

FreeCounts(d) ==
    row[d] # NoRow /\ (\A p \in Pollers : \A c \in CopiesOf(p) : c.delivery # d)
        => posts[d] <= row[d].attempts + deaths

Counted(d) == /\ HeldOnce(d) /\ HeldCounts(d) /\ FreeCounts(d)
              /\ posts[d] <= MAX_ATTEMPTS + deaths

InHand == \A p \in Pollers : poller[p].copy \notin poller[p].batch

CountInv == InHand /\ \A d \in Deliveries \ shared : Counted(d)

\* What a step of one poller leaves in the hands of all.
LEMMA HandsAfter ==
  ASSUME EarnedInv, NEW p \in Pollers, NEW r \in PollerSet,
         poller' = [poller EXCEPT ![p] = r]
  PROVE  /\ CopiesOf(p)' = r.batch \cup {r.copy}
         /\ \A c : Unrecorded(p, c)' = IF r.step = "record" /\ c = r.copy THEN 1 ELSE 0
         /\ \A q \in Pollers : q # p =>
               /\ CopiesOf(q)' = CopiesOf(q)
               /\ \A c : Unrecorded(q, c)' = Unrecorded(q, c)
  <1>1. poller \in [Pollers -> PollerSet]
    BY DEF EarnedInv, HooksTyped
  <1>2. poller'[p] = r /\ \A q \in Pollers : q # p => poller'[q] = poller[q]
    BY <1>1
  <1> QED BY <1>2 DEF CopiesOf, Unrecorded

LEMMA HeldTyped ==
  ASSUME EarnedInv, NEW p \in Pollers, NEW c \in CopiesOf(p), NEW d \in Deliveries,
         c.delivery = d
  PROVE  c \in CopySet /\ c.attempts \in Nat /\ CopyTrue(c)
         /\ c.attempts < MAX_ATTEMPTS /\ found[d[1]] = {}
  <1>1. poller[p] \in PollerSet
    BY DEF EarnedInv, HooksTyped
  <1>2. c \in CopySet
    BY <1>1, NoCopyOut, DeliveryPair DEF CopiesOf, PollerSet
  <1>3. CopyTrue(c)
    BY <1>2 DEF EarnedInv, CopiesTrue, CopiesOf
  <1> QED BY <1>2, <1>3 DEF CopySet, CopyTrue

LEMMA CountsTyped ==
  ASSUME EarnedInv, NEW d \in Deliveries
  PROVE  /\ posts[d] \in Nat /\ deaths \in Nat /\ row[d].attempts \in Nat
         /\ MAX_ATTEMPTS \in Nat
         /\ \A p, c : Unrecorded(p, c) \in {0, 1}
  BY WebhooksAssumption DEF EarnedInv, HooksTyped, RowSet, Unrecorded

\* A poller that lets go of its row has recorded its post, or died, or the row
\* is gone.
LEMMA LetGoCounted ==
  ASSUME EarnedInv, InHand, NEW d \in Deliveries, Counted(d),
         NEW p \in Pollers, NEW r \in PollerSet,
         poller' = [poller EXCEPT ![p] = r],
         r.step # "record", r.copy = NoCopy, r.batch \subseteq poller[p].batch,
         posts'[d] = posts[d], deaths' \in Nat, deaths <= deaths',
         \/ row'[d] = NoRow
         \/ /\ row[d] # NoRow /\ row'[d].attempts = row[d].attempts
            /\ poller[p].step = "record" /\ poller[p].copy.delivery = d
                  => deaths + 1 <= deaths'
         \/ /\ poller[p].step = "record" /\ poller[p].copy.delivery = d
            /\ row'[d].attempts = poller[p].copy.attempts + 1
  PROVE  Counted(d)'
  <1> DEFINE mine == poller[p].copy
  <1>a. /\ CopiesOf(p)' = r.batch \cup {NoCopy}
        /\ \A c : Unrecorded(p, c)' = 0
        /\ \A q \in Pollers : q # p =>
              CopiesOf(q)' = CopiesOf(q) /\ \A c : Unrecorded(q, c)' = Unrecorded(q, c)
    BY HandsAfter
  <1>b. mine \in CopiesOf(p) /\ mine \notin poller[p].batch
        /\ poller[p].batch \subseteq CopiesOf(p)
    BY DEF CopiesOf, InHand
  <1>c. HeldOnce(d) /\ HeldCounts(d) /\ FreeCounts(d)
        /\ posts[d] <= MAX_ATTEMPTS + deaths
    BY DEF Counted
  \* Who holds d afterwards held it before, and not as the row at work.
  <1>1. ASSUME NEW q \in Pollers, NEW c \in CopiesOf(q)', c.delivery = d
        PROVE  /\ c \in CopiesOf(q) /\ (q = p => c # mine)
               /\ Unrecorded(q, c)' = Unrecorded(q, c)
    <2>1. CASE q # p
      BY <1>1, <1>a, <2>1
    <2>2. CASE q = p
      <3>1. c \in r.batch
        BY <1>1, <1>a, <2>2, NoCopyOut, DeliveryPair
      <3>2. c \in CopiesOf(p) /\ c # mine
        BY <1>b, <3>1
      <3> QED BY <1>a, <2>2, <3>2 DEF Unrecorded
    <2> QED BY <2>1, <2>2
  <1>2. HeldOnce(d)'
    BY <1>1, <1>c DEF HeldOnce
  \* When the row at work is d, nobody holds d afterwards.
  <1>3. ASSUME mine.delivery = d, NEW q \in Pollers, NEW c \in CopiesOf(q)',
               c.delivery = d
        PROVE  FALSE
    BY <1>1, <1>3, <1>b, <1>c DEF HeldOnce
  <1>4. HeldCounts(d)'
    <2> SUFFICES ASSUME NEW q \in Pollers, NEW c \in CopiesOf(q)', c.delivery = d
                 PROVE  /\ posts'[d] <= c.attempts + deaths' + Unrecorded(q, c)'
                        /\ row'[d] = NoRow \/ row'[d].attempts = c.attempts
      BY DEF HeldCounts
    <2>1. c \in CopiesOf(q) /\ Unrecorded(q, c)' = Unrecorded(q, c)
      BY <1>1
    <2>2. /\ posts[d] <= c.attempts + deaths + Unrecorded(q, c)
          /\ row[d] = NoRow \/ row[d].attempts = c.attempts
      BY <1>c, <2>1 DEF HeldCounts
    <2>3. mine.delivery # d
      BY <1>3
    <2>4. c.attempts \in Nat
      BY <2>1, HeldTyped
    <2>5. posts'[d] <= c.attempts + deaths' + Unrecorded(q, c)'
      BY <2>1, <2>2, <2>4, CountsTyped
    <2> QED BY <2>2, <2>3, <2>5
  <1>5. FreeCounts(d)'
    <2> SUFFICES ASSUME row'[d] # NoRow,
                        \A q \in Pollers : \A c \in CopiesOf(q)' : c.delivery # d
                 PROVE  posts'[d] <= row'[d].attempts + deaths'
      BY DEF FreeCounts
    <2>1. CASE \E c \in CopiesOf(p) : c.delivery = d
      <3>1. PICK c \in CopiesOf(p) : c.delivery = d
        BY <2>1
      <3>2. /\ posts[d] <= c.attempts + deaths + Unrecorded(p, c)
            /\ row[d] = NoRow \/ row[d].attempts = c.attempts
            /\ c.attempts \in Nat
        BY <1>c, <3>1, HeldTyped DEF HeldCounts
      <3>3. Unrecorded(p, c) = 0 \/ (Unrecorded(p, c) = 1 /\ c = mine
                                     /\ poller[p].step = "record")
        BY DEF Unrecorded
      <3>4. CASE row[d] # NoRow /\ row'[d].attempts = row[d].attempts
                 /\ (poller[p].step = "record" /\ mine.delivery = d
                        => deaths + 1 <= deaths')
        <4>1. deaths + Unrecorded(p, c) <= deaths'
          BY <3>1, <3>3, <3>4, CountsTyped
        <4> QED BY <3>2, <3>4, <4>1, CountsTyped
      <3>5. CASE /\ poller[p].step = "record" /\ mine.delivery = d
                 /\ row'[d].attempts = mine.attempts + 1
        <4>1. c = mine
          BY <1>b, <1>c, <3>1, <3>5 DEF HeldOnce
        <4>2. row'[d].attempts = c.attempts + 1
          BY <3>5, <4>1
        <4> QED BY <3>2, <3>3, <4>2, CountsTyped
      <3> QED BY <3>4, <3>5
    <2>2. CASE \A c \in CopiesOf(p) : c.delivery # d
      <3>1. \A q \in Pollers : \A c \in CopiesOf(q) : c.delivery # d
        BY <1>a, <2>2
      <3>2. mine.delivery # d
        BY <1>b, <2>2
      <3>3. row[d] # NoRow /\ row'[d].attempts = row[d].attempts
        BY <3>2
      <3>4. posts[d] <= row[d].attempts + deaths
        BY <1>c, <3>1, <3>3 DEF FreeCounts
      <3> QED BY <3>3, <3>4, CountsTyped
    <2> QED BY <2>1, <2>2
  <1>6. posts'[d] <= MAX_ATTEMPTS + deaths'
    BY <1>c, CountsTyped
  <1> QED BY <1>2, <1>4, <1>5, <1>6 DEF Counted

LEMMA InitCounted == WebhooksInit => CountInv
  <1> SUFFICES ASSUME WebhooksInit PROVE CountInv
    OBVIOUS
  <1>1. \A p \in Pollers : poller[p].batch = {} /\ poller[p].copy = NoCopy
    BY WaitingTyped DEF WebhooksInit
  <1>2. \A p \in Pollers : CopiesOf(p) = {NoCopy}
    BY <1>1 DEF CopiesOf
  <1>3. \A d \in Deliveries : row[d] = NoRow /\ posts[d] = 0 /\ deaths = 0
    BY DEF WebhooksInit
  <1>4. MAX_ATTEMPTS \in Nat
    BY WebhooksAssumption
  <1>5. InHand
    BY <1>1 DEF InHand
  <1>6. ASSUME NEW d \in Deliveries PROVE Counted(d)
    <2>1. \A p \in Pollers : \A c \in CopiesOf(p) : c.delivery # d
      BY <1>2, NoCopyOut, DeliveryPair
    <2>2. HeldOnce(d)
      BY <2>1 DEF HeldOnce
    <2>3. HeldCounts(d)
      BY <2>1 DEF HeldCounts
    <2> QED BY <1>3, <1>4, <2>2, <2>3 DEF Counted, FreeCounts
  <1> QED BY <1>5, <1>6 DEF CountInv

LEMMA NextInHand ==
  ASSUME EarnedInv, InHand, [WebhooksNext]_hookVars PROVE InHand'
  <1>a. poller \in [Pollers -> PollerSet]
    BY DEF EarnedInv, HooksTyped
  <1>1. ASSUME NEW p \in Pollers, NEW r \in PollerSet,
               poller' = [poller EXCEPT ![p] = r], r.copy \notin r.batch
        PROVE  InHand'
    BY <1>1, <1>a DEF InHand
  <1>2. ASSUME NEW r \in PollerSet, r.copy = NoCopy PROVE r.copy \notin r.batch
    BY <1>2, NoCopyOut DEF PollerSet
  <1>3. ASSUME NEW p \in Pollers, Poll(p) PROVE InHand'
    BY <1>1, <1>2, <1>3, PollEffect
  <1>4. ASSUME NEW p \in Pollers, Look(p) PROVE InHand'
    <2>1. PICK r \in PollerSet, c \in poller[p].batch :
            /\ poller' = [poller EXCEPT ![p] = r]
            /\ r.copy = c /\ r.batch = poller[p].batch \ {c}
      BY <1>4, LookEffect
    <2> QED BY <1>1, <2>1
  <1>5. ASSUME NEW p \in Pollers, Post(p) PROVE InHand'
    <2>1. PICK r \in PollerSet :
            /\ poller' = [poller EXCEPT ![p] = r]
            /\ r.copy = poller[p].copy /\ r.batch = poller[p].batch
      BY <1>5, PostEffect
    <2> QED BY <1>1, <2>1 DEF InHand
  <1>6. ASSUME NEW p \in Pollers, Cancel(p) PROVE InHand'
    BY <1>1, <1>2, <1>6, CancelEffect
  <1>7. ASSUME NEW p \in Pollers, Record(p) PROVE InHand'
    BY <1>1, <1>2, <1>7, RecordEffect
  <1>8. ASSUME NEW p \in Pollers, StartAgain(p) PROVE InHand'
    BY <1>1, <1>2, <1>8, StartEffect
  <1>9. CASE UNCHANGED poller
    BY <1>9 DEF InHand
  <1> QED BY <1>3, <1>4, <1>5, <1>6, <1>7, <1>8, <1>9 DEF WebhooksNext, hookVars,
             registerEndpoint, deleteEndpoint, SwitchOff, FindEndpoints, CreateRows

LEMMA PollCounted ==
  ASSUME EarnedInv, NEW d \in Deliveries, Counted(d), NEW p \in Pollers, Poll(p),
         d \notin shared'
  PROVE  Counted(d)'
  <1>1. PICK r \in PollerSet :
          /\ poller' = [poller EXCEPT ![p] = r]
          /\ r.step = "look" /\ r.copy = NoCopy
          /\ r.batch = {Copy(x) : x \in {x \in Deliveries : Due(x)}}
    BY PollEffect
  <1>2. UNCHANGED <<row, posts, deaths>>
        /\ shared' = shared \cup {x \in {y \in Deliveries : Due(y)} :
                                     \E q \in Pollers \ {p} : Holds(q, x)}
    BY DEF Poll
  <1>3. CopiesOf(p) = {NoCopy}
    BY DEF Poll, EarnedInv, StepsTrue, CopiesOf
  <1>4. /\ CopiesOf(p)' = r.batch \cup {NoCopy}
        /\ \A c : Unrecorded(p, c)' = 0
        /\ \A q \in Pollers : q # p =>
              CopiesOf(q)' = CopiesOf(q) /\ \A c : Unrecorded(q, c)' = Unrecorded(q, c)
    BY <1>1, HandsAfter
  <1>5. \A x \in Deliveries : Copy(x).delivery = x /\ Copy(x).attempts = row[x].attempts
    BY DEF Copy
  <1>6. HeldOnce(d) /\ HeldCounts(d) /\ FreeCounts(d)
        /\ posts[d] <= MAX_ATTEMPTS + deaths
    BY DEF Counted
  \* What p holds of d is the copy of a row that nobody held.
  <1>7. ASSUME NEW c \in CopiesOf(p)', c.delivery = d
        PROVE  /\ c = Copy(d) /\ row[d] # NoRow
               /\ \A q \in Pollers : \A e \in CopiesOf(q) : e.delivery # d
    <2>1. c \in r.batch
      BY <1>4, <1>7, NoCopyOut, DeliveryPair
    <2>2. c = Copy(d) /\ Due(d)
      BY <1>1, <1>5, <1>7, <2>1
    <2>3. row[d] # NoRow
      BY <2>2, NoRowTyped DEF Due
    <2>4. \A q \in Pollers : q # p => ~Holds(q, d)
      BY <1>2, <2>2
    <2>5. \A q \in Pollers : q # p => \A e \in CopiesOf(q) : e.delivery # d
      BY <2>4 DEF Holds, CopiesOf
    <2>6. \A e \in CopiesOf(p) : e.delivery # d
      BY <1>3, NoCopyOut, DeliveryPair
    <2> QED BY <2>2, <2>3, <2>5, <2>6
  <1>8. HeldOnce(d)'
    <2> SUFFICES ASSUME NEW q \in Pollers, NEW s \in Pollers,
                        NEW c \in CopiesOf(q)', NEW e \in CopiesOf(s)',
                        c.delivery = d, e.delivery = d
                 PROVE  q = s /\ c = e
      BY DEF HeldOnce
    <2>1. CASE q = p /\ s = p
      BY <1>7, <2>1
    <2>2. CASE q = p /\ s # p
      BY <1>4, <1>7, <2>2
    <2>3. CASE q # p /\ s = p
      BY <1>4, <1>7, <2>3
    <2>4. CASE q # p /\ s # p
      BY <1>4, <1>6, <2>4 DEF HeldOnce
    <2> QED BY <2>1, <2>2, <2>3, <2>4
  <1>9. HeldCounts(d)'
    <2> SUFFICES ASSUME NEW q \in Pollers, NEW c \in CopiesOf(q)', c.delivery = d
                 PROVE  /\ posts[d] <= c.attempts + deaths + Unrecorded(q, c)'
                        /\ row[d] = NoRow \/ row[d].attempts = c.attempts
      BY <1>2 DEF HeldCounts
    <2>1. CASE q # p
      BY <1>4, <1>6, <2>1 DEF HeldCounts
    <2>2. CASE q = p
      <3>1. c.attempts = row[d].attempts /\ posts[d] <= row[d].attempts + deaths
        BY <1>5, <1>6, <1>7, <2>2 DEF FreeCounts
      <3>2. Unrecorded(q, c)' = 0
        BY <1>4, <2>2
      <3> QED BY <3>1, <3>2, CountsTyped
    <2> QED BY <2>1, <2>2
  <1>10. FreeCounts(d)'
    <2> SUFFICES ASSUME row[d] # NoRow,
                        \A q \in Pollers : \A c \in CopiesOf(q)' : c.delivery # d
                 PROVE  posts[d] <= row[d].attempts + deaths
      BY <1>2 DEF FreeCounts
    <2>1. \A c \in CopiesOf(p) : c.delivery # d
      BY <1>3, NoCopyOut, DeliveryPair
    <2>2. \A q \in Pollers : \A c \in CopiesOf(q) : c.delivery # d
      BY <1>4, <2>1
    <2> QED BY <1>6, <2>2 DEF FreeCounts
  <1> QED BY <1>2, <1>6, <1>8, <1>9, <1>10 DEF Counted

LEMMA LookCounted ==
  ASSUME EarnedInv, NEW d \in Deliveries, Counted(d), NEW p \in Pollers, Look(p)
  PROVE  Counted(d)'
  <1>1. PICK r \in PollerSet, k \in poller[p].batch :
          /\ poller' = [poller EXCEPT ![p] = r] /\ poller[p].step = "look"
          /\ k \in CopySet /\ r.copy = k /\ r.batch = poller[p].batch \ {k}
          /\ r.step \in {"post", "cancel"}
    BY LookEffect
  <1>2. UNCHANGED <<row, posts, deaths>>
    BY DEF Look, histories
  <1>3. poller[p].copy = NoCopy
    BY <1>1 DEF EarnedInv, StepsTrue
  <1>4. CopiesOf(p) = CopiesOf(p)' \cup {NoCopy}
    BY <1>1, <1>3, HandsAfter DEF CopiesOf
  <1>5. \A c : Unrecorded(p, c) = 0 /\ Unrecorded(p, c)' = 0
    BY <1>1, HandsAfter DEF Unrecorded
  <1>6. ASSUME NEW q \in Pollers, NEW c, c.delivery = d
        PROVE  /\ c \in CopiesOf(q)' <=> c \in CopiesOf(q)
               /\ Unrecorded(q, c)' = Unrecorded(q, c)
    <2>1. c # NoCopy
      BY <1>6, NoCopyOut, DeliveryPair
    <2>2. CASE q = p
      BY <1>4, <1>5, <2>1, <2>2
    <2>3. CASE q # p
      BY <1>1, <2>3, HandsAfter
    <2> QED BY <2>2, <2>3
  <1>7. HeldOnce(d)'
    BY <1>6 DEF Counted, HeldOnce
  <1>8. HeldCounts(d)'
    BY <1>2, <1>6 DEF Counted, HeldCounts
  <1>9. FreeCounts(d)'
    BY <1>2, <1>6 DEF Counted, FreeCounts
  <1> QED BY <1>2, <1>7, <1>8, <1>9 DEF Counted

LEMMA PostCounted ==
  ASSUME EarnedInv, InHand, NEW d \in Deliveries, Counted(d),
         NEW p \in Pollers, Post(p)
  PROVE  Counted(d)'
  <1>1. PICK r \in PollerSet, x \in Deliveries :
          /\ poller' = [poller EXCEPT ![p] = r] /\ poller[p].step = "post"
          /\ x = poller[p].copy.delivery
          /\ r.step = "record" /\ r.copy = poller[p].copy /\ r.batch = poller[p].batch
          /\ posts' = [posts EXCEPT ![x] = @ + 1]
    BY PostEffect
  <1>2. UNCHANGED <<row, deaths>>
    BY DEF Post
  <1> DEFINE mine == poller[p].copy
  <1>3. /\ CopiesOf(p)' = CopiesOf(p) /\ mine \in CopiesOf(p)
        /\ \A c : Unrecorded(p, c) = 0
        /\ \A c : Unrecorded(p, c)' = IF c = mine THEN 1 ELSE 0
    <2>1. CopiesOf(p)' = CopiesOf(p) /\ mine \in CopiesOf(p)
      BY <1>1, HandsAfter DEF CopiesOf
    <2>2. \A c : Unrecorded(p, c) = 0
      BY <1>1 DEF Unrecorded
    <2>3. \A c : Unrecorded(p, c)' =
                    IF r.step = "record" /\ c = r.copy THEN 1 ELSE 0
      BY <1>1, HandsAfter
    <2>4. \A c : Unrecorded(p, c)' = IF c = mine THEN 1 ELSE 0
      BY <1>1, <2>3
    <2> QED BY <2>1, <2>2, <2>4
  <1>4. \A q \in Pollers : CopiesOf(q)' = CopiesOf(q)
    BY <1>1, <1>3, HandsAfter
  <1>5. /\ HeldOnce(d) /\ HeldCounts(d) /\ FreeCounts(d)
        /\ posts[d] <= MAX_ATTEMPTS + deaths
    BY DEF Counted
  <1>6. HeldOnce(d)'
    BY <1>4, <1>5 DEF HeldOnce
  <1>p. posts'[d] = IF d = x THEN posts[d] + 1 ELSE posts[d]
    BY <1>1 DEF EarnedInv, HooksTyped
  <1>7. CASE d = x
    <2>1. /\ posts[d] <= mine.attempts + deaths
          /\ mine.attempts \in Nat /\ mine.attempts < MAX_ATTEMPTS
      <3>1. posts[d] <= mine.attempts + deaths + Unrecorded(p, mine)
        BY <1>1, <1>3, <1>5, <1>7 DEF HeldCounts
      <3>2. mine.attempts \in Nat /\ mine.attempts < MAX_ATTEMPTS
        BY <1>1, <1>3, <1>7, HeldTyped
      <3>3. Unrecorded(p, mine) = 0
        BY <1>3
      <3> QED BY <3>1, <3>2, <3>3, CountsTyped
    <2>2. \A q \in Pollers : \A c \in CopiesOf(q) : c.delivery = d => q = p /\ c = mine
      BY <1>1, <1>3, <1>5, <1>7 DEF HeldOnce
    <2>3. posts'[d] <= mine.attempts + deaths + 1
      BY <1>p, <1>7, <2>1, CountsTyped
    <2>4. HeldCounts(d)'
      <3> SUFFICES ASSUME NEW q \in Pollers, NEW c \in CopiesOf(q), c.delivery = d
                   PROVE  /\ posts'[d] <= c.attempts + deaths + Unrecorded(q, c)'
                          /\ row[d] = NoRow \/ row[d].attempts = c.attempts
        BY <1>2, <1>4 DEF HeldCounts
      <3>1. q = p /\ c = mine
        BY <2>2
      <3>2. Unrecorded(q, c)' = 1
        BY <1>3, <3>1
      <3>3. posts'[d] <= c.attempts + deaths + Unrecorded(q, c)'
        BY <2>3, <3>1, <3>2
      <3> QED BY <1>5, <3>3 DEF HeldCounts
    <2>5. FreeCounts(d)'
      BY <1>1, <1>3, <1>4, <1>7 DEF FreeCounts
    <2>6. posts'[d] <= MAX_ATTEMPTS + deaths'
      BY <1>2, <2>1, <2>3, <1>p, CountsTyped
    <2> QED BY <1>6, <2>4, <2>5, <2>6 DEF Counted
  <1>8. CASE d # x
    <2>1. posts'[d] = posts[d]
      BY <1>p, <1>8
    <2>2. ASSUME NEW q \in Pollers, NEW c, c.delivery = d
          PROVE  Unrecorded(q, c)' = Unrecorded(q, c)
      BY <1>1, <1>3, <1>8, <2>2, HandsAfter
    <2>3. HeldCounts(d)'
      BY <1>2, <1>4, <1>5, <2>1, <2>2 DEF HeldCounts
    <2>4. FreeCounts(d)'
      BY <1>2, <1>4, <1>5, <2>1 DEF FreeCounts
    <2> QED BY <1>2, <1>5, <1>6, <2>1, <2>3, <2>4 DEF Counted
  <1> QED BY <1>7, <1>8

\* A row that is written anew has had no post, and nobody holds it.
LEMMA RowsCounted ==
  ASSUME EarnedInv, NEW d \in Deliveries, Counted(d),
         UNCHANGED <<poller, posts, deaths>>,
         row'[d] \in {row[d], NoRow} \/ (found[d[1]] # {} /\ row'[d] \in RowSet)
  PROVE  Counted(d)'
  <1>1. /\ \A q \in Pollers : CopiesOf(q)' = CopiesOf(q)
        /\ \A q, c : Unrecorded(q, c)' = Unrecorded(q, c)
    BY DEF CopiesOf, Unrecorded
  <1>2. HeldOnce(d)'
    BY <1>1 DEF Counted, HeldOnce
  <1>3. CASE row'[d] \in {row[d], NoRow}
    <2>1. HeldCounts(d)'
      BY <1>1, <1>3 DEF Counted, HeldCounts
    <2>2. FreeCounts(d)'
      BY <1>1, <1>3 DEF Counted, FreeCounts
    <2> QED BY <1>2, <2>1, <2>2 DEF Counted
  <1>4. CASE found[d[1]] # {} /\ row'[d] \in RowSet
    <2>1. posts[d] = 0
      BY <1>4 DEF EarnedInv, Untouched
    <2>2. \A q \in Pollers : \A c \in CopiesOf(q) : c.delivery # d
      BY <1>4, HeldTyped
    <2>3. HeldCounts(d)'
      BY <1>1, <2>2 DEF HeldCounts
    <2>4. row'[d].attempts \in Nat
      BY <1>4 DEF RowSet
    <2>5. posts'[d] <= row'[d].attempts + deaths'
      BY <2>1, <2>4, CountsTyped
    <2>6. posts'[d] <= MAX_ATTEMPTS + deaths'
      BY DEF Counted
    <2> QED BY <1>2, <2>3, <2>5, <2>6 DEF Counted, FreeCounts
  <1> QED BY <1>3, <1>4

LEMMA NextCounted ==
  ASSUME EarnedInv, CountInv, [WebhooksNext]_hookVars PROVE CountInv'
  <1>a. InHand /\ InHand'
    BY NextInHand DEF CountInv
  <1>b. row \in [Deliveries -> RowSet] /\ deaths \in Nat
    BY DEF EarnedInv, HooksTyped
  <1>c. shared \subseteq shared'
    BY DEF WebhooksNext, hookVars, histories, registerEndpoint, deleteEndpoint,
           SwitchOff, FindEndpoints, CreateRows, Poll, Look, Cancel, Post, Record,
           StartAgain
  <1> SUFFICES ASSUME NEW d \in Deliveries, d \notin shared'
               PROVE  Counted(d)'
    BY <1>a DEF CountInv
  <1>d. Counted(d) /\ d \notin shared
    BY <1>c DEF CountInv
  <1>1. ASSUME NEW p \in Pollers, Poll(p) PROVE Counted(d)'
    BY <1>1, <1>d, PollCounted
  <1>2. ASSUME NEW p \in Pollers, Look(p) PROVE Counted(d)'
    BY <1>2, <1>d, LookCounted
  <1>3. ASSUME NEW p \in Pollers, Post(p) PROVE Counted(d)'
    BY <1>3, <1>a, <1>d, PostCounted
  <1>4. ASSUME NEW p \in Pollers, Cancel(p) PROVE Counted(d)'
    <2>1. PICK r \in PollerSet, x \in Deliveries :
            /\ poller' = [poller EXCEPT ![p] = r] /\ poller[p].step = "cancel"
            /\ r.step \in {"poll", "look", "ended"} /\ r.copy = NoCopy
            /\ r.batch \subseteq poller[p].batch
            /\ \/ row' = row
               \/ row[x] # NoRow /\ row' = [row EXCEPT ![x].status = "CANCELLED"]
      BY <1>4, CancelEffect
    <2>2. posts' = posts /\ deaths' = deaths
      BY <1>4 DEF Cancel, histories
    <2>3. row'[d] = NoRow \/ (row[d] # NoRow /\ row'[d].attempts = row[d].attempts)
      BY <1>b, <2>1 DEF RowSet
    <2>4. /\ posts'[d] = posts[d] /\ deaths' \in Nat /\ deaths <= deaths'
          /\ r.step # "record" /\ poller[p].step # "record"
      BY <1>b, <2>1, <2>2
    <2> QED BY <1>a, <1>d, <2>1, <2>3, <2>4, LetGoCounted
  <1>5. ASSUME NEW p \in Pollers, Record(p) PROVE Counted(d)'
    <2>1. PICK r \in PollerSet, x \in Deliveries, out \in RowSet :
            /\ poller' = [poller EXCEPT ![p] = r] /\ poller[p].step = "record"
            /\ r.step \in {"poll", "look", "ended"} /\ r.copy = NoCopy
            /\ r.batch \subseteq poller[p].batch /\ x = poller[p].copy.delivery
            /\ out.attempts = poller[p].copy.attempts + 1
            /\ \/ row' = row /\ row[x] = NoRow
               \/ row[x] # NoRow /\ row' = [row EXCEPT ![x] = out]
      BY <1>5, RecordEffect
    <2>2. posts' = posts /\ deaths' = deaths
      BY <1>5 DEF Record, histories
    <2>3. \/ row'[d] = NoRow
          \/ row[d] # NoRow /\ row'[d].attempts = row[d].attempts /\ d # x
          \/ d = x /\ row'[d].attempts = poller[p].copy.attempts + 1
      BY <1>b, <2>1
    <2>4. /\ posts'[d] = posts[d] /\ deaths' \in Nat /\ deaths <= deaths'
          /\ r.step # "record"
      BY <1>b, <2>1, <2>2
    <2> QED BY <1>a, <1>d, <2>1, <2>3, <2>4, LetGoCounted
  <1>6. ASSUME NEW p \in Pollers, StartAgain(p) PROVE Counted(d)'
    <2>1. PICK r \in PollerSet :
            /\ poller' = [poller EXCEPT ![p] = r]
            /\ r.step \in {"poll", "look", "ended"} /\ r.copy = NoCopy
            /\ r.batch \subseteq poller[p].batch
      BY <1>6, StartEffect
    <2>2. /\ posts' = posts /\ row' = row
          /\ deaths' = IF poller[p].step = "record" THEN deaths + 1 ELSE deaths
      BY <1>6 DEF StartAgain
    <2>3. /\ deaths' \in Nat /\ deaths <= deaths'
          /\ poller[p].step = "record" => deaths + 1 <= deaths'
      BY <1>b, <2>2
    <2> QED BY <1>a, <1>d, <2>1, <2>2, <2>3, LetGoCounted
  <1>7. ASSUME NEW e \in Endpoints, deleteEndpoint(e) PROVE Counted(d)'
    <2>1. UNCHANGED <<poller, posts, deaths>> /\ row'[d] \in {row[d], NoRow}
      BY <1>7 DEF deleteEndpoint, histories
    <2> QED BY <1>d, <2>1, RowsCounted
  <1>8. ASSUME NEW ev \in Events, CreateRows(ev) PROVE Counted(d)'
    <2>1. UNCHANGED <<poller, posts, deaths>>
      BY <1>8 DEF CreateRows, histories
    <2>2. row'[d] = row[d] \/ (found[d[1]] # {} /\ row'[d] \in RowSet)
      BY <1>8, CreateEffect
    <2> QED BY <1>d, <2>1, <2>2, RowsCounted
  <1>9. CASE UNCHANGED <<poller, row, posts, deaths>>
    BY <1>9, <1>d, RowsCounted
  <1> QED BY <1>1, <1>2, <1>3, <1>4, <1>5, <1>6, <1>7, <1>8, <1>9
          DEF WebhooksNext, hookVars, histories, registerEndpoint, SwitchOff, FindEndpoints

-----------------------------------------------------------------------------
(* The theorems.                                                             *)

\* OutcomesAreEarned: what processDeliveries, markDelivered and markFailed leave
\* in a delivery row is true, however many pollers write over each other.
THEOREM RowsTellTheTruth == WebhooksSpec => []OutcomesAreEarned
  <1>1. EarnedInv => OutcomesAreEarned
    BY DEF EarnedInv
  <1> QED BY <1>1, InitEarned, NextEarned, PTL DEF WebhooksSpec

\* RetriesAreCounted: a delivery that one poller had at a time is posted at most
\* MAX_ATTEMPTS times, and once more for each poller that died over a post.
THEOREM RetriesAreLimited == WebhooksSpec => []RetriesAreCounted
  <1>1. CountInv => RetriesAreCounted
    BY DEF CountInv, Counted, RetriesAreCounted
  <1>2. WebhooksInit => EarnedInv /\ CountInv
    BY InitEarned, InitCounted
  <1>3. EarnedInv /\ CountInv /\ [WebhooksNext]_hookVars => (EarnedInv /\ CountInv)'
    BY NextEarned, NextCounted
  <1> QED BY <1>1, <1>2, <1>3, PTL DEF WebhooksSpec

\* WalksGoDown: whatever resolveLimit, the cursors and the cache of listOrders
\* make of a walk, its pages are of one tenant, go on where the last ended, and
\* come to an end.
THEOREM PagesGoOn == ListingSpec => []WalksGoDown
  <1>1. ListInv => WalksGoDown
    <2> SUFFICES ASSUME ListInv, NEW r \in Readers, Walking(r)
                 PROVE  /\ \A i \in Got(r) : rows[i].tenant = walk[r].query.tenant
                        /\ \A k, l \in DOMAIN walk[r].got : k < l =>
                              \A i \in walk[r].got[k], j \in walk[r].got[l] : j < i
                        /\ Len(walk[r].got) <= Len(rows) + 1
      BY DEF WalksGoDown
    <2>1. WalkTrue(walk[r])
      BY NotWalkingOut DEF ListInv, ListTyped, Walking
    <2> QED BY <2>1 DEF WalkTrue, WalkShort, Got
  <1> QED BY <1>1, InitListInv, NextListInv, PTL DEF ListingSpec

\* MissedHasCause: a walk that has ended has got every row that was there for
\* all of its pages, unless a row one of its cursors named left the filter.
THEOREM WalksMissNothing == ListingSpec => []MissedHasCause
  <1>1. ListInv => MissedHasCause
    <2> SUFFICES ASSUME ListInv, NEW r \in Readers, walk[r].step = "done",
                        \A c \in walk[r].cursors : InList(walk[r].query, c),
                        NEW i \in Listed(walk[r].query), i <= walk[r].asOf
                 PROVE  i \in Got(r)
      BY DEF MissedHasCause, Walking
    <2>1. WalkTrue(walk[r])
      BY NotWalkingOut DEF ListInv, ListTyped
    <2> QED BY <2>1 DEF WalkTrue, Got
  <1> QED BY <1>1, InitListInv, NextListInv, PTL DEF ListingSpec
=============================================================================
