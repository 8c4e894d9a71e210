-------------------------------- MODULE Listing --------------------------------
(***************************************************************************)
(* Paged lists: a client walks from page to page with the cursor of the     *)
(* last row it got, while rows are created and leave the filter.  Pages of  *)
(* orders are kept in Redis for PageTtl (30 s) and no command drops them;    *)
(* those of products, stock and adjustments are read every time.            *)
(*                                                                          *)
(* Rows are numbered in the order of createdAt, newest first in a list (ties*)
(* and the other sort fields are left out); a row is in the filter (a       *)
(* status, active) or has left it for good.                                 *)
(*                                                                          *)
(* Outside the code: what Prisma does with a cursor whose row is not in the *)
(* filter: it skips the first row that is, or finds none.                   *)
(***************************************************************************)
EXTENDS Integers, Sequences, FiniteSets, ApiProcesses

CONSTANTS
    Readers,
    DEFAULT_LIMIT, MAX_LIMIT, RawLimits,
    PageTtl,                          \* FRONT_LIST_ORDERS_TTL
    MaxRows, MaxListTime, MaxWalks    \* bounds on a run

ASSUME ListingAssumption ==
    /\ DEFAULT_LIMIT \in 1..MAX_LIMIT /\ MAX_LIMIT \in Nat
    /\ RawLimits \subseteq Nat /\ PageTtl \in Nat \ {0} /\ MaxRows \in Nat

VARIABLES
    rows,     \* tenant of each row, and whether the filter finds it
    cache,    \* the pages in Redis: query, page, time they expire
    listTime,
    walk,     \* the walk of each reader
    walks

listVars == <<rows, cache, listTime, walk, walks>>

NoCursor == 0
NotWalking == [step |-> "idle"]

ListingInit ==
    /\ rows = <<>> /\ cache = {} /\ listTime = 0
    /\ walk = [r \in Readers |-> NotWalking] /\ walks = 0

Insert(t) ==
    /\ Len(rows) < MaxRows
    /\ rows' = Append(rows, [tenant |-> t, found |-> TRUE])
    /\ UNCHANGED <<cache, listTime, walk, walks>>

\* The row gets another status, or is no longer active.
LeaveFilter(i) ==
    /\ rows[i].found
    /\ rows' = [rows EXCEPT ![i].found = FALSE]
    /\ UNCHANGED <<cache, listTime, walk, walks>>

ListTick ==
    /\ listTime < MaxListTime /\ listTime' = listTime + 1
    /\ cache' = {e \in cache : e.expires > listTime'}
    /\ UNCHANGED <<rows, walk, walks>>

-----------------------------------------------------------------------------
(* One page.                                                                 *)

resolveLimit(raw) ==
    IF raw = 0 THEN DEFAULT_LIMIT ELSE IF raw > MAX_LIMIT THEN MAX_LIMIT ELSE raw

InList(q, i) == rows[i].tenant = q.tenant /\ (q.filtered => rows[i].found)
Listed(q) == {i \in DOMAIN rows : InList(q, i)}
Newest(S, n) == {i \in S : Cardinality({j \in S : j > i}) < n}
Oldest(S) == CHOOSE i \in S : \A j \in S : i <= j

\* What findMany may find behind the cursor.
Behind(q) ==
    IF q.cursor = NoCursor THEN {Listed(q)}
    ELSE LET after == {i \in Listed(q) : i < q.cursor}
         IN IF InList(q, q.cursor) THEN {after} ELSE {{}, after \ Newest(after, 1)}

\* Mutant: one row more is not asked for, so a full page looks like the last.
PageOfNoMore(q, after) ==
    LET data == Newest(after, q.limit) IN
    [data |-> data, asOf |-> Len(rows),
     nextCursor |-> IF Cardinality(data) > q.limit THEN Oldest(data) ELSE NoCursor]

\* take limit + 1, hasMore, nextCursor.
PageOf(q, after) ==
    LET taken == Newest(after, q.limit + 1)
        data == Newest(after, q.limit)
    IN [data |-> data, asOf |-> Len(rows),
        nextCursor |-> IF Cardinality(taken) > q.limit THEN Oldest(data) ELSE NoCursor]

-----------------------------------------------------------------------------
(* A client's walk.                                                          *)

Begin(r, t, raw, filtered, cached) ==
    /\ walk[r].step \in {"idle", "done"} /\ walks < MaxWalks
    /\ walks' = walks + 1
    /\ walk' = [walk EXCEPT ![r] =
          [step |-> IF cached THEN "lookup" ELSE "find", cached |-> cached,
           query |-> [tenant |-> t, limit |-> resolveLimit(raw), filtered |-> filtered,
                      cursor |-> NoCursor],
           page |-> {}, got |-> <<>>, cursors |-> {}, asOf |-> MaxRows]]
    /\ UNCHANGED <<rows, cache, listTime>>

\* The client gets a page, and asks for the next if there is one.
Take(w, page) ==
    [w EXCEPT !.got = Append(@, page.data),
              !.cursors = IF page.nextCursor = NoCursor THEN @ ELSE @ \cup {page.nextCursor},
              !.query.cursor = page.nextCursor,
              !.asOf = IF page.asOf < @ THEN page.asOf ELSE @,
              !.page = {},
              !.step = IF page.nextCursor = NoCursor THEN "done"
                       ELSE IF w.cached THEN "lookup" ELSE "find"]

\* Mutant: the key of a page leaves out its cursor.
CacheKeyOfList(q) == [q EXCEPT !.cursor = NoCursor]

CacheKey(q) == q

\* idemGet
LookUp(r) ==
    LET hits == {e \in cache : e.key = CacheKey(walk[r].query)} IN
    /\ walk[r].step = "lookup"
    /\ \/ hits = {} /\ walk' = [walk EXCEPT ![r].step = "find"]
       \/ \E e \in hits : walk' = [walk EXCEPT ![r] = Take(@, e.page)]
    /\ UNCHANGED <<rows, cache, listTime, walks>>

FindMany(r) ==
    /\ walk[r].step = "find"
    /\ \E after \in Behind(walk[r].query) :
         LET page == PageOf(walk[r].query, after) IN
         walk' = [walk EXCEPT ![r] = IF @.cached
                     THEN [@ EXCEPT !.step = "fill", !.page = {page}] ELSE Take(@, page)]
    /\ UNCHANGED <<rows, cache, listTime, walks>>

\* idemSet: over whatever another request has put there meanwhile.
Fill(r) ==
    LET key == CacheKey(walk[r].query) IN
    /\ walk[r].step = "fill"
    /\ \E page \in walk[r].page :
          /\ cache' = {e \in cache : e.key # key}
                      \cup {[key |-> key, page |-> page, expires |-> listTime + PageTtl]}
          /\ walk' = [walk EXCEPT ![r] = Take(@, page)]
    /\ UNCHANGED <<rows, listTime, walks>>

ListingNext ==
    \/ \E t \in Tenants : Insert(t)
    \/ \E i \in DOMAIN rows : LeaveFilter(i)
    \/ ListTick
    \/ \E r \in Readers, t \in Tenants, raw \in RawLimits, filtered, cached \in BOOLEAN :
          Begin(r, t, raw, filtered, cached)
    \/ \E r \in Readers : LookUp(r) \/ FindMany(r) \/ Fill(r)

ListingSpec == ListingInit /\ [][ListingNext]_listVars

-----------------------------------------------------------------------------
(* Properties.                                                               *)

Walking(r) == walk[r].step # "idle"
Got(r) == UNION {walk[r].got[k] : k \in DOMAIN walk[r].got}

\* Whichever pages of a walk come from the cache, and whatever is created or
\* leaves the filter between them, the client gets rows of its tenant only and
\* every page continues below the last: no row twice.  And the walk ends, however
\* many rows are created meanwhile: it takes at most one page a row and one more.
WalksGoDown ==
    \A r \in Readers : Walking(r) =>
        /\ \A i \in Got(r) : rows[i].tenant = walk[r].query.tenant
        /\ \A k, l \in DOMAIN walk[r].got : k < l =>
              \A i \in walk[r].got[k], j \in walk[r].got[l] : j < i
        /\ Len(walk[r].got) <= Len(rows) + 1

\* A finished walk has missed no row that was there when its oldest page was
\* read and is still in the filter, unless a row it paged from has left the
\* filter: without a filter it misses none.
MissedHasCause ==
    \A r \in Readers : Walking(r) => LET w == walk[r] IN
        (w.step = "done" /\ \A c \in w.cursors : InList(w.query, c)) =>
            \A i \in Listed(w.query) : i <= w.asOf => i \in Got(r)
=============================================================================
