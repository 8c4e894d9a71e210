-------------------------- MODULE CsvImport_proofs --------------------------
(* Proofs about the pure functions of the CSV import, for every table, file  *)
(* and text, of any length.                                                  *)
EXTENDS CsvImportProperties, FiniteSetTheorems, WellFoundedInduction, TLAPS

-----------------------------------------------------------------------------
(* Induction, and functions defined by recursion.                            *)

LEMMA HasLeast ==
  ASSUME NEW T \in SUBSET Nat, T # {}
  PROVE  \E x \in T : \A y \in T : x <= y
  <1>1. PICK x \in T : \A y \in T : <<y, x>> \notin OpToRel(<, Nat)
    BY NatLessThanWellFounded, WFMin
  <1>2. \A y \in T : ~(y < x)
    BY <1>1 DEF OpToRel
  <1> QED BY <1>2

\* What a set of numbers has that it has the next of every one of.
LEMMA Upward ==
  ASSUME NEW a \in Nat, NEW n \in Nat, NEW T, a \in T,
         \A i \in a..(n - 1) : i \in T => i + 1 \in T
  PROVE  \A i \in a..n : i \in T
  <1> SUFFICES ASSUME NEW i \in a..n, i \notin T PROVE FALSE
    OBVIOUS
  <1> DEFINE out == {j \in a..n : j \notin T}
  <1>1. PICK j \in out : \A k \in out : j <= k
    <2>1. out \in SUBSET Nat /\ i \in out
      OBVIOUS
    <2> QED BY <2>1, HasLeast
  <1>2. j \in a..n /\ j # a /\ j \notin T
    BY <1>1
  <1>3. j - 1 \in a..(n - 1) /\ (j - 1) + 1 = j /\ ~(j <= j - 1)
    BY <1>2
  <1>4. j - 1 \in T
    BY <1>1, <1>2, <1>3
  <1> QED BY <1>2, <1>3, <1>4

\* The orders after each row of a file.
IsOrdersRun(table, n, run) ==
    run = [i \in 1..n |-> IF i = 1 THEN <<>> ELSE WithRow(run[i - 1], table, i)]

\* parseOrdersCsv goes through the states of some such run.
LEMMA OrdersRun ==
  ASSUME NEW table, Len(table) \in Nat \ {0}
  PROVE  \E run : IsOrdersRun(table, Len(table), run) /\ ParseOrders(table) = run[Len(table)]
  <1> DEFINE T == {n \in Nat : \E run : IsOrdersRun(table, n, run)}
  <1>1. 1 \in T
    <2>1. IsOrdersRun(table, 1, [i \in 1..1 |-> <<>>])
      BY DEF IsOrdersRun
    <2> QED BY <2>1
  <1>2. ASSUME NEW n \in Nat \ {0}, n \in T PROVE n + 1 \in T
    <2>1. PICK run : IsOrdersRun(table, n, run)
      BY <1>2
    <2> DEFINE more == [i \in 1..(n + 1) |->
                          IF i = n + 1 THEN WithRow(run[n], table, i) ELSE run[i]]
    <2>2. ASSUME NEW i \in 1..(n + 1)
          PROVE  more[i] = IF i = 1 THEN <<>> ELSE WithRow(more[i - 1], table, i)
      <3>1. CASE i = n + 1
        BY <3>1
      <3>2. CASE i # n + 1
        <4>1. i \in 1..n /\ (i # 1 => i - 1 \in 1..n)
          BY <3>2
        <4>2. more[i] = run[i] /\ (i # 1 => more[i - 1] = run[i - 1])
          BY <4>1
        <4>3. run[i] = IF i = 1 THEN <<>> ELSE WithRow(run[i - 1], table, i)
          BY <2>1, <4>1 DEF IsOrdersRun
        <4> QED BY <4>2, <4>3
      <3> QED BY <3>1, <3>2
    <2>3. IsOrdersRun(table, n + 1, more)
      BY <2>2 DEF IsOrdersRun
    <2> QED BY <2>3
  <1>3. Len(table) \in T
    <2> DEFINE n == Len(table)
    <2> HIDE DEF T, n
    <2>1. \A i \in 1..(n - 1) : i \in T => i + 1 \in T
      BY <1>2
    <2>2. n \in Nat \ {0}
      BY DEF n
    <2>3. \A i \in 1..n : i \in T
      BY <1>1, <2>1, <2>2, Upward
    <2> QED BY <2>2, <2>3 DEF n
  <1> QED BY <1>3 DEF ParseOrders, IsOrdersRun

-----------------------------------------------------------------------------
(* Columns.                                                                  *)

LEMMA HasGreatest ==
  ASSUME NEW n \in Nat, NEW T \in SUBSET (0..n), T # {}
  PROVE  \E x \in T : \A y \in T : y <= x
  <1> DEFINE below == {n - x : x \in T}
  <1>1. below \in SUBSET Nat /\ below # {}
    <2>1. \A x \in T : x \in 0..n /\ n - x \in Nat
      OBVIOUS
    <2> QED BY <2>1
  <1>2. PICK x \in T : \A b \in below : n - x <= b
    BY <1>1, HasLeast
  <1>3. ASSUME NEW y \in T PROVE y <= x
    <2>1. n - x <= n - y
      BY <1>2
    <2> QED BY <2>1
  <1> QED BY <1>3

FileSet(Tok) == {file \in Seq(Seq(Seq(Tok))) :
                   Readable(file, {<<name>> : name \in OrderColumns})}

\* The object of a row.
Line(file, i) == AsObject(Headers(file), file[i], 1..Len(file[1]))

\* Under a name it has what the last column of that name has.
LEMMA LineEntry ==
  ASSUME NEW Tok, NEW file \in FileSet(Tok), NEW i, NEW name \in OrderColumns
  PROVE  <<name>> \in DOMAIN Line(file, i) /\ Line(file, i)[<<name>>] = Entry(file, i, name)
  <1> DEFINE m == Len(file[1])
             headers == Headers(file)
             columns == {j \in 1..m : headers[j] = <<name>>}
             col == CHOOSE j \in columns : \A k \in columns : j >= k
  <1>1. m \in Nat /\ DOMAIN headers = 1..m
    BY DEF FileSet, Readable, Headers
  <1>2. columns # {}
    <2>1. <<name>> \in {headers[j] : j \in 1..m}
      BY DEF FileSet, Readable
    <2> QED BY <2>1
  <1> HIDE DEF m, headers
  <1>3. \E x \in columns : \A y \in columns : y <= x
    <2>1. columns \in SUBSET (0..m)
      BY <1>1
    <2> QED BY <1>1, <1>2, <2>1, HasGreatest
  <1>4. col \in columns /\ \A k \in columns : col >= k
    BY <1>1, <1>3
  <1>5. /\ Column(file, name) \in 1..m /\ headers[Column(file, name)] = <<name>>
        /\ \A j \in 1..m : headers[j] = <<name>> => j <= Column(file, name)
    BY <1>1, <1>3 DEF Column, headers
  <1>6. Column(file, name) = col
    BY <1>1, <1>4, <1>5
  <1>7. Line(file, i) =
          [h \in {headers[j] : j \in 1..m} |->
             Cell(file[i], CHOOSE j \in {k \in 1..m : headers[k] = h} :
                             \A l \in {k \in 1..m : headers[k] = h} : j >= l)]
    BY DEF Line, AsObject, m, headers
  <1>8. <<name>> \in {headers[j] : j \in 1..m}
    BY <1>2
  <1>9. Line(file, i)[<<name>>] = Cell(file[i], col)
    BY <1>7, <1>8
  <1> QED BY <1>6, <1>7, <1>8, <1>9 DEF Entry

-----------------------------------------------------------------------------
(* The orders after each row.                                                *)

Customer(file, i) == Entry(file, i, "customerid")
RowsTo(file, c, n) == {i \in 2..n : Customer(file, i) = c}
CountTo(file, c, n) == Cardinality(RowsTo(file, c, n))

OrderSet(file) == [customer : {Customer(file, i) : i \in 2..Len(file)},
                   items : Seq({Line(file, i) : i \in 2..Len(file)})]

\* The items of an order are the rows of its customer, one after the other.
HoldsRows(file, ord, n) ==
    /\ Len(ord.items) = CountTo(file, ord.customer, n)
    /\ \A i \in RowsTo(file, ord.customer, n) :
          ord.items[CountTo(file, ord.customer, i)] = Line(file, i)
    /\ \A k \in 1..Len(ord.items) : \E i \in RowsTo(file, ord.customer, n) :
          ord.items[k] = Line(file, i)

InOrder(file, c, d, n) ==
    \E i \in RowsTo(file, c, n) : \A j \in RowsTo(file, d, n) : i < j

Grouped(file, orders, n) ==
    /\ orders \in Seq(OrderSet(file))
    /\ \A k \in 1..Len(orders) :
          /\ orders[k].customer # <<>> /\ RowsTo(file, orders[k].customer, n) # {}
          /\ HoldsRows(file, orders[k], n)
    /\ \A i \in 2..n : Customer(file, i) # <<>> =>
          \E k \in 1..Len(orders) : orders[k].customer = Customer(file, i)
    /\ \A k, l \in 1..Len(orders) : k < l =>
          InOrder(file, orders[k].customer, orders[l].customer, n)

\* The rows of a customer can be counted.
LEMMA RowsFinite ==
  ASSUME NEW file, NEW c, NEW n \in Nat
  PROVE  IsFiniteSet(RowsTo(file, c, n)) /\ CountTo(file, c, n) \in Nat
  <1>1. IsFiniteSet(2..n)
    BY FS_Interval
  <1>2. RowsTo(file, c, n) \subseteq 2..n
    BY DEF RowsTo
  <1>3. IsFiniteSet(RowsTo(file, c, n))
    BY <1>1, <1>2, FS_Subset
  <1> QED BY <1>3, FS_CardinalityType DEF CountTo

\* One more row counts for its own customer only.
LEMMA RowsNext ==
  ASSUME NEW file, NEW c, NEW n \in Nat \ {0}
  PROVE  /\ Customer(file, n + 1) # c =>
              RowsTo(file, c, n + 1) = RowsTo(file, c, n)
              /\ CountTo(file, c, n + 1) = CountTo(file, c, n)
         /\ Customer(file, n + 1) = c =>
              RowsTo(file, c, n + 1) = RowsTo(file, c, n) \cup {n + 1}
              /\ CountTo(file, c, n + 1) = CountTo(file, c, n) + 1
  <1>1. 2..(n + 1) = (2..n) \cup {n + 1} /\ n + 1 \notin 2..n
    OBVIOUS
  <1>2. ASSUME Customer(file, n + 1) # c
        PROVE  RowsTo(file, c, n + 1) = RowsTo(file, c, n)
    BY <1>1, <1>2 DEF RowsTo
  <1>3. ASSUME Customer(file, n + 1) = c
        PROVE  /\ RowsTo(file, c, n + 1) = RowsTo(file, c, n) \cup {n + 1}
               /\ CountTo(file, c, n + 1) = CountTo(file, c, n) + 1
    <2>1. RowsTo(file, c, n + 1) = RowsTo(file, c, n) \cup {n + 1}
      BY <1>1, <1>3 DEF RowsTo
    <2>2. n + 1 \notin RowsTo(file, c, n)
      BY <1>1 DEF RowsTo
    <2>3. Cardinality(RowsTo(file, c, n) \cup {n + 1}) = Cardinality(RowsTo(file, c, n)) + 1
      BY <2>2, RowsFinite, FS_AddElement
    <2> QED BY <2>1, <2>3 DEF CountTo
  <1> QED BY <1>2, <1>3 DEF CountTo

\* Down to any row of a customer there is that one, and no more than all.
LEMMA CountsUp ==
  ASSUME NEW file, NEW c, NEW n \in Nat, NEW i \in RowsTo(file, c, n)
  PROVE  CountTo(file, c, i) \in 1..CountTo(file, c, n)
  <1>1. i \in 2..n /\ Customer(file, i) = c
    BY DEF RowsTo
  <1>2. i \in RowsTo(file, c, i) /\ RowsTo(file, c, i) \subseteq RowsTo(file, c, n)
    BY <1>1 DEF RowsTo
  <1>3. IsFiniteSet(RowsTo(file, c, i)) /\ IsFiniteSet(RowsTo(file, c, n))
    BY <1>1, RowsFinite
  <1>4. CountTo(file, c, i) <= CountTo(file, c, n)
    BY <1>2, <1>3, FS_Subset DEF CountTo
  <1>5. /\ CountTo(file, c, i) \in Nat /\ CountTo(file, c, i) # 0
        /\ CountTo(file, c, n) \in Nat
    BY <1>2, <1>3, FS_CardinalityType, FS_EmptySet DEF CountTo
  <1> QED BY <1>4, <1>5

\* The orders that a row adds nothing to.
LEMMA KeptRows ==
  ASSUME NEW file, NEW n \in Nat \ {0}, NEW ord, HoldsRows(file, ord, n),
         Customer(file, n + 1) # ord.customer
  PROVE  HoldsRows(file, ord, n + 1)
  BY RowsNext DEF HoldsRows

\* The order it belongs to, if there is one or not.
LEMMA OneMoreRow ==
  ASSUME NEW Tok, NEW file \in FileSet(Tok), NEW n \in Nat \ {0}, n < Len(file),
         NEW items \in Seq({Line(file, i) : i \in 2..Len(file)}),
         NEW c, c = Customer(file, n + 1),
         HoldsRows(file, [customer |-> c, items |-> items], n)
  PROVE  LET ord == [customer |-> c, items |-> Append(items, Line(file, n + 1))] IN
         ord \in OrderSet(file) /\ HoldsRows(file, ord, n + 1)
  <1> DEFINE row == Line(file, n + 1)
             more == Append(items, row)
             ord == [customer |-> c, items |-> more]
             Lines == {Line(file, i) : i \in 2..Len(file)}
  <1>1. Len(file) \in Nat /\ n + 1 \in 2..Len(file)
    BY DEF FileSet
  <1>2. row \in Lines
    BY <1>1
  <1>a. items \in Seq(Lines)
    OBVIOUS
  <1>h. /\ Len(items) = CountTo(file, c, n)
        /\ \A i \in RowsTo(file, c, n) : items[CountTo(file, c, i)] = Line(file, i)
        /\ \A k \in 1..Len(items) : \E i \in RowsTo(file, c, n) : items[k] = Line(file, i)
    BY DEF HoldsRows
  <1> HIDE DEF Lines, row
  <1>3. /\ more \in Seq(Lines) /\ Len(more) = Len(items) + 1 /\ Len(items) \in Nat
        /\ more[Len(items) + 1] = row /\ \A k \in 1..Len(items) : more[k] = items[k]
    BY <1>a, <1>2
  <1> HIDE DEF more
  <1>4. ord \in OrderSet(file)
    BY <1>1, <1>3 DEF OrderSet, Lines
  <1>5. /\ RowsTo(file, c, n + 1) = RowsTo(file, c, n) \cup {n + 1}
        /\ CountTo(file, c, n + 1) = CountTo(file, c, n) + 1
    BY RowsNext
  <1>6. ASSUME NEW i \in RowsTo(file, c, n)
        PROVE  CountTo(file, c, i) \in 1..Len(items)
    BY <1>h, CountsUp
  <1>7. ASSUME NEW i \in RowsTo(file, c, n + 1)
        PROVE  more[CountTo(file, c, i)] = Line(file, i)
    <2>1. CASE i = n + 1
      BY <1>3, <1>5, <1>h, <2>1 DEF row
    <2>2. CASE i \in RowsTo(file, c, n)
      BY <1>3, <1>6, <1>h, <2>2
    <2> QED BY <1>5, <2>1, <2>2
  <1>8. ASSUME NEW k \in 1..Len(more)
        PROVE  \E i \in RowsTo(file, c, n + 1) : more[k] = Line(file, i)
    <2>1. CASE k = Len(items) + 1
      BY <1>3, <1>5, <2>1 DEF row
    <2>2. CASE k \in 1..Len(items)
      BY <1>3, <1>5, <1>h, <2>2
    <2> QED BY <1>3, <2>1, <2>2
  <1>9. HoldsRows(file, ord, n + 1)
    <2>1. ord.customer = c /\ ord.items = more
      OBVIOUS
    <2>2. Len(more) = CountTo(file, c, n + 1)
      BY <1>3, <1>5, <1>h
    <2> HIDE DEF ord
    <2> QED BY <1>7, <1>8, <2>1, <2>2 DEF HoldsRows
  <1> QED BY <1>4, <1>9 DEF more, row

\* Customers stay in the order in which they first appeared.
LEMMA InOrderKept ==
  ASSUME NEW file, NEW n \in Nat \ {0}, NEW c, NEW d, InOrder(file, c, d, n)
  PROVE  InOrder(file, c, d, n + 1)
  <1>1. PICK i \in RowsTo(file, c, n) : \A j \in RowsTo(file, d, n) : i < j
    BY DEF InOrder
  <1>2. i \in RowsTo(file, c, n + 1) /\ i < n + 1
    BY RowsNext DEF RowsTo
  <1>3. \A j \in RowsTo(file, d, n + 1) : j \in RowsTo(file, d, n) \/ j = n + 1
    BY RowsNext
  <1> QED BY <1>1, <1>2, <1>3 DEF InOrder

\* One more row keeps the orders of the first rows grouped.
LEMMA GroupedStep ==
  ASSUME NEW Tok, NEW file \in FileSet(Tok), NEW n \in Nat \ {0}, n < Len(file),
         NEW orders, Grouped(file, orders, n)
  PROVE  Grouped(file, WithRow(orders, file, n + 1), n + 1)
  <1> DEFINE c == Customer(file, n + 1)
             row == Line(file, n + 1)
             new == WithRow(orders, file, n + 1)
  <1>1. new = IF c # <<>> THEN WithLine(orders, c, row) ELSE orders
    <2>1. <<"customerid">> \in DOMAIN row /\ row[<<"customerid">>] = c
      BY LineEntry DEF OrderColumns, Customer
    <2> QED BY <2>1 DEF WithRow, Has, Line
  <1>2. /\ orders \in Seq(OrderSet(file)) /\ Len(orders) \in Nat
        /\ DOMAIN orders = 1..Len(orders)
        /\ \A k \in 1..Len(orders) : orders[k] \in OrderSet(file)
    BY DEF Grouped
  <1>3. /\ \A k \in 1..Len(orders) :
             /\ orders[k].customer # <<>> /\ RowsTo(file, orders[k].customer, n) # {}
             /\ HoldsRows(file, orders[k], n)
        /\ \A i \in 2..n : Customer(file, i) # <<>> =>
             \E k \in 1..Len(orders) : orders[k].customer = Customer(file, i)
        /\ \A k, l \in 1..Len(orders) : k < l =>
             InOrder(file, orders[k].customer, orders[l].customer, n)
    BY DEF Grouped
  <1>4. \A d : RowsTo(file, d, n) \subseteq RowsTo(file, d, n + 1)
    BY RowsNext
  <1>5. ASSUME NEW i \in 2..(n + 1) PROVE i \in 2..n \/ i = n + 1
    OBVIOUS
  <1> HIDE DEF c, row, new
  <1>6. CASE c = <<>>
    <2>1. new = orders
      BY <1>1, <1>6
    <2>2. \A k \in 1..Len(orders) : HoldsRows(file, orders[k], n + 1)
      BY <1>3, <1>6, KeptRows DEF c
    <2>3. \A i \in 2..(n + 1) : Customer(file, i) # <<>> =>
             \E k \in 1..Len(orders) : orders[k].customer = Customer(file, i)
      BY <1>3, <1>5, <1>6 DEF c
    <2>4. \A k, l \in 1..Len(orders) : k < l =>
             InOrder(file, orders[k].customer, orders[l].customer, n + 1)
      BY <1>3, InOrderKept
    <2>5. \A k \in 1..Len(orders) : RowsTo(file, orders[k].customer, n + 1) # {}
      BY <1>3, <1>4
    <2> QED BY <1>2, <1>3, <2>1, <2>2, <2>3, <2>4, <2>5 DEF Grouped, new
  <1>7. CASE c # <<>> /\ \E k \in 1..Len(orders) : orders[k].customer = c
    <2>1. new = [k \in 1..Len(orders) |->
                   IF orders[k].customer = c
                   THEN [orders[k] EXCEPT !.items = Append(@, row)] ELSE orders[k]]
      BY <1>1, <1>7 DEF WithLine
    <2>2. ASSUME NEW k \in 1..Len(orders)
          PROVE  /\ new[k] \in OrderSet(file) /\ new[k].customer = orders[k].customer
                 /\ HoldsRows(file, new[k], n + 1)
      <3>1. CASE orders[k].customer = c
        <4> DEFINE items == orders[k].items
        <4>1. orders[k] = [customer |-> c, items |-> items]
              /\ items \in Seq({Line(file, i) : i \in 2..Len(file)})
          BY <1>2, <3>1 DEF OrderSet
        <4>2. new[k] = [customer |-> c, items |-> Append(items, row)]
          BY <2>1, <3>1, <4>1
        <4>3. HoldsRows(file, [customer |-> c, items |-> items], n)
          BY <1>3, <4>1
        <4> HIDE DEF items
        <4>4. /\ [customer |-> c, items |-> Append(items, row)] \in OrderSet(file)
              /\ HoldsRows(file, [customer |-> c, items |-> Append(items, row)], n + 1)
          BY <4>1, <4>3, OneMoreRow DEF c, row
        <4> QED BY <3>1, <4>2, <4>4
      <3>2. CASE orders[k].customer # c
        BY <1>2, <1>3, <2>1, <3>2, KeptRows DEF c
      <3> QED BY <3>1, <3>2
    <2>3. new \in Seq(OrderSet(file)) /\ Len(new) = Len(orders)
      BY SMTT(30), <1>2, <2>1, <2>2
    <2>4. \A i \in 2..(n + 1) : Customer(file, i) # <<>> =>
             \E k \in 1..Len(new) : new[k].customer = Customer(file, i)
      BY <1>3, <1>5, <1>7, <2>2, <2>3 DEF c
    <2>5. \A k, l \in 1..Len(new) : k < l =>
             InOrder(file, new[k].customer, new[l].customer, n + 1)
      BY <1>3, <2>2, <2>3, InOrderKept
    <2>6. \A k \in 1..Len(new) :
             /\ new[k].customer # <<>> /\ RowsTo(file, new[k].customer, n + 1) # {}
             /\ HoldsRows(file, new[k], n + 1)
      BY <1>3, <1>4, <2>2, <2>3
    <2> QED BY <2>3, <2>4, <2>5, <2>6 DEF Grouped, new
  <1>8. CASE c # <<>> /\ ~ \E k \in 1..Len(orders) : orders[k].customer = c
    <2> DEFINE ord == [customer |-> c, items |-> <<row>>]
               last == Len(orders) + 1
    <2>1. new = Append(orders, ord)
      BY <1>1, <1>8 DEF WithLine
    <2>2. RowsTo(file, c, n) = {}
      BY <1>3, <1>8 DEF RowsTo
    <2>3. ord \in OrderSet(file) /\ HoldsRows(file, ord, n + 1)
      <3> DEFINE none == <<>>
      <3>1. none \in Seq({Line(file, i) : i \in 2..Len(file)}) /\ Len(none) = 0
        OBVIOUS
      <3>2. Append(none, row) = <<row>>
        OBVIOUS
      <3> HIDE DEF none
      <3>3. HoldsRows(file, [customer |-> c, items |-> none], n)
        <4> DEFINE empty == [customer |-> c, items |-> none]
        <4>1. empty.customer = c /\ empty.items = none
          OBVIOUS
        <4>2. CountTo(file, c, n) = 0
          BY <2>2, FS_EmptySet DEF CountTo
        <4> HIDE DEF empty
        <4>3. HoldsRows(file, empty, n)
          BY <2>2, <3>1, <4>1, <4>2 DEF HoldsRows
        <4> QED BY <4>3 DEF empty
      <3>4. /\ [customer |-> c, items |-> Append(none, row)] \in OrderSet(file)
            /\ HoldsRows(file, [customer |-> c, items |-> Append(none, row)], n + 1)
        BY <3>1, <3>3, OneMoreRow DEF c, row
      <3> QED BY <3>2, <3>4
    <2>4. ord.customer = c
      OBVIOUS
    <2> HIDE DEF ord
    <2>5. /\ new \in Seq(OrderSet(file)) /\ Len(new) = last /\ new[last] = ord
          /\ \A k \in 1..Len(orders) : new[k] = orders[k]
      BY <1>2, <2>1, <2>3
    <2>6. \A k \in 1..last : k \in 1..Len(orders) \/ k = last
      BY <1>2
    <2>7. RowsTo(file, c, n + 1) = {n + 1}
      <3>1. RowsTo(file, c, n + 1) = RowsTo(file, c, n) \cup {n + 1}
        BY RowsNext DEF c
      <3> QED BY <2>2, <3>1
    <2>8. \A k \in 1..Len(new) :
             /\ new[k].customer # <<>> /\ RowsTo(file, new[k].customer, n + 1) # {}
             /\ HoldsRows(file, new[k], n + 1)
      <3>1. ASSUME NEW k \in 1..Len(orders)
            PROVE  /\ orders[k].customer # <<>>
                   /\ RowsTo(file, orders[k].customer, n + 1) # {}
                   /\ HoldsRows(file, orders[k], n + 1)
        BY <1>3, <1>4, <1>8, KeptRows DEF c
      <3> QED BY <1>8, <2>3, <2>4, <2>5, <2>6, <2>7, <3>1
    <2>9. \A i \in 2..(n + 1) : Customer(file, i) # <<>> =>
             \E k \in 1..Len(new) : new[k].customer = Customer(file, i)
      <3>1. last \in 1..Len(new) /\ \A k \in 1..Len(orders) : k \in 1..Len(new)
        BY <1>2, <2>5
      <3> QED BY <1>3, <1>5, <2>4, <2>5, <3>1 DEF c
    <2>10. ASSUME NEW k \in 1..Len(new), NEW l \in 1..Len(new), k < l
           PROVE  InOrder(file, new[k].customer, new[l].customer, n + 1)
      <3>1. k \in 1..Len(orders)
        BY <1>2, <2>5, <2>6, <2>10
      <3>2. CASE l \in 1..Len(orders)
        BY <1>3, <2>5, <2>10, <3>1, <3>2, InOrderKept
      <3>3. CASE l = last
        <4>1. PICK i \in RowsTo(file, orders[k].customer, n) : TRUE
          BY <1>3, <3>1
        <4>2. i < n + 1 /\ i \in RowsTo(file, orders[k].customer, n + 1)
          BY <1>4, <4>1 DEF RowsTo
        <4> QED BY <2>4, <2>5, <2>7, <3>1, <3>3, <4>2 DEF InOrder
      <3> QED BY <2>5, <2>6, <3>2, <3>3
    <2> QED BY <2>5, <2>8, <2>9, <2>10 DEF Grouped, new
  <1> QED BY <1>6, <1>7, <1>8

\* After the last row all of them are grouped.
LEMMA AllGrouped ==
  ASSUME NEW Tok, NEW file \in FileSet(Tok)
  PROVE  Grouped(file, ParseOrders(file), Len(file))
  <1> DEFINE n == Len(file)
  <1>1. n \in Nat \ {0}
    BY DEF FileSet, Readable
  <1>2. PICK run : IsOrdersRun(file, n, run) /\ ParseOrders(file) = run[n]
    BY <1>1, OrdersRun
  <1> DEFINE T == {i \in 1..n : Grouped(file, run[i], i)}
  <1>3. 1 \in T
    <2>1. run[1] = <<>> /\ 2..1 = {}
      BY <1>1, <1>2 DEF IsOrdersRun
    <2> DEFINE none == <<>>
    <2>2. none \in Seq(OrderSet(file)) /\ Len(none) = 0
      OBVIOUS
    <2> HIDE DEF none
    <2>3. Grouped(file, none, 1)
      BY <2>1, <2>2 DEF Grouped
    <2> QED BY <1>1, <2>1, <2>3 DEF none
  <1>4. ASSUME NEW i \in 1..(n - 1), i \in T PROVE i + 1 \in T
    <2>1. run[i + 1] = WithRow(run[i], file, i + 1)
      BY <1>1, <1>2 DEF IsOrdersRun
    <2>2. Grouped(file, run[i + 1], i + 1)
      BY <1>1, <1>4, <2>1, GroupedStep
    <2> QED BY <1>1, <2>2
  <1>5. n \in T
    <2> HIDE DEF T, n
    <2>1. \A i \in 1..n : i \in T
      BY <1>1, <1>3, <1>4, Upward
    <2> QED BY <1>1, <2>1
  <1> QED BY <1>2, <1>5

-----------------------------------------------------------------------------
(* The grouping is the one the rows ask for.                                 *)

LEMMA RowsAreRows ==
  ASSUME NEW Tok, NEW file \in FileSet(Tok), NEW c
  PROVE  /\ RowsOf(file, c) = RowsTo(file, c, Len(file))
         /\ \A i \in RowsOf(file, c) : RowsDownTo(file, c, i) = CountTo(file, c, i)
  <1>1. RowsOf(file, c) = RowsTo(file, c, Len(file))
    BY DEF RowsOf, RowsTo, Customer
  <1>2. ASSUME NEW i \in RowsOf(file, c) PROVE RowsDownTo(file, c, i) = CountTo(file, c, i)
    <2>1. i \in 2..Len(file) /\ Len(file) \in Nat
      BY DEF RowsOf, FileSet
    <2>2. {j \in RowsOf(file, c) : j <= i} = RowsTo(file, c, i)
      BY <2>1 DEF RowsOf, RowsTo, Customer
    <2> QED BY <2>2 DEF RowsDownTo, CountTo
  <1> QED BY <1>1, <1>2

\* IsOrderLine asks of a row what the import asks.
LEMMA LineAcceptable ==
  ASSUME NEW Tok, NEW file \in FileSet(Tok), NEW i
  PROVE  IsOrderLine(Line(file, i)) <=> Acceptable(file, i)
  <1> DEFINE obj == Line(file, i)
  <1>1. \A name \in OrderColumns :
          <<name>> \in DOMAIN obj /\ obj[<<name>>] = Entry(file, i, name)
    BY LineEntry
  <1>2. \A cell : Number(cell) >= 100 \/ Number(cell) >= 0 => cell # <<>>
    <2>1. Number(<<>>) = -1
      BY DEF Number
    <2> QED BY <2>1
  <1> HIDE DEF obj
  <1>3. \A name \in OrderColumns : Has(obj, name) <=> Entry(file, i, name) # <<>>
    BY <1>1 DEF Has
  <1>4. {"sku", "qty", "price"} \subseteq OrderColumns
    BY DEF OrderColumns
  <1>5. IsOrderLine(obj) <=> Acceptable(file, i)
    BY <1>1, <1>2, <1>3, <1>4 DEF IsOrderLine, Acceptable
  <1> QED BY <1>5 DEF obj

\* An order is imported when all the rows of its customer are valid.
LEMMA OrderAcceptable ==
  ASSUME NEW Tok, NEW file \in FileSet(Tok), NEW ord \in OrderSet(file),
         HoldsRows(file, ord, Len(file))
  PROVE  IsOrder(ord) <=> \A i \in RowsOf(file, ord.customer) : Acceptable(file, i)
  <1> DEFINE c == ord.customer
             n == Len(file)
  <1>1. n \in Nat
    BY DEF FileSet
  <1>2. ASSUME NEW i \in RowsOf(file, c)
        PROVE  \E k \in 1..Len(ord.items) : ord.items[k] = Line(file, i)
    <2>1. i \in RowsTo(file, c, n) /\ i \in 2..n /\ Customer(file, i) = c
      BY RowsAreRows DEF RowsTo
    <2>2. ord.items[CountTo(file, c, i)] = Line(file, i) /\ Len(ord.items) = CountTo(file, c, n)
      BY <2>1 DEF HoldsRows
    <2>3. CountTo(file, c, i) \in 1..CountTo(file, c, n)
      BY <1>1, <2>1, CountsUp
    <2> QED BY <2>2, <2>3
  <1>3. ASSUME NEW k \in 1..Len(ord.items)
        PROVE  \E i \in RowsOf(file, c) : ord.items[k] = Line(file, i)
    BY RowsAreRows DEF HoldsRows
  <1> QED BY <1>2, <1>3, LineAcceptable DEF IsOrder

\* GroupsLines, of any readable file.
LEMMA FilesGrouped ==
  ASSUME NEW Tok, NEW file \in FileSet(Tok)
  PROVE  GroupsLines(file)
  <1> DEFINE orders == ParseOrders(file)
             n == Len(file)
             customers == {Entry(file, i, "customerid") : i \in 2..n} \ {<<>>}
             all == 1..Len(orders)
  <1>1. Grouped(file, orders, n) /\ n \in Nat
    BY AllGrouped DEF FileSet
  <1> HIDE DEF orders
  <1>2. /\ \A k \in all :
             /\ orders[k].customer # <<>> /\ RowsTo(file, orders[k].customer, n) # {}
             /\ HoldsRows(file, orders[k], n) /\ orders[k] \in OrderSet(file)
        /\ \A i \in 2..n : Customer(file, i) # <<>> =>
             \E k \in all : orders[k].customer = Customer(file, i)
        /\ \A k, l \in all : k < l =>
             InOrder(file, orders[k].customer, orders[l].customer, n)
    BY <1>1 DEF Grouped
  <1>3. \A c : RowsOf(file, c) = RowsTo(file, c, n)
    BY RowsAreRows
  <1>4. {orders[k].customer : k \in all} = customers
    <2>1. ASSUME NEW k \in all PROVE orders[k].customer \in customers
      BY <1>2 DEF RowsTo, Customer
    <2>2. ASSUME NEW c \in customers PROVE \E k \in all : orders[k].customer = c
      BY <1>2 DEF Customer
    <2> QED BY <2>1, <2>2
  <1>5. \A k, l \in all : k < l =>
          \E i \in RowsOf(file, orders[k].customer) :
              \A j \in RowsOf(file, orders[l].customer) : i < j
    <2> SUFFICES ASSUME NEW k \in all, NEW l \in all, k < l
                 PROVE  \E i \in RowsOf(file, orders[k].customer) :
                           \A j \in RowsOf(file, orders[l].customer) : i < j
      OBVIOUS
    <2>1. InOrder(file, orders[k].customer, orders[l].customer, n)
      BY <1>2
    <2> QED BY <1>3, <2>1 DEF InOrder
  <1>6. ASSUME NEW k \in all
        PROVE  /\ Len(orders[k].items) = Cardinality(RowsOf(file, orders[k].customer))
               /\ \A i \in RowsOf(file, orders[k].customer), name \in OrderColumns :
                    orders[k].items[RowsDownTo(file, orders[k].customer, i)][<<name>>]
                       = Entry(file, i, name)
    <2>1. Len(orders[k].items) = Cardinality(RowsOf(file, orders[k].customer))
      BY <1>2, <1>3 DEF HoldsRows, CountTo
    <2>2. ASSUME NEW i \in RowsOf(file, orders[k].customer), NEW name \in OrderColumns
          PROVE  orders[k].items[RowsDownTo(file, orders[k].customer, i)][<<name>>]
                    = Entry(file, i, name)
      <3>1. orders[k].items[CountTo(file, orders[k].customer, i)] = Line(file, i)
        BY <1>2, <1>3 DEF HoldsRows
      <3>2. RowsDownTo(file, orders[k].customer, i) = CountTo(file, orders[k].customer, i)
        BY RowsAreRows
      <3> QED BY <3>1, <3>2, LineEntry
    <2> QED BY <2>1, <2>2
  <1>7. {ord.customer : ord \in ImportedOrders(file)} =
          {c \in customers : \A i \in RowsOf(file, c) : Acceptable(file, i)}
    <2>1. ImportedOrders(file) = {orders[k] : k \in {l \in all : IsOrder(orders[l])}}
      BY DEF ImportedOrders, orders
    <2>2. \A k \in all : IsOrder(orders[k]) <=>
             \A i \in RowsOf(file, orders[k].customer) : Acceptable(file, i)
      BY <1>2, OrderAcceptable
    <2> HIDE DEF all, customers
    <2> QED BY <1>4, <2>1, <2>2
  <1> QED BY <1>4, <1>5, <1>6, <1>7 DEF GroupsLines, orders

\* OrdersGroupLines: parseOrdersCsv makes one order of every customer, with all
\* of its rows in their order, and one bad row refuses the whole order.
THEOREM OrdersAreGrouped == UploadSpec => []OrdersGroupLines
  <1>1. ASSUME upload \in {NoUpload} \cup Uploads PROVE OrdersGroupLines
    <2> SUFFICES ASSUME upload \in Uploads, "file" \in DOMAIN upload,
                        Readable(upload.file, {<<name>> : name \in OrderColumns})
                 PROVE  GroupsLines(upload.file)
      BY <1>1 DEF OrdersGroupLines
    <2>1. upload.file \in Files
      BY DEF Uploads
    <2>2. upload.file \in FileSet(STRING)
      BY <2>1, UploadsAssumption DEF FileSet
    <2> QED BY <2>2, FilesGrouped
  <1> DEFINE Given == upload \in {NoUpload} \cup Uploads
  <1>2. Given /\ [UNCHANGED upload]_upload => Given'
    <2> SUFFICES ASSUME Given, upload' = upload PROVE Given'
      OBVIOUS
    <2> QED BY DEF Uploads
  <1>3. Given => OrdersGroupLines
    BY <1>1
  <1> QED BY <1>2, <1>3, PTL DEF UploadSpec

-----------------------------------------------------------------------------
(* Texts put together from parts.                                            *)

\* Where each of the first n parts ends in the whole they make.
LaidOut(parts, n, whole, off) ==
    /\ off[0] = 0 /\ off[n] = Len(whole)
    /\ \A k \in 0..n : off[k] \in 0..Len(whole)
    /\ \A k \in 1..n :
          /\ off[k] = off[k - 1] + Len(parts[k])
          /\ \A j \in 1..Len(parts[k]) : whole[off[k - 1] + j] = parts[k][j]

IsConcatRun(parts, n, run) ==
    run = [i \in 0..n |-> IF i = 0 THEN <<>> ELSE run[i - 1] \o parts[i]]

\* Concat goes through the sequences of some such run.
LEMMA ConcatRun ==
  ASSUME NEW parts, Len(parts) \in Nat
  PROVE  \E run : IsConcatRun(parts, Len(parts), run) /\ Concat(parts) = run[Len(parts)]
  <1> DEFINE T == {n \in Nat : \E run : IsConcatRun(parts, n, run)}
  <1>1. 0 \in T
    <2>1. IsConcatRun(parts, 0, [i \in 0..0 |-> <<>>])
      BY DEF IsConcatRun
    <2> QED BY <2>1
  <1>2. ASSUME NEW n \in Nat, n \in T PROVE n + 1 \in T
    <2>1. PICK run : IsConcatRun(parts, n, run)
      BY <1>2
    <2> DEFINE more == [i \in 0..(n + 1) |->
                          IF i = n + 1 THEN run[n] \o parts[i] ELSE run[i]]
    <2>2. ASSUME NEW i \in 0..(n + 1)
          PROVE  more[i] = IF i = 0 THEN <<>> ELSE more[i - 1] \o parts[i]
      <3>1. CASE i = n + 1
        BY <3>1
      <3>2. CASE i # n + 1
        <4>1. i \in 0..n /\ (i # 0 => i - 1 \in 0..n)
          BY <3>2
        <4>2. more[i] = run[i] /\ (i # 0 => more[i - 1] = run[i - 1])
          BY <4>1
        <4>3. run[i] = IF i = 0 THEN <<>> ELSE run[i - 1] \o parts[i]
          BY <2>1, <4>1 DEF IsConcatRun
        <4> QED BY <4>2, <4>3
      <3> QED BY <3>1, <3>2
    <2>3. IsConcatRun(parts, n + 1, more)
      BY <2>2 DEF IsConcatRun
    <2> QED BY <2>3
  <1>3. Len(parts) \in T
    <2> DEFINE n == Len(parts)
    <2> HIDE DEF T, n
    <2>1. \A i \in 0..(n - 1) : i \in T => i + 1 \in T
      BY <1>2
    <2>2. n \in Nat
      BY DEF n
    <2>3. \A i \in 0..n : i \in T
      BY <1>1, <2>1, <2>2, Upward
    <2> QED BY <2>2, <2>3 DEF n
  <1> QED BY <1>3 DEF Concat, IsConcatRun

\* A layout, one part longer.
LEMMA OneMorePart ==
  ASSUME NEW Tok, NEW parts \in Seq(Seq(Tok)), NEW n \in Nat, n < Len(parts),
         NEW whole \in Seq(Tok), NEW off, LaidOut(parts, n, whole, off),
         NEW all, all = whole \o parts[n + 1], off[n + 1] = Len(all)
  PROVE  all \in Seq(Tok) /\ LaidOut(parts, n + 1, all, off)
  <1>a. Len(whole) \in Nat
    OBVIOUS
  <1>1. /\ off[0] = 0 /\ off[n] = Len(whole) /\ Len(whole) \in Nat
        /\ \A k \in 0..n : off[k] \in 0..Len(whole)
        /\ \A k \in 1..n :
             /\ off[k] = off[k - 1] + Len(parts[k])
             /\ \A j \in 1..Len(parts[k]) : whole[off[k - 1] + j] = parts[k][j]
    BY <1>a, ZenonT(30) DEF LaidOut
  <1>2. \A k \in 1..(n + 1) : parts[k] \in Seq(Tok) /\ Len(parts[k]) \in Nat
    OBVIOUS
  <1>3. /\ all \in Seq(Tok) /\ Len(all) = Len(whole) + Len(parts[n + 1])
        /\ \A j \in 1..Len(whole) : all[j] = whole[j]
        /\ \A j \in 1..Len(parts[n + 1]) : all[Len(whole) + j] = parts[n + 1][j]
    <2> DEFINE part == parts[n + 1]
    <2>1. part \in Seq(Tok) /\ all = whole \o part
      BY <1>2
    <2> HIDE DEF part
    <2>2. /\ all \in Seq(Tok) /\ Len(all) = Len(whole) + Len(part)
          /\ \A j \in 1..Len(whole) : all[j] = whole[j]
          /\ \A j \in 1..Len(part) : all[Len(whole) + j] = part[j]
      BY <2>1
    <2> QED BY <2>2 DEF part
  <1>4. ASSUME NEW k \in 0..(n + 1) PROVE off[k] \in 0..Len(all)
    <2>1. CASE k = n + 1
      BY <1>1, <1>2, <1>3, <2>1
    <2>2. CASE k \in 0..n
      <3>1. off[k] \in 0..Len(whole) /\ Len(parts[n + 1]) \in Nat
        BY <1>1, <1>2, <2>2
      <3> QED BY <1>1, <1>3, <3>1
    <2> QED BY <2>1, <2>2
  <1>5. ASSUME NEW k \in 1..(n + 1)
        PROVE  /\ off[k] = off[k - 1] + Len(parts[k])
               /\ \A j \in 1..Len(parts[k]) : all[off[k - 1] + j] = parts[k][j]
    <2>1. CASE k = n + 1
      <3>1. k - 1 = n
        BY <2>1
      <3> QED BY <1>1, <1>3, <2>1, <3>1
    <2>2. CASE k \in 1..n
      <3>1. k - 1 \in 0..n /\ k \in 0..n
        BY <2>2
      <3>2. off[k] = off[k - 1] + Len(parts[k]) /\ off[k] \in 0..Len(whole)
            /\ off[k - 1] \in 0..Len(whole) /\ Len(parts[k]) \in Nat
        BY <1>1, <1>2, <2>2, <3>1
      <3>3. ASSUME NEW j \in 1..Len(parts[k]) PROVE all[off[k - 1] + j] = parts[k][j]
        <4>1. whole[off[k - 1] + j] = parts[k][j]
          BY <1>1, <2>2
        <4> DEFINE at == off[k - 1] + j
                   base == off[k - 1]  end == off[k]  len == Len(parts[k])
        <4>2. at \in 1..Len(whole)
          <5>1. /\ end = base + len /\ end \in 0..Len(whole) /\ base \in 0..Len(whole)
                /\ len \in Nat /\ j \in 1..len /\ at = base + j /\ Len(whole) \in Nat
            BY <1>1, <3>2
          <5> HIDE DEF at, base, end, len
          <5> QED BY <5>1
        <4> HIDE DEF at
        <4>3. all[at] = whole[at]
          BY <1>3, <4>2
        <4> QED BY <4>1, <4>3 DEF at
      <3> QED BY <3>2, <3>3
    <2>3. k = n + 1 \/ k \in 1..n
      OBVIOUS
    <2> QED BY <2>1, <2>2, <2>3
  <1>6. off[0] = 0 /\ off[n + 1] = Len(all)
    BY <1>1
  <1> QED BY <1>3, <1>4, <1>5, <1>6 DEF LaidOut

\* Concat puts the parts one behind the other.
LEMMA ConcatLaidOut ==
  ASSUME NEW Tok, NEW parts \in Seq(Seq(Tok))
  PROVE  /\ Concat(parts) \in Seq(Tok)
         /\ \E off : LaidOut(parts, Len(parts), Concat(parts), off)
  <1> DEFINE n == Len(parts)
  <1>1. n \in Nat
    OBVIOUS
  <1>2. PICK run : IsConcatRun(parts, n, run) /\ Concat(parts) = run[n]
    BY <1>1, ConcatRun
  <1>3. run[0] = <<>> /\ \A k \in 1..n : run[k] = run[k - 1] \o parts[k]
    <2>1. \A k \in 0..n : run[k] = IF k = 0 THEN <<>> ELSE run[k - 1] \o parts[k]
      BY <1>2, Zenon DEF IsConcatRun
    <2>2. \A k \in 1..n : k \in 0..n /\ k # 0
      BY <1>1
    <2>3. 0 \in 0..n
      BY <1>1
    <2> HIDE DEF n
    <2> QED BY <2>1, <2>2, <2>3, Zenon
  <1> DEFINE off == [k \in 0..n |-> Len(run[k])]
             T == {m \in 0..n : run[m] \in Seq(Tok) /\ LaidOut(parts, m, run[m], off)}
  <1>4. \A k \in 0..n : off[k] = Len(run[k])
    OBVIOUS
  <1> HIDE DEF off
  <1>5. 0 \in T
    <2>1. run[0] \in Seq(Tok) /\ off[0] = 0 /\ Len(run[0]) = 0
      BY <1>1, <1>3, <1>4
    <2> QED BY <1>1, <2>1 DEF LaidOut
  <1>6. ASSUME NEW m \in 0..(n - 1), m \in T PROVE m + 1 \in T
    <2>1. /\ m \in Nat /\ m < Len(parts) /\ m + 1 \in 1..n /\ (m + 1) - 1 = m
          /\ run[m] \in Seq(Tok) /\ LaidOut(parts, m, run[m], off)
      BY <1>1, <1>6
    <2>2. run[m + 1] = run[m] \o parts[m + 1] /\ off[m + 1] = Len(run[m + 1])
      <3>1. m + 1 \in 0..n
        BY <1>1, <2>1
      <3>2. run[m + 1] = run[(m + 1) - 1] \o parts[m + 1]
        BY <1>3, <2>1, Zenon
      <3>3. run[(m + 1) - 1] = run[m]
        BY <2>1
      <3>4. run[m + 1] = run[m] \o parts[m + 1]
        BY <3>2, <3>3, Zenon
      <3> QED BY <1>4, <3>1, <3>4, Zenon
    <2>3. run[m + 1] \in Seq(Tok) /\ LaidOut(parts, m + 1, run[m + 1], off)
      BY <2>1, <2>2, OneMorePart
    <2> QED BY <2>1, <2>3
  <1>7. n \in T
    <2> HIDE DEF T, n
    <2>1. \A i \in 0..n : i \in T
      BY <1>1, <1>5, <1>6, Upward
    <2> QED BY <1>1, <2>1
  <1> QED BY <1>2, <1>7

\* Part of a text stands behind the first p tokens.
Reads(text, p, part) ==
    /\ p \in Nat /\ p + Len(part) <= Len(text)
    /\ \A j \in 1..Len(part) : text[p + j] = part[j]

\* Where a whole stands in a text, each part stands at its place.
LEMMA PartsRead ==
  ASSUME NEW Tok, NEW text \in Seq(Tok), NEW parts \in Seq(Seq(Tok)), NEW p,
         Reads(text, p, Concat(parts)), NEW off, LaidOut(parts, Len(parts), Concat(parts), off),
         NEW k \in 1..Len(parts)
  PROVE  Reads(text, p + off[k - 1], parts[k])
  <1> DEFINE whole == Concat(parts)  part == parts[k]
  <1>1. /\ whole \in Seq(Tok) /\ part \in Seq(Tok) /\ Len(whole) \in Nat
        /\ Len(part) \in Nat /\ Len(text) \in Nat /\ Len(parts) \in Nat
    BY ConcatLaidOut
  <1>2. /\ off[k - 1] \in 0..Len(whole) /\ off[k] \in 0..Len(whole)
        /\ off[k] = off[k - 1] + Len(part)
        /\ \A j \in 1..Len(part) : whole[off[k - 1] + j] = part[j]
    BY <1>1 DEF LaidOut
  <1>3. /\ p \in Nat /\ p + Len(whole) <= Len(text)
        /\ \A j \in 1..Len(whole) : text[p + j] = whole[j]
    BY DEF Reads
  <1> DEFINE base == off[k - 1]
  <1> HIDE DEF whole, part, base
  <1>4. base \in Nat /\ base + Len(part) <= Len(whole)
    BY <1>1, <1>2 DEF base
  <1>5. ASSUME NEW j \in 1..Len(part) PROVE text[(p + base) + j] = part[j]
    <2>1. base + j \in 1..Len(whole) /\ p + (base + j) = (p + base) + j
      BY <1>1, <1>3, <1>4
    <2>2. whole[base + j] = part[j]
      BY <1>2 DEF base
    <2> QED BY <1>3, <2>1, <2>2
  <1>6. p + base \in Nat /\ (p + base) + Len(part) <= Len(text)
    BY <1>1, <1>3, <1>4
  <1>7. Reads(text, p + base, part)
    BY <1>5, <1>6 DEF Reads
  <1> QED BY <1>7 DEF base, part

-----------------------------------------------------------------------------
(* The state of the parser after each token.                                 *)

IsParseRun(text, n, run) ==
    run = [i \in 0..n |-> IF i = 0 THEN StartOfText ELSE Turn(text, run[i - 1], i)]

Parsed(text, run) ==
    run[0] = StartOfText /\ \A i \in 1..Len(text) : run[i] = Turn(text, run[i - 1], i)

\* parseCsv goes through the states of some such run.
LEMMA ParseRun ==
  ASSUME NEW text, Len(text) \in Nat
  PROVE  \E run : Parsed(text, run) /\
            ParseCsv(text) = IF run[Len(text)].field # <<>> \/ run[Len(text)].row # <<>>
                             THEN PushRow(run[Len(text)]).rows ELSE run[Len(text)].rows
  <1> DEFINE T == {n \in Nat : \E run : IsParseRun(text, n, run)}
  <1>1. 0 \in T
    <2>1. IsParseRun(text, 0, [i \in 0..0 |-> StartOfText])
      BY DEF IsParseRun
    <2> QED BY <2>1
  <1>2. ASSUME NEW n \in Nat, n \in T PROVE n + 1 \in T
    <2>1. PICK run : IsParseRun(text, n, run)
      BY <1>2
    <2> DEFINE more == [i \in 0..(n + 1) |->
                          IF i = n + 1 THEN Turn(text, run[n], i) ELSE run[i]]
    <2>2. ASSUME NEW i \in 0..(n + 1)
          PROVE  more[i] = IF i = 0 THEN StartOfText ELSE Turn(text, more[i - 1], i)
      <3>1. CASE i = n + 1
        BY <3>1
      <3>2. CASE i # n + 1
        <4>1. i \in 0..n /\ (i # 0 => i - 1 \in 0..n)
          BY <3>2
        <4>2. more[i] = run[i] /\ (i # 0 => more[i - 1] = run[i - 1])
          BY <4>1
        <4>3. run[i] = IF i = 0 THEN StartOfText ELSE Turn(text, run[i - 1], i)
          BY <2>1, <4>1 DEF IsParseRun
        <4> QED BY <4>2, <4>3
      <3> QED BY <3>1, <3>2
    <2>3. IsParseRun(text, n + 1, more)
      BY <2>2 DEF IsParseRun
    <2> QED BY <2>3
  <1>3. Len(text) \in T
    <2> DEFINE n == Len(text)
    <2> HIDE DEF T, n
    <2>1. \A i \in 0..(n - 1) : i \in T => i + 1 \in T
      BY <1>2
    <2>2. n \in Nat
      BY DEF n
    <2>3. \A i \in 0..n : i \in T
      BY <1>1, <2>1, <2>2, Upward
    <2> QED BY <2>2, <2>3 DEF n
  <1> DEFINE run == CHOOSE run : IsParseRun(text, Len(text), run)
  <1>4. IsParseRun(text, Len(text), run)
    BY <1>3
  <1>5. ParseCsv(text) = IF run[Len(text)].field # <<>> \/ run[Len(text)].row # <<>>
                         THEN PushRow(run[Len(text)]).rows ELSE run[Len(text)].rows
    BY DEF ParseCsv, IsParseRun
  <1> HIDE DEF run
  <1>6. Parsed(text, run)
    <2>1. \A i \in 0..Len(text) :
            run[i] = IF i = 0 THEN StartOfText ELSE Turn(text, run[i - 1], i)
      BY <1>4, Zenon DEF IsParseRun
    <2>2. 0 \in 0..Len(text) /\ \A i \in 1..Len(text) : i \in 0..Len(text) /\ i # 0
      OBVIOUS
    <2> QED BY <2>1, <2>2, Zenon DEF Parsed
  <1> QED BY <1>5, <1>6

\* The state, its fields one by one; between two turns nothing is skipped.
Full(rows, row, field, inQuotes, skip) ==
    [rows |-> rows, row |-> row, field |-> field, inQuotes |-> inQuotes, skip |-> skip]

State(rows, row, field, inQuotes) == Full(rows, row, field, inQuotes, FALSE)

\* A record with these five fields is known by them.
LEMMA IsFull ==
  ASSUME NEW t, t = [x \in DOMAIN t |-> t[x]],
         DOMAIN t = {"rows", "row", "field", "inQuotes", "skip"}
  PROVE  t = Full(t.rows, t.row, t.field, t.inQuotes, t.skip)
  BY DEF Full

\* The fields of a state.
LEMMA FullFields ==
  ASSUME NEW rows, NEW row, NEW field, NEW inQuotes, NEW skip,
         NEW st, st = Full(rows, row, field, inQuotes, skip)
  PROVE  /\ DOMAIN st = {"rows", "row", "field", "inQuotes", "skip"}
         /\ st.rows = rows /\ st.row = row /\ st.field = field
         /\ st.inQuotes = inQuotes /\ st.skip = skip
  BY DEF Full

\* What the assignments of parseCsv make of it.
SetField(st, new) == [st EXCEPT !.field = new]
SetQuotes(st, new) == [st EXCEPT !.inQuotes = new]
SetSkip(st, new) == [st EXCEPT !.skip = new]
EndField(st, new, none) == [st EXCEPT !.row = new, !.field = none]
EndRow(st, new, none) == [st EXCEPT !.rows = new, !.row = none]

\* One field set.
LEMMA FullChanged ==
  ASSUME NEW rows, NEW row, NEW field, NEW inQuotes, NEW skip, NEW new,
         NEW st, st = Full(rows, row, field, inQuotes, skip)
  PROVE  /\ SetField(st, new) = Full(rows, row, new, inQuotes, skip)
         /\ SetQuotes(st, new) = Full(rows, row, field, new, skip)
         /\ SetSkip(st, new) = Full(rows, row, field, inQuotes, new)
  <1>1. /\ DOMAIN st = {"rows", "row", "field", "inQuotes", "skip"}
        /\ st.rows = rows /\ st.row = row /\ st.field = field
        /\ st.inQuotes = inQuotes /\ st.skip = skip
    BY FullFields
  <1>2. SetField(st, new) = Full(rows, row, new, inQuotes, skip)
    <2> DEFINE t == SetField(st, new)
    <2>1. t = [x \in DOMAIN t |-> t[x]] /\ DOMAIN t = DOMAIN st
          /\ t.rows = rows /\ t.row = row /\ t.field = new
          /\ t.inQuotes = inQuotes /\ t.skip = skip
      BY <1>1 DEF SetField
    <2> HIDE DEF t
    <2>2. t = Full(rows, row, new, inQuotes, skip)
      BY <1>1, <2>1, IsFull
    <2> QED BY <2>2 DEF t
  <1>3. SetQuotes(st, new) = Full(rows, row, field, new, skip)
    <2> DEFINE t == SetQuotes(st, new)
    <2>1. t = [x \in DOMAIN t |-> t[x]] /\ DOMAIN t = DOMAIN st
          /\ t.rows = rows /\ t.row = row /\ t.field = field
          /\ t.inQuotes = new /\ t.skip = skip
      BY <1>1 DEF SetQuotes
    <2> HIDE DEF t
    <2>2. t = Full(rows, row, field, new, skip)
      BY <1>1, <2>1, IsFull
    <2> QED BY <2>2 DEF t
  <1>4. SetSkip(st, new) = Full(rows, row, field, inQuotes, new)
    <2> DEFINE t == SetSkip(st, new)
    <2>1. t = [x \in DOMAIN t |-> t[x]] /\ DOMAIN t = DOMAIN st
          /\ t.rows = rows /\ t.row = row /\ t.field = field
          /\ t.inQuotes = inQuotes /\ t.skip = new
      BY <1>1 DEF SetSkip
    <2> HIDE DEF t
    <2>2. t = Full(rows, row, field, inQuotes, new)
      BY <1>1, <2>1, IsFull
    <2> QED BY <2>2 DEF t
  <1> QED BY <1>2, <1>3, <1>4

\* Two fields set at once.
LEMMA FullEnded ==
  ASSUME NEW rows, NEW row, NEW field, NEW inQuotes, NEW skip, NEW new, NEW none,
         NEW st, st = Full(rows, row, field, inQuotes, skip)
  PROVE  /\ EndField(st, new, none) = Full(rows, new, none, inQuotes, skip)
         /\ EndRow(st, new, none) = Full(new, none, field, inQuotes, skip)
  <1>1. /\ DOMAIN st = {"rows", "row", "field", "inQuotes", "skip"}
        /\ st.rows = rows /\ st.row = row /\ st.field = field
        /\ st.inQuotes = inQuotes /\ st.skip = skip
    BY FullFields
  <1>5. EndField(st, new, none) = Full(rows, new, none, inQuotes, skip)
    <2> DEFINE t == EndField(st, new, none)
    <2>1. t = [x \in DOMAIN t |-> t[x]] /\ DOMAIN t = DOMAIN st
          /\ t.rows = rows /\ t.row = new /\ t.field = none
          /\ t.inQuotes = inQuotes /\ t.skip = skip
      BY <1>1 DEF EndField
    <2> HIDE DEF t
    <2>2. t = Full(rows, new, none, inQuotes, skip)
      BY <1>1, <2>1, IsFull
    <2> QED BY <2>2 DEF t
  <1>6. EndRow(st, new, none) = Full(new, none, field, inQuotes, skip)
    <2> DEFINE t == EndRow(st, new, none)
    <2>1. t = [x \in DOMAIN t |-> t[x]] /\ DOMAIN t = DOMAIN st
          /\ t.rows = new /\ t.row = none /\ t.field = field
          /\ t.inQuotes = inQuotes /\ t.skip = skip
      BY <1>1 DEF EndRow
    <2> HIDE DEF t
    <2>2. t = Full(new, none, field, inQuotes, skip)
      BY <1>1, <2>1, IsFull
    <2> QED BY <2>2 DEF t
  <1> QED BY <1>5, <1>6

\* Sequences under names of their own, as the lemmas pass them on.
None == <<>>
Longer(s, e) == Append(s, e)

\* A state that skips nothing, read field by field.
LEMMA StateFields ==
  ASSUME NEW rows, NEW row, NEW field, NEW inQuotes,
         NEW st, st = State(rows, row, field, inQuotes)
  PROVE  /\ st.rows = rows /\ st.row = row /\ st.field = field
         /\ st.inQuotes = inQuotes /\ ~st.skip
  BY DEF State, Full

\* currentField += char.
LEMMA Copied ==
  ASSUME NEW rows, NEW row, NEW field, NEW inQuotes, NEW token,
         NEW st, st = State(rows, row, field, inQuotes)
  PROVE  Copy(st, token) = State(rows, row, Longer(field, token), inQuotes)
  <1> DEFINE no == FALSE
  <1>1. \A u, v, w, q : State(u, v, w, q) = Full(u, v, w, q, no)
    BY DEF State
  <1> HIDE DEF no
  <1>2. st.field = field => Copy(st, token) = SetField(st, Longer(field, token))
    BY DEF Copy, SetField, Longer
  <1>3. st = Full(rows, row, field, inQuotes, no)
    BY <1>1
  <1>4. st.field = field
    BY <1>3, FullFields
  <1>5. Copy(st, token) = Full(rows, row, Longer(field, token), inQuotes, no)
    BY <1>2, <1>3, <1>4, FullChanged
  <1> QED BY <1>1, <1>5

\* currentRow.push and rows.push.
LEMMA Pushed ==
  ASSUME NEW rows, NEW row, NEW field, NEW inQuotes,
         NEW st, st = State(rows, row, field, inQuotes)
  PROVE  /\ PushField(st) = State(rows, Longer(row, field), None, inQuotes)
         /\ PushRow(st) = State(Longer(rows, Longer(row, field)), None, None, inQuotes)
  <1> DEFINE no == FALSE
  <1>a. \A u, v, w, q : State(u, v, w, q) = Full(u, v, w, q, no)
    BY DEF State
  <1> HIDE DEF no
  <1>d. /\ st.row = row /\ st.field = field =>
              PushField(st) = EndField(st, Longer(row, field), None)
        /\ \A pushed : pushed = PushField(st) /\ pushed.rows = rows
                          /\ pushed.row = Longer(row, field) =>
              PushRow(st) = EndRow(pushed, Longer(rows, Longer(row, field)), None)
    BY DEF PushField, PushRow, EndField, EndRow, Longer, None
  <1>c. st = Full(rows, row, field, inQuotes, no)
    BY <1>a
  <1>1. st.field = field /\ st.row = row /\ st.rows = rows
    BY <1>c, FullFields
  <1>3. PushField(st) = Full(rows, Longer(row, field), None, inQuotes, no)
    BY <1>c, <1>d, <1>1, FullEnded
  <1>4. PushRow(st) = Full(Longer(rows, Longer(row, field)), None, None, inQuotes, no)
    <2>1. PICK pushed : pushed = PushField(st)
      OBVIOUS
    <2>2. pushed = Full(rows, Longer(row, field), None, inQuotes, no)
      BY <1>3, <2>1
    <2>3. pushed.rows = rows /\ pushed.row = Longer(row, field)
      BY <2>2, FullFields
    <2>4. PushRow(st) = EndRow(pushed, Longer(rows, Longer(row, field)), None)
      BY <1>d, <2>1, <2>3
    <2> QED BY <2>2, <2>4, FullEnded
  <1> QED BY <1>a, <1>3, <1>4

Special == {Quote, Comma, CR, LF}

\* The tokens parseCsv branches on are told apart.
LEMMA SpecialsDiffer ==
  /\ Quote # Comma /\ Quote # CR /\ Quote # LF /\ Comma # CR /\ Comma # LF
  /\ CR # LF /\ Blank \notin Special
  BY DEF Quote, Comma, CR, LF, Blank, Special

\* What follows token i, if anything does.
Follows(text, i) == IF i < Len(text) THEN text[i + 1] ELSE Blank

Inside(rows, row, field) == State(rows, row, field, TRUE)
Outside(rows, row, field) == State(rows, row, field, FALSE)

\* A turn that skips nothing, by the state before it.
LEMMA TurnTaken ==
  ASSUME NEW text, NEW run, Parsed(text, run), NEW i \in 1..Len(text),
         NEW rows, NEW row, NEW field, NEW inQuotes,
         NEW st, st = run[i - 1], st = State(rows, row, field, inQuotes)
  PROVE  run[i] = IF inQuotes THEN InQuotes(st, text[i], Follows(text, i))
                  ELSE OutsideQuotes(st, text[i], Follows(text, i))
  <1>1. ~st.skip /\ st.inQuotes = inQuotes
    BY StateFields
  <1>2. run[i] = Turn(text, st, i)
    BY DEF Parsed
  <1> QED BY <1>1, <1>2 DEF Turn, Follows

\* A token that the one before it has taken along.
LEMMA TokenSkipped ==
  ASSUME NEW text, Len(text) \in Nat, NEW run, Parsed(text, run),
         NEW i \in 1..(Len(text) - 1), NEW rows, NEW row, NEW field, NEW inQuotes,
         NEW st, st = State(rows, row, field, inQuotes),
         run[i] = SetSkip(st, TRUE)
  PROVE  run[i + 1] = st
  <1> DEFINE yes == TRUE  no == FALSE
  <1>2. yes
    OBVIOUS
  <1>a. PICK s : s = run[i]
    OBVIOUS
  <1>1. st = Full(rows, row, field, inQuotes, no) /\ s = SetSkip(st, yes)
    BY <1>a DEF State
  <1>3. i + 1 \in 1..Len(text) /\ (i + 1) - 1 = i
    OBVIOUS
  <1>4. run[i + 1] = Turn(text, s, i + 1)
    BY <1>a, <1>3 DEF Parsed
  <1>5. s.skip => Turn(text, s, i + 1) = SetSkip(s, no)
    BY DEF Turn, SetSkip
  <1> HIDE DEF yes, no
  <1>6. s = Full(rows, row, field, inQuotes, yes)
    BY <1>1, FullChanged
  <1>7. s.skip = yes
    BY <1>6, FullFields
  <1>8. SetSkip(s, no) = Full(rows, row, field, inQuotes, no)
    BY <1>6, FullChanged
  <1> QED BY <1>1, <1>2, <1>4, <1>5, <1>7, <1>8

\* A turn between quotes.
LEMMA InsideTurn ==
  ASSUME NEW text, Len(text) \in Nat, NEW run, Parsed(text, run),
         NEW i \in 1..Len(text), NEW rows, NEW row, NEW field,
         run[i - 1] = Inside(rows, row, field)
  PROVE  /\ text[i] # Quote => run[i] = Inside(rows, row, Longer(field, text[i]))
         /\ text[i] = Quote /\ Follows(text, i) # Quote => run[i] = Outside(rows, row, field)
         /\ text[i] = Quote /\ i < Len(text) /\ text[i + 1] = Quote =>
               run[i + 1] = Inside(rows, row, Longer(field, Quote))
  <1> DEFINE yes == TRUE  no == FALSE
  <1>2. yes = TRUE /\ no = FALSE
    OBVIOUS
  <1>a. PICK st : st = run[i - 1]
    OBVIOUS
  <1>b. PICK token : token = text[i]
    OBVIOUS
  <1>c. PICK next : next = Follows(text, i)
    OBVIOUS
  <1>d. PICK quote : quote = Quote
    OBVIOUS
  <1>1. st = State(rows, row, field, yes)
    BY <1>a DEF Inside
  <1> HIDE DEF yes, no
  <1>3. run[i] = IF yes THEN InQuotes(st, token, next) ELSE OutsideQuotes(st, token, next)
    BY <1>a, <1>b, <1>c, <1>1, TurnTaken
  <1>4. run[i] = InQuotes(st, token, next)
    BY <1>2, <1>3
  <1>5. CASE token # Quote
    <2>1. run[i] = Copy(st, token)
      BY <1>4, <1>5 DEF InQuotes
    <2>2. Copy(st, token) = State(rows, row, Longer(field, token), yes)
      BY <1>1, Copied
    <2> QED BY <1>2, <1>5, <1>b, <2>1, <2>2 DEF Inside
  <1>6. CASE token = Quote /\ next # Quote
    <2>1. run[i] = SetQuotes(st, no)
      BY <1>2, <1>4, <1>6 DEF InQuotes, SetQuotes
    <2>2. st = Full(rows, row, field, yes, no)
      BY <1>1, <1>2 DEF State
    <2>3. SetQuotes(st, no) = Full(rows, row, field, no, no)
      BY <2>2, FullChanged
    <2>4. run[i] = Outside(rows, row, field)
      BY <1>2, <2>1, <2>3 DEF Outside, State
    <2>5. i < Len(text) => text[i + 1] = next
      BY <1>c DEF Follows
    <2> QED BY <1>6, <1>b, <1>c, <2>4, <2>5
  <1>7. CASE token = Quote /\ next = Quote /\ i < Len(text)
    <2>1. PICK copied : copied = Copy(st, quote)
      OBVIOUS
    <2>2. run[i] = SetSkip(copied, TRUE)
      BY <1>2, <1>4, <1>7, <1>d, <2>1 DEF InQuotes, SetSkip
    <2>3. copied = State(rows, row, Longer(field, quote), yes)
      BY <1>1, <2>1, Copied
    <2>4. i \in 1..(Len(text) - 1)
      BY <1>7
    <2>6. run[i + 1] = copied
      BY <1>2, <2>2, <2>3, <2>4, TokenSkipped
    <2> QED BY <1>2, <1>7, <1>b, <1>c, <1>d, <2>3, <2>6 DEF Inside
  <1>8. CASE token = Quote /\ next = Quote /\ ~(i < Len(text))
    BY <1>8, <1>b, <1>c
  <1> QED BY <1>5, <1>6, <1>7, <1>8

\* A turn outside of quotes.
LEMMA OutsideTurn ==
  ASSUME NEW text, Len(text) \in Nat, NEW run, Parsed(text, run),
         NEW i \in 1..Len(text), NEW rows, NEW row, NEW field,
         run[i - 1] = Outside(rows, row, field)
  PROVE  /\ text[i] \notin Special => run[i] = Outside(rows, row, Longer(field, text[i]))
         /\ text[i] = Quote => run[i] = Inside(rows, row, field)
         /\ text[i] = Comma => run[i] = Outside(rows, Longer(row, field), None)
         /\ text[i] = LF \/ (text[i] = CR /\ Follows(text, i) # LF) =>
               run[i] = Outside(Longer(rows, Longer(row, field)), None, None)
         /\ text[i] = CR /\ i < Len(text) /\ text[i + 1] = LF =>
               run[i + 1] = Outside(Longer(rows, Longer(row, field)), None, None)
  <1> DEFINE yes == TRUE  no == FALSE
  <1>2. yes = TRUE /\ no = FALSE
    OBVIOUS
  <1>a. PICK st : st = run[i - 1]
    OBVIOUS
  <1>b. PICK token : token = text[i]
    OBVIOUS
  <1>c. PICK next : next = Follows(text, i)
    OBVIOUS
  <1>1. st = State(rows, row, field, no)
    BY <1>a DEF Outside
  <1> HIDE DEF yes, no
  <1>3. run[i] = IF no THEN InQuotes(st, token, next) ELSE OutsideQuotes(st, token, next)
    BY <1>a, <1>b, <1>c, <1>1, TurnTaken
  <1>4. run[i] = OutsideQuotes(st, token, next)
    BY <1>2, <1>3
  <1>p. /\ Copy(st, token) = State(rows, row, Longer(field, token), no)
        /\ PushField(st) = State(rows, Longer(row, field), None, no)
        /\ PushRow(st) = State(Longer(rows, Longer(row, field)), None, None, no)
    BY <1>1, Copied, Pushed
  <1>e. \A u, v, w : State(u, v, w, no) = Outside(u, v, w)
    BY <1>2 DEF Outside
  <1>q. PICK ended : ended = PushRow(st)
    OBVIOUS
  <1>t. ended = State(Longer(rows, Longer(row, field)), None, None, no)
    BY <1>p, <1>q
  <1>u. ended = Outside(Longer(rows, Longer(row, field)), None, None)
    BY <1>2, <1>t DEF Outside
  <1>5. CASE token \notin Special
    <2>1. run[i] = Copy(st, token)
      BY <1>4, <1>5 DEF OutsideQuotes, Special
    <2>2. text[i] # Quote /\ text[i] # Comma /\ text[i] # LF /\ text[i] # CR
      BY <1>5, <1>b DEF Special
    <2>3. run[i] = Outside(rows, row, Longer(field, text[i]))
      BY <1>e, <1>b, <1>p, <2>1
    <2> QED BY <2>2, <2>3
  <1>6. CASE token = Quote
    <2>1. run[i] = SetQuotes(st, yes)
      BY <1>2, <1>4, <1>6, SpecialsDiffer DEF OutsideQuotes, SetQuotes
    <2>2. st = Full(rows, row, field, no, no)
      BY <1>1, <1>2 DEF State
    <2>3. SetQuotes(st, yes) = Full(rows, row, field, yes, no)
      BY <2>2, FullChanged
    <2>4. run[i] = Inside(rows, row, field)
      BY <1>2, <2>1, <2>3 DEF Inside, State
    <2> QED BY <1>6, <1>b, <2>4, SpecialsDiffer DEF Special
  <1>7. CASE token = Comma
    <2>1. run[i] = PushField(st)
      BY <1>4, <1>7, SpecialsDiffer DEF OutsideQuotes
    <2>2. run[i] = Outside(rows, Longer(row, field), None)
      BY <1>2, <1>p, <2>1 DEF Outside
    <2> QED BY <1>7, <1>b, <2>2, SpecialsDiffer DEF Special
  <1>8. CASE token = LF
    <2>1. run[i] = ended
      BY <1>4, <1>8, <1>q, SpecialsDiffer DEF OutsideQuotes
    <2> QED BY <1>8, <1>b, <1>u, <2>1, SpecialsDiffer DEF Special
  <1>9. CASE token = CR /\ next # LF
    <2>1. run[i] = SetSkip(ended, no)
      BY <1>2, <1>4, <1>9, <1>q, SpecialsDiffer DEF OutsideQuotes, SetSkip
    <2>2. ended = Full(Longer(rows, Longer(row, field)), None, None, no, no)
      BY <1>2, <1>t DEF State
    <2>3. SetSkip(ended, no) = Full(Longer(rows, Longer(row, field)), None, None, no, no)
      BY <2>2, FullChanged
    <2>4. run[i] = ended
      BY <2>1, <2>2, <2>3
    <2>5. i < Len(text) => text[i + 1] = next
      BY <1>c DEF Follows
    <2> QED BY <1>9, <1>b, <1>u, <2>4, <2>5, SpecialsDiffer DEF Special
  <1>10. CASE token = CR /\ next = LF
    <2>1. run[i] = SetSkip(ended, TRUE)
      BY <1>2, <1>4, <1>10, <1>q, SpecialsDiffer DEF OutsideQuotes, SetSkip
    <2>2. i \in 1..(Len(text) - 1)
      BY <1>10, <1>c, SpecialsDiffer DEF Follows, Special
    <2>3. run[i + 1] = ended
      BY <1>2, <1>t, <2>1, <2>2, TokenSkipped
    <2> QED BY <1>10, <1>b, <1>c, <1>u, <2>3, SpecialsDiffer DEF Special
  <1> QED BY <1>5, <1>6, <1>7, <1>8, <1>9, <1>10 DEF Special

-----------------------------------------------------------------------------
(* Fields, bare or in quotes.                                                *)

\* Whatever a text is made of.
Token == STRING \cup Special

Upto(s, m) == SubSeq(s, 1, m)

\* A prefix, one element longer.
LEMMA OneMore ==
  ASSUME NEW S, NEW s \in Seq(S), NEW m \in 0..(Len(s) - 1)
  PROVE  Upto(s, m + 1) = Longer(Upto(s, m), s[m + 1])
  BY DEF Upto, Longer

\* The first and the last prefix.
LEMMA WholeUpto ==
  ASSUME NEW S, NEW s \in Seq(S)
  PROVE  Upto(s, 0) = None /\ Upto(s, Len(s)) = s
  BY DEF Upto, None

\* A bare field is copied as it stands.
LEMMA BareRead ==
  ASSUME NEW text, Len(text) \in Nat, NEW run, Parsed(text, run), NEW rows, NEW row,
         NEW field \in Seq(Token), MayBeBare(field), NEW p, Reads(text, p, field),
         run[p] = Outside(rows, row, None)
  PROVE  run[p + Len(field)] = Outside(rows, row, field)
  <1> DEFINE n == Len(field)
             T == {m \in 0..n : run[p + m] = Outside(rows, row, Upto(field, m))}
  <1>1. n \in Nat /\ p \in Nat /\ p + n <= Len(text)
    BY DEF Reads
  <1>2. 0 \in T
    <2>1. p + 0 = p /\ 0 \in 0..n
      BY <1>1
    <2>2. Upto(field, 0) = None
      BY WholeUpto
    <2> QED BY <2>1, <2>2
  <1>3. ASSUME NEW m \in 0..(n - 1), m \in T PROVE m + 1 \in T
    <2> DEFINE i == p + (m + 1)  was == Upto(field, m)
    <2>1. /\ i \in 1..Len(text) /\ i - 1 = p + m /\ m + 1 \in 1..n /\ m + 1 \in 0..n
          /\ m \in 0..(Len(field) - 1)
      BY <1>1
    <2>2. text[i] = field[m + 1]
      BY <2>1 DEF Reads
    <2>3. text[i] \notin Special
      BY <2>1, <2>2 DEF MayBeBare, Special
    <2>4. run[i - 1] = Outside(rows, row, was)
      BY <1>3, <2>1
    <2>5. Upto(field, m + 1) = Longer(was, text[i])
      BY <2>1, <2>2, OneMore
    <2> HIDE DEF i, was
    <2>6. run[i] = Outside(rows, row, Longer(was, text[i]))
      BY <2>1, <2>3, <2>4, OutsideTurn
    <2>7. run[i] = Outside(rows, row, Upto(field, m + 1))
      BY <2>5, <2>6
    <2> QED BY <2>1, <2>7 DEF i
  <1>4. n \in T
    <2> HIDE DEF T, n
    <2>1. \A i \in 0..(n - 1) : i \in T => i + 1 \in T
      BY <1>3
    <2>2. \A i \in 0..n : i \in T
      BY <1>1, <1>2, <2>1, Upward
    <2> QED BY <1>1, <2>2
  <1> QED BY <1>4, WholeUpto

Doubled(t) == IF t = Quote THEN <<Quote, Quote>> ELSE <<t>>
DoubledAll(field) == [i \in 1..Len(field) |-> Doubled(field[i])]

\* A quoted field is its tokens, quotes doubled, between quotes.
LEMMA QuotedParts ==
  ASSUME NEW field \in Seq(Token)
  PROVE  /\ DoubledAll(field) \in Seq(Seq(Token)) /\ Len(DoubledAll(field)) = Len(field)
         /\ Quoted(field) = <<Quote>> \o Concat(DoubledAll(field)) \o <<Quote>>
  <1>1. Quoted(field) = <<Quote>> \o Concat(DoubledAll(field)) \o <<Quote>>
    BY DEF Quoted, DoubledAll, Doubled
  <1>2. ASSUME NEW t \in Token PROVE Doubled(t) \in Seq(Token)
    <2>1. ASSUME NEW S, NEW e \in S, NEW q \in S PROVE <<e>> \in Seq(S) /\ <<q, q>> \in Seq(S)
      OBVIOUS
    <2>2. Quote \in Token
      BY DEF Token, Special
    <2> QED BY <2>1, <2>2, Zenon DEF Doubled
  <1>3. \A i \in 1..Len(field) : field[i] \in Token
    OBVIOUS
  <1>4. Len(field) \in Nat
    OBVIOUS
  <1>5. DoubledAll(field) \in [1..Len(field) -> Seq(Token)]
    BY <1>2, <1>3 DEF DoubledAll
  <1>6. DoubledAll(field) \in Seq(Seq(Token)) /\ Len(DoubledAll(field)) = Len(field)
    <2> DEFINE all == DoubledAll(field)  n == Len(field)  S == Seq(Token)
    <2>1. n \in Nat /\ all \in [1..n -> S]
      BY <1>4, <1>5
    <2> HIDE DEF all, n, S
    <2>2. all \in Seq(S) /\ Len(all) = n
      BY <2>1
    <2> QED BY <2>2 DEF all, n, S
  <1> QED BY <1>1, <1>6

\* What stands between the quotes, and around them.
LEMMA AroundQuoted ==
  ASSUME NEW inner \in Seq(Token), NEW text, Len(text) \in Nat, NEW p,
         Reads(text, p, <<Quote>> \o inner \o <<Quote>>)
  PROVE  /\ p \in Nat /\ p + Len(inner) + 2 <= Len(text)
         /\ text[p + 1] = Quote /\ text[p + Len(inner) + 2] = Quote
         /\ Reads(text, p + 1, inner)
         /\ Len(<<Quote>> \o inner \o <<Quote>>) = Len(inner) + 2
  <1> DEFINE all == <<Quote>> \o inner \o <<Quote>>  n == Len(inner)
  <1>1. n \in Nat /\ Len(all) = n + 2
    OBVIOUS
  <1>2. all[1] = Quote /\ all[n + 2] = Quote /\ \A j \in 1..n : all[j + 1] = inner[j]
    OBVIOUS
  <1> HIDE DEF all, n
  <1>3. p \in Nat /\ p + Len(all) <= Len(text) /\ \A j \in 1..Len(all) : text[p + j] = all[j]
    BY DEF Reads, all
  <1>4. p + n + 2 <= Len(text) /\ p + n + 2 = p + (n + 2)
    BY <1>1, <1>3
  <1>5. text[p + 1] = Quote /\ text[p + n + 2] = Quote
    BY <1>1, <1>2, <1>3, <1>4
  <1>6. ASSUME NEW j \in 1..n PROVE text[(p + 1) + j] = inner[j]
    <2>1. j + 1 \in 1..Len(all) /\ (p + 1) + j = p + (j + 1)
      BY <1>1, <1>3
    <2> QED BY <1>2, <1>3, <2>1
  <1>7. p + 1 \in Nat /\ (p + 1) + n <= Len(text)
    BY <1>1, <1>3, <1>4
  <1>8. Reads(text, p + 1, inner)
    BY <1>6, <1>7 DEF Reads, n
  <1> QED BY <1>1, <1>3, <1>4, <1>5, <1>8 DEF n, all

\* The tokens between the quotes come to the field.
LEMMA InnerRead ==
  ASSUME NEW text \in Seq(Token), NEW run, Parsed(text, run), NEW rows, NEW row,
         NEW field \in Seq(Token), NEW p, Reads(text, p, Concat(DoubledAll(field))),
         run[p] = Inside(rows, row, None)
  PROVE  run[p + Len(Concat(DoubledAll(field)))] = Inside(rows, row, field)
  <1> DEFINE n == Len(field)  parts == DoubledAll(field)  whole == Concat(parts)
  <1>1. n \in Nat /\ p \in Nat /\ p + Len(whole) <= Len(text) /\ Len(text) \in Nat
    BY DEF Reads
  <1>2. parts \in Seq(Seq(Token)) /\ Len(parts) = n
    BY QuotedParts
  <1>3. PICK off : LaidOut(parts, n, whole, off)
    BY <1>2, ConcatLaidOut
  <1>4. whole \in Seq(Token) /\ Len(whole) \in Nat
    BY <1>2, ConcatLaidOut
  <1>a. Reads(text, p, Concat(parts)) /\ LaidOut(parts, Len(parts), Concat(parts), off)
    BY <1>2, <1>3
  <1> HIDE DEF parts, whole
  <1>b. \A k \in 1..Len(parts) : Reads(text, p + off[k - 1], parts[k])
    BY <1>2, <1>a, PartsRead
  <1>5. /\ off[0] = 0 /\ off[n] = Len(whole)
        /\ \A k \in 0..n : off[k] \in 0..Len(whole)
        /\ \A k \in 1..n : off[k] = off[k - 1] + Len(parts[k])
    BY <1>3 DEF LaidOut
  <1> DEFINE T == {m \in 0..n : run[p + off[m]] = Inside(rows, row, Upto(field, m))}
  <1>6. 0 \in T
    <2>1. p + off[0] = p /\ 0 \in 0..n
      BY <1>1, <1>5
    <2>2. Upto(field, 0) = None
      BY WholeUpto
    <2> QED BY <2>1, <2>2
  <1>7. ASSUME NEW m \in 0..(n - 1), m \in T PROVE m + 1 \in T
    <2> DEFINE k == m + 1  b == p + off[m]  was == Upto(field, m)  t == field[k]
    <2>1. k \in 1..n /\ k \in 0..n /\ k - 1 = m /\ m \in 0..(Len(field) - 1) /\ m \in 0..n
      BY <1>1
    <2>2. Reads(text, b, parts[k])
      BY <1>2, <1>b, <2>1
    <2>3. parts[k] = Doubled(t)
      BY <2>1 DEF parts, DoubledAll
    <2>4. b \in Nat /\ run[b] = Inside(rows, row, was)
      BY <1>1, <1>5, <1>7, <2>1
    <2>5. Upto(field, k) = Longer(was, t)
      BY <2>1, OneMore
    <2>6. off[k] = off[m] + Len(parts[k]) /\ off[m] \in Nat
      BY <1>4, <1>5, <2>1
    <2>7. p + off[k] = b + Len(parts[k])
      <3>1. \A x, y, z \in Nat : (x + y) + z = x + (y + z)
        OBVIOUS
      <3>2. Len(parts[k]) \in Nat
        BY <2>3 DEF Doubled
      <3> QED BY <1>1, <2>6, <3>1, <3>2
    <2> HIDE DEF k, b, was, t
    <2>8. CASE t = Quote
      <3>1. parts[k] = <<Quote, Quote>>
        BY <2>3, <2>8 DEF Doubled
      <3>2. Len(parts[k]) = 2 /\ parts[k][1] = Quote /\ parts[k][2] = Quote
        BY <3>1
      <3>3. b + 2 <= Len(text) /\ text[b + 1] = Quote /\ text[b + 2] = Quote
        BY <2>2, <3>2 DEF Reads
      <3> DEFINE i == b + 1
      <3>4. i \in 1..Len(text) /\ i - 1 = b /\ i < Len(text) /\ i + 1 = b + 2
        BY <1>1, <2>4, <3>3
      <3>5. text[i] = Quote /\ text[i + 1] = Quote /\ run[i - 1] = Inside(rows, row, was)
        BY <2>4, <3>3, <3>4
      <3> HIDE DEF i
      <3>6. run[i + 1] = Inside(rows, row, Longer(was, Quote))
        BY <1>1, <3>4, <3>5, InsideTurn
      <3>7. p + off[k] = i + 1
        BY <2>7, <3>2, <3>4
      <3> QED BY <2>1, <2>5, <2>8, <3>6, <3>7 DEF k
    <2>9. CASE t # Quote
      <3>1. parts[k] = <<t>>
        BY <2>3, <2>9 DEF Doubled
      <3>2. Len(parts[k]) = 1 /\ parts[k][1] = t
        BY <3>1
      <3>3. b + 1 <= Len(text) /\ text[b + 1] = t
        BY <2>2, <3>2 DEF Reads
      <3> DEFINE i == b + 1
      <3>4. i \in 1..Len(text) /\ i - 1 = b
        BY <1>1, <2>4, <3>3
      <3>5. text[i] = t /\ run[i - 1] = Inside(rows, row, was)
        BY <2>4, <3>3, <3>4
      <3>6. p + off[k] = i
        BY <2>7, <3>2
      <3> HIDE DEF i
      <3>7. run[i] = Inside(rows, row, Longer(was, t))
        BY SMTT(30), <1>1, <2>9, <3>4, <3>5, InsideTurn
      <3> QED BY <2>1, <2>5, <3>6, <3>7 DEF k
    <2> QED BY <2>8, <2>9
  <1>8. n \in T
    <2> HIDE DEF T, n
    <2>1. \A i \in 0..(n - 1) : i \in T => i + 1 \in T
      BY <1>7
    <2>2. \A i \in 0..n : i \in T
      BY <1>1, <1>6, <2>1, Upward
    <2> QED BY <1>1, <2>2
  <1>9. run[p + Len(whole)] = Inside(rows, row, field)
    BY <1>5, <1>8, WholeUpto
  <1> QED BY <1>9 DEF whole, parts

\* A field in quotes, if no quote follows it.
LEMMA QuotedRead ==
  ASSUME NEW text \in Seq(Token), NEW run, Parsed(text, run), NEW rows, NEW row,
         NEW field \in Seq(Token), NEW p, Reads(text, p, Quoted(field)),
         run[p] = Outside(rows, row, None),
         Follows(text, p + Len(Quoted(field))) # Quote
  PROVE  run[p + Len(Quoted(field))] = Outside(rows, row, field)
  <1> DEFINE inner == Concat(DoubledAll(field))  n == Len(inner)
  <1>1. inner \in Seq(Token)
    BY QuotedParts, ConcatLaidOut
  <1>2. Quoted(field) = <<Quote>> \o inner \o <<Quote>>
    BY QuotedParts
  <1>3. Len(text) \in Nat /\ n \in Nat
    BY <1>1
  <1> HIDE DEF inner
  <1>4. /\ p \in Nat /\ p + n + 2 <= Len(text)
        /\ text[p + 1] = Quote /\ text[p + n + 2] = Quote
        /\ Reads(text, p + 1, inner) /\ Len(Quoted(field)) = n + 2
    BY <1>1, <1>2, <1>3, AroundQuoted
  <1> DEFINE i == p + 1  j == p + n + 2
  <1>5. /\ i \in 1..Len(text) /\ i - 1 = p /\ j \in 1..Len(text) /\ j - 1 = i + n
        /\ j = p + Len(Quoted(field)) /\ text[i] = Quote /\ text[j] = Quote
        /\ Reads(text, i, inner)
    BY <1>3, <1>4
  <1> HIDE DEF i, j, n
  <1>6. run[i] = Inside(rows, row, None)
    BY <1>3, <1>5, OutsideTurn
  <1>7. run[i + n] = Inside(rows, row, field)
    BY <1>5, <1>6, InnerRead DEF inner, n
  <1>8. run[j] = Outside(rows, row, field)
    BY <1>3, <1>5, <1>7, InsideTurn
  <1> QED BY <1>5, <1>8

\* A field as it is written.
LEMMA FieldRead ==
  ASSUME NEW text \in Seq(Token), NEW run, Parsed(text, run), NEW rows, NEW row, NEW always,
         NEW field \in Seq(Token), NEW p, Reads(text, p, WriteField(field, always)),
         run[p] = Outside(rows, row, None),
         Follows(text, p + Len(WriteField(field, always))) # Quote
  PROVE  run[p + Len(WriteField(field, always))] = Outside(rows, row, field)
  <1>1. CASE ~always /\ MayBeBare(field)
    <2>1. WriteField(field, always) = field
      BY <1>1 DEF WriteField
    <2>2. Len(text) \in Nat
      OBVIOUS
    <2> QED BY <1>1, <2>1, <2>2, BareRead
  <1>2. CASE ~(~always /\ MayBeBare(field))
    <2>1. WriteField(field, always) = Quoted(field)
      BY <1>2 DEF WriteField
    <2> QED BY <2>1, QuotedRead
  <1> QED BY <1>1, <1>2

\* A written field is a text.
LEMMA FieldIsText ==
  ASSUME NEW field \in Seq(Token), NEW always
  PROVE  WriteField(field, always) \in Seq(Token)
  <1> DEFINE inner == Concat(DoubledAll(field))
  <1>1. inner \in Seq(Token)
    BY QuotedParts, ConcatLaidOut
  <1>2. Quoted(field) = <<Quote>> \o inner \o <<Quote>>
    BY QuotedParts
  <1> HIDE DEF inner
  <1>3. Quote \in Token
    BY DEF Token, Special
  <1>4. Quoted(field) \in Seq(Token)
    BY <1>1, <1>2, <1>3
  <1> QED BY <1>4 DEF WriteField

-----------------------------------------------------------------------------
(* Rows.                                                                     *)

\* What a row and a table are put together from.
RowPart(row, always, i) ==
    (IF i = 1 THEN <<>> ELSE <<Comma>>) \o WriteField(row[i], always)
RowParts(row, always) == [i \in 1..Len(row) |-> RowPart(row, always, i)]

\* A written row is its fields with commas between them.
LEMMA RowIsParts ==
  ASSUME NEW row \in Seq(Seq(Token)), NEW always
  PROVE  /\ WriteRow(row, always) = Concat(RowParts(row, always))
         /\ RowParts(row, always) \in Seq(Seq(Token)) /\ Len(RowParts(row, always)) = Len(row)
         /\ \A i \in 1..Len(row) : /\ row[i] \in Seq(Token)
                                   /\ WriteField(row[i], always) \in Seq(Token)
  <1>1. WriteRow(row, always) = Concat(RowParts(row, always))
    BY DEF WriteRow, RowParts, RowPart
  <1>2. ASSUME NEW i \in 1..Len(row)
        PROVE  row[i] \in Seq(Token) /\ WriteField(row[i], always) \in Seq(Token)
    BY FieldIsText
  <1>3. \A s \in Seq(Token) : <<>> \o s \in Seq(Token) /\ <<Comma>> \o s \in Seq(Token)
    <2>1. ASSUME NEW S, NEW e \in S, NEW s \in Seq(S) PROVE <<>> \o s \in Seq(S) /\ <<e>> \o s \in Seq(S)
      OBVIOUS
    <2>2. Comma \in Token
      BY DEF Token, Special
    <2> QED BY <2>1, <2>2, Zenon
  <1>4. ASSUME NEW i \in 1..Len(row) PROVE RowPart(row, always, i) \in Seq(Token)
    BY <1>2, <1>3 DEF RowPart
  <1> DEFINE all == RowParts(row, always)  n == Len(row)  S == Seq(Token)
  <1>5. n \in Nat /\ all \in [1..n -> S]
    BY <1>4 DEF RowParts
  <1> HIDE DEF all, n, S
  <1>6. all \in Seq(S) /\ Len(all) = n
    BY <1>5
  <1> QED BY <1>1, <1>2, <1>6 DEF all, n, S

\* A comma, and what stands behind it.
LEMMA BehindComma ==
  ASSUME NEW s \in Seq(Token), NEW text \in Seq(Token), NEW p, Reads(text, p, <<Comma>> \o s)
  PROVE  /\ p \in Nat /\ p + 1 \in 1..Len(text) /\ text[p + 1] = Comma
         /\ Reads(text, p + 1, s) /\ Len(<<Comma>> \o s) = Len(s) + 1
  <1> DEFINE all == <<Comma>> \o s  n == Len(s)
  <1>1. n \in Nat /\ Len(all) = n + 1 /\ Len(text) \in Nat
    OBVIOUS
  <1>2. all[1] = Comma /\ \A j \in 1..n : all[j + 1] = s[j]
    OBVIOUS
  <1> HIDE DEF all, n
  <1>3. p \in Nat /\ p + Len(all) <= Len(text) /\ \A j \in 1..Len(all) : text[p + j] = all[j]
    BY DEF Reads, all
  <1>4. text[p + 1] = Comma /\ p + 1 \in 1..Len(text)
    BY <1>1, <1>2, <1>3
  <1>5. ASSUME NEW j \in 1..n PROVE text[(p + 1) + j] = s[j]
    <2>1. j + 1 \in 1..Len(all) /\ (p + 1) + j = p + (j + 1)
      BY <1>1, <1>3
    <2> QED BY <1>2, <1>3, <2>1
  <1>6. p + 1 \in Nat /\ (p + 1) + n <= Len(text)
    BY <1>1, <1>3
  <1>7. Reads(text, p + 1, s)
    BY <1>5, <1>6 DEF Reads, n
  <1> QED BY <1>1, <1>3, <1>4, <1>7 DEF n, all

\* A row as it is written, up to its end.
LEMMA RowRead ==
  ASSUME NEW text \in Seq(Token), NEW run, Parsed(text, run), NEW rows, NEW always,
         NEW row \in Seq(Seq(Token)), row # <<>>, NEW p, Reads(text, p, WriteRow(row, always)),
         run[p] = Outside(rows, None, None),
         Follows(text, p + Len(WriteRow(row, always))) # Quote
  PROVE  run[p + Len(WriteRow(row, always))] =
            Outside(rows, Upto(row, Len(row) - 1), row[Len(row)])
  <1> DEFINE n == Len(row)  parts == RowParts(row, always)  whole == Concat(parts)
  <1>0. WriteRow(row, always) = whole
    BY RowIsParts
  <1>1. n \in Nat /\ p \in Nat /\ p + Len(whole) <= Len(text) /\ Len(text) \in Nat /\ n >= 1
    BY <1>0 DEF Reads
  <1>2. parts \in Seq(Seq(Token)) /\ Len(parts) = n
    BY RowIsParts
  <1>3. PICK off : LaidOut(parts, n, whole, off)
    BY <1>2, ConcatLaidOut
  <1>4. whole \in Seq(Token) /\ Len(whole) \in Nat
    BY <1>2, ConcatLaidOut
  <1>a. Reads(text, p, Concat(parts)) /\ LaidOut(parts, Len(parts), Concat(parts), off)
    BY <1>0, <1>2, <1>3
  <1>c. Follows(text, p + Len(whole)) # Quote
    BY <1>0
  <1> HIDE DEF parts, whole
  <1>b. \A k \in 1..Len(parts) : Reads(text, p + off[k - 1], parts[k])
    BY <1>2, <1>a, PartsRead
  <1>5. /\ off[0] = 0 /\ off[n] = Len(whole)
        /\ \A k \in 0..n : off[k] \in 0..Len(whole)
        /\ \A k \in 1..n : off[k] = off[k - 1] + Len(parts[k])
    BY <1>3 DEF LaidOut
  <1>6. \A k \in 1..n : k # 1 => parts[k] = <<Comma>> \o WriteField(row[k], always)
    BY DEF parts, RowParts, RowPart
  <1>7. parts[1] = WriteField(row[1], always)
    <2>1. 1 \in 1..Len(row)
      BY <1>1
    <2>2. parts[1] = <<>> \o WriteField(row[1], always)
      BY <2>1 DEF parts, RowParts, RowPart
    <2>3. WriteField(row[1], always) \in Seq(Token)
      BY <2>1, RowIsParts
    <2> QED BY <2>2, <2>3
  \* No quote follows a field.
  <1>8. ASSUME NEW k \in 1..n PROVE Follows(text, p + off[k]) # Quote
    <2>1. CASE k = n
      BY <1>5, <1>c, <2>1
    <2>2. CASE k # n
      <3> DEFINE m == k + 1  b == p + off[k]  s == WriteField(row[m], always)
      <3>1. m \in 1..n /\ m # 1 /\ m - 1 = k /\ k \in 0..n
        BY <1>1, <2>2
      <3>2. Reads(text, b, <<Comma>> \o s)
        BY <1>2, <1>6, <1>b, <3>1
      <3>3. s \in Seq(Token)
        BY <3>1, RowIsParts
      <3> HIDE DEF m, b, s
      <3>4. b \in Nat /\ b + 1 \in 1..Len(text) /\ text[b + 1] = Comma
        BY <3>2, <3>3, BehindComma
      <3>5. b < Len(text)
        BY <1>1, <3>4
      <3> QED BY <3>4, <3>5, SpecialsDiffer DEF Follows, b
    <2> QED BY <2>1, <2>2
  <1> DEFINE T == {m \in 1..n : run[p + off[m]] = Outside(rows, Upto(row, m - 1), row[m])}
  <1>9. 1 \in T
    <2> DEFINE s == WriteField(row[1], always)  field == row[1]
    <2>1. 1 \in 1..n /\ 1 - 1 = 0 /\ p + off[0] = p
      BY <1>1, <1>5
    <2>2. off[1] = Len(s)
      <3>1. Len(s) \in Nat
        BY <2>1, RowIsParts
      <3> QED BY <1>5, <1>7, <2>1, <3>1
    <2>3. Reads(text, p, WriteField(field, always))
      BY <1>2, <1>7, <1>b, <2>1
    <2>4. field \in Seq(Token) /\ Follows(text, p + Len(WriteField(field, always))) # Quote
      BY <1>8, <2>1, <2>2, RowIsParts
    <2> HIDE DEF field
    <2>5. run[p + Len(WriteField(field, always))] = Outside(rows, None, field)
      BY <2>3, <2>4, FieldRead
    <2>6. Upto(row, 0) = None
      BY WholeUpto
    <2>7. run[p + off[1]] = Outside(rows, Upto(row, 1 - 1), row[1])
      BY <2>1, <2>2, <2>5, <2>6 DEF field
    <2> QED BY <2>1, <2>7
  <1>10. ASSUME NEW l \in 1..(n - 1), l \in T PROVE l + 1 \in T
    <2> DEFINE m == l + 1  b == p + off[l]  field == row[m]
               was == Upto(row, l - 1)  last == row[l]
    <2>1. /\ m \in 1..n /\ m # 1 /\ m - 1 = l /\ l \in 0..n /\ (l - 1) + 1 = l
          /\ l - 1 \in 0..(Len(row) - 1) /\ l \in 1..n
      BY <1>1
    <2>2. Reads(text, b, <<Comma>> \o WriteField(field, always))
      BY <1>2, <1>6, <1>b, <2>1
    <2>3. field \in Seq(Token) /\ WriteField(field, always) \in Seq(Token)
      BY <2>1, RowIsParts
    <2>4. run[b] = Outside(rows, was, last)
      BY <1>10
    <2>5. Upto(row, l) = Longer(was, last)
      BY <2>1, OneMore
    <2>6. off[m] = off[l] + Len(<<Comma>> \o WriteField(field, always)) /\ off[l] \in Nat
      <3>1. parts[m] = <<Comma>> \o WriteField(field, always)
        BY <1>6, <2>1
      <3>2. off[m] = off[m - 1] + Len(parts[m]) /\ off[l] \in 0..Len(whole)
        BY <1>5, <2>1
      <3>3. m - 1 = l /\ off[l] \in Nat
        BY <1>4, <2>1, <3>2
      <3> HIDE DEF m, field
      <3> QED BY <3>1, <3>2, <3>3
    <2>7. Follows(text, p + off[m]) # Quote
      BY <1>8, <2>1
    <2>8. run[p + off[m]] = Outside(rows, Upto(row, m - 1), row[m]) => m \in T
      BY <2>1
    <2>b. b = p + off[l]
      OBVIOUS
    <2> HIDE DEF T, m, b, field, was, last
    <2>9. /\ b \in Nat /\ b + 1 \in 1..Len(text) /\ text[b + 1] = Comma
          /\ Reads(text, b + 1, WriteField(field, always))
          /\ Len(<<Comma>> \o WriteField(field, always)) = Len(WriteField(field, always)) + 1
      BY <2>2, <2>3, BehindComma
    <2> DEFINE i == b + 1  s == WriteField(field, always)
    <2>10. i - 1 = b /\ p + off[m] = i + Len(s)
      <3>1. Len(s) \in Nat
        BY <2>3
      <3> DEFINE x == off[l]  y == Len(s)  z == Len(<<Comma>> \o s)
      <3>2. x \in Nat /\ y \in Nat /\ z = y + 1 /\ off[m] = x + z /\ b = p + x
        BY <2>6, <2>9, <2>b, <3>1
      <3>4. i = b + 1 /\ y = Len(s)
        OBVIOUS
      <3> HIDE DEF x, y, z, i, s
      <3>3. b + 1 - 1 = b /\ p + off[m] = (b + 1) + y
        BY <1>1, <2>9, <3>2
      <3>5. i - 1 = b
        BY <2>9, <3>4
      <3>6. p + off[m] = i + Len(s)
        BY <3>3, <3>4, Zenon
      <3> QED BY <3>5, <3>6, Zenon
    <2>c. i \in 1..Len(text) /\ text[i] = Comma /\ Reads(text, i, s)
      BY <2>9
    <2>d. run[i - 1] = Outside(rows, was, last)
      BY <2>4, <2>10
    <2> HIDE DEF i, s
    <2>11. run[i] = Outside(rows, Longer(was, last), None)
      BY <1>1, <2>c, <2>d, OutsideTurn
    <2>12. run[i + Len(s)] = Outside(rows, Longer(was, last), field)
      <3>1. Follows(text, i + Len(s)) # Quote
        BY <2>7, <2>10
      <3>2. PICK longer : longer = Longer(was, last)
        OBVIOUS
      <3>3. run[i] = Outside(rows, longer, None)
        BY <2>11, <3>2
      <3>5. Reads(text, i, WriteField(field, always))
        BY <2>c, Zenon DEF s
      <3>6. Follows(text, i + Len(WriteField(field, always))) # Quote
        BY <3>1, Zenon DEF s
      <3>7. field \in Seq(Token)
        BY <2>3, Zenon
      <3>8. text \in Seq(Token) /\ Parsed(text, run)
        OBVIOUS
      <3>9. run[i + Len(WriteField(field, always))] = Outside(rows, longer, field)
        BY <3>5, <3>6, <3>7, <3>8, <3>3, FieldRead
      <3>4. run[i + Len(s)] = Outside(rows, longer, field)
        BY <3>9, Zenon DEF s
      <3> QED BY <3>2, <3>4
    <2>13. run[p + off[m]] = Outside(rows, Upto(row, m - 1), row[m])
      BY <2>1, <2>5, <2>10, <2>12 DEF field
    <2> QED BY <2>8, <2>13 DEF m
  <1>11. n \in T
    <2> HIDE DEF T, n
    <2>1. \A i \in 1..(n - 1) : i \in T => i + 1 \in T
      BY <1>10
    <2>2. \A i \in 1..n : i \in T
      BY <1>1, <1>9, <2>1, Upward
    <2> QED BY <1>1, <2>2
  <1>12. run[p + Len(whole)] = Outside(rows, Upto(row, n - 1), row[n])
    BY <1>5, <1>11
  <1> QED BY <1>0, <1>12

\* No row starts with an LF, so none is taken for the rest of a line end.
StartsWell(s) == Len(s) >= 1 => s[1] # LF

\* A written field starts with its own token or a quote.
LEMMA FieldStartsWell ==
  ASSUME NEW field \in Seq(Token), NEW always
  PROVE  StartsWell(WriteField(field, always))
  <1>1. CASE ~always /\ MayBeBare(field)
    <2>1. WriteField(field, always) = field
      BY <1>1 DEF WriteField
    <2>2. Len(field) >= 1 => 1 \in 1..Len(field)
      OBVIOUS
    <2> QED BY <1>1, <2>1, <2>2 DEF MayBeBare, StartsWell
  <1>2. CASE ~(~always /\ MayBeBare(field))
    <2> DEFINE inner == Concat(DoubledAll(field))
    <2>1. WriteField(field, always) = <<Quote>> \o inner \o <<Quote>>
      BY <1>2, QuotedParts DEF WriteField
    <2>2. inner \in Seq(Token)
      BY QuotedParts, ConcatLaidOut
    <2> HIDE DEF inner
    <2>3. (<<Quote>> \o inner \o <<Quote>>)[1] = Quote
      BY <2>2
    <2> QED BY <2>1, <2>3, SpecialsDiffer DEF StartsWell
  <1> QED BY <1>1, <1>2

\* A written row is a text that does not start with an LF.
LEMMA RowStartsWell ==
  ASSUME NEW row \in Seq(Seq(Token)), row # <<>>, NEW always
  PROVE  StartsWell(WriteRow(row, always)) /\ WriteRow(row, always) \in Seq(Token)
  <1> DEFINE n == Len(row)  parts == RowParts(row, always)  whole == Concat(parts)
  <1>0. WriteRow(row, always) = whole
    BY RowIsParts
  <1>1. n \in Nat /\ n >= 1
    OBVIOUS
  <1>2. parts \in Seq(Seq(Token)) /\ Len(parts) = n
    BY RowIsParts
  <1>3. PICK off : LaidOut(parts, n, whole, off)
    BY <1>2, ConcatLaidOut
  <1>4. whole \in Seq(Token) /\ Len(whole) \in Nat
    BY <1>2, ConcatLaidOut
  <1>5. \A k \in 1..n : k # 1 => parts[k] = <<Comma>> \o WriteField(row[k], always)
    BY DEF RowParts, RowPart
  <1>6. parts[1] = WriteField(row[1], always) /\ row[1] \in Seq(Token)
    <2>1. 1 \in 1..Len(row)
      BY <1>1
    <2>2. parts[1] = <<>> \o WriteField(row[1], always)
      BY <2>1 DEF RowParts, RowPart
    <2>3. WriteField(row[1], always) \in Seq(Token)
      BY <2>1, RowIsParts
    <2> QED BY <2>1, <2>2, <2>3
  <1>7. StartsWell(parts[1])
    BY <1>6, FieldStartsWell
  <1>8. \A k \in 1..n : Len(parts[k]) \in Nat
    BY <1>2
  <1> HIDE DEF parts, whole
  <1>9. /\ off[0] = 0 /\ off[n] = Len(whole)
        /\ \A k \in 1..n : /\ off[k] = off[k - 1] + Len(parts[k])
                           /\ \A j \in 1..Len(parts[k]) : whole[off[k - 1] + j] = parts[k][j]
    BY <1>3 DEF LaidOut
  <1>10. ASSUME Len(whole) >= 1 PROVE whole[1] # LF
    <2>1. off[1] = Len(parts[1]) /\ \A j \in 1..Len(parts[1]) : whole[j] = parts[1][j]
      <3>1. 1 \in 1..n /\ 1 - 1 = 0
        BY <1>1
      <3>2. \A j \in 1..Len(parts[1]) : 0 + j = j
        BY <1>8, <3>1
      <3> QED BY <1>8, <1>9, <3>1, <3>2
    <2>2. CASE Len(parts[1]) >= 1
      <3>1. 1 \in 1..Len(parts[1])
        BY <1>1, <1>8, <2>2
      <3> QED BY <1>7, <2>1, <2>2, <3>1 DEF StartsWell
    <2>3. CASE ~(Len(parts[1]) >= 1)
      <3> DEFINE s == WriteField(row[2], always)
      <3>1. off[1] = 0
        BY <1>1, <1>8, <2>1, <2>3
      <3> HIDE DEF n
      <3>2. n # 1
        BY <1>4, <1>9, <1>10, <3>1
      <3>3. 2 \in 1..n /\ 2 # 1 /\ 2 - 1 = 1
        BY <1>1, <3>2
      <3> USE DEF n
      <3>4. parts[2] = <<Comma>> \o s /\ s \in Seq(Token)
        BY <1>5, <3>3, RowIsParts
      <3> HIDE DEF s
      <3>5. parts[2][1] = Comma /\ 1 \in 1..Len(parts[2])
        BY <3>4
      <3>6. whole[0 + 1] = Comma
        BY <1>9, <3>1, <3>3, <3>5
      <3> QED BY <3>6, SpecialsDiffer
    <2> QED BY <2>2, <2>3
  <1> QED BY <1>0, <1>4, <1>10 DEF StartsWell

\* The end of a line ends the row.
LineEnds == {<<LF>>, <<CR, LF>>, <<CR>>}

\* Any of the three line ends pushes the row and leaves nothing behind.
LEMMA RowEnded ==
  ASSUME NEW text \in Seq(Token), NEW run, Parsed(text, run), NEW rows,
         NEW row \in Seq(Seq(Token)), row # <<>>, NEW p, NEW lineEnd \in LineEnds,
         Reads(text, p, lineEnd), run[p] = Outside(rows, Upto(row, Len(row) - 1), row[Len(row)]),
         lineEnd = <<CR>> => Follows(text, p + 1) # LF
  PROVE  run[p + Len(lineEnd)] = Outside(Longer(rows, row), None, None)
  <1> DEFINE i == p + 1  n == Len(row)  was == Upto(row, n - 1)  last == row[n]
  <1>1. n \in Nat /\ n >= 1 /\ Len(text) \in Nat
    OBVIOUS
  <1>2. Longer(was, last) = row
    <2>1. n - 1 \in 0..(Len(row) - 1) /\ (n - 1) + 1 = n
      BY <1>1
    <2>2. Upto(row, (n - 1) + 1) = Longer(was, row[(n - 1) + 1])
      BY <2>1, OneMore
    <2>3. Upto(row, n) = row
      BY WholeUpto
    <2> HIDE DEF was
    <2> QED BY <2>1, <2>2, <2>3
  <1>3. run[p] = Outside(rows, was, last)
    OBVIOUS
  <1> HIDE DEF was, last, n
  <1>4. p \in Nat /\ p + Len(lineEnd) <= Len(text)
        /\ \A j \in 1..Len(lineEnd) : text[p + j] = lineEnd[j]
    BY DEF Reads
  <1>5. i \in Nat /\ i - 1 = p
    BY <1>4
  <1>6. CASE lineEnd = <<LF>>
    <2>1. Len(lineEnd) = 1 /\ lineEnd[1] = LF
      BY <1>6
    <2>2. i \in 1..Len(text) /\ text[i] = LF /\ run[i - 1] = Outside(rows, was, last)
      BY <1>1, <1>3, <1>4, <1>5, <2>1
    <2>3. p + Len(lineEnd) = i
      BY <2>1
    <2> HIDE DEF i
    <2>4. run[i] = Outside(Longer(rows, Longer(was, last)), None, None)
      BY <1>1, <2>2, OutsideTurn
    <2> QED BY <1>2, <2>3, <2>4
  <1>7. CASE lineEnd = <<CR>>
    <2>1. Len(lineEnd) = 1 /\ lineEnd[1] = CR
      BY <1>7
    <2>2. /\ i \in 1..Len(text) /\ text[i] = CR /\ run[i - 1] = Outside(rows, was, last)
          /\ Follows(text, i) # LF
      BY <1>1, <1>3, <1>4, <1>5, <1>7, <2>1
    <2>3. p + Len(lineEnd) = i
      BY <2>1
    <2> HIDE DEF i
    <2>4. run[i] = Outside(Longer(rows, Longer(was, last)), None, None)
      BY <1>1, <2>2, OutsideTurn
    <2> QED BY <1>2, <2>3, <2>4
  <1>8. CASE lineEnd = <<CR, LF>>
    <2>1. Len(lineEnd) = 2 /\ lineEnd[1] = CR /\ lineEnd[2] = LF
      BY <1>8
    <2>2. /\ i \in 1..Len(text) /\ text[i] = CR /\ run[i - 1] = Outside(rows, was, last)
          /\ i < Len(text) /\ text[i + 1] = LF
      <3>1. i + 1 = p + 2 /\ p + 2 <= Len(text)
        BY <1>4, <2>1
      <3>2. text[p + 1] = CR /\ text[p + 2] = LF
        BY <1>4, <2>1
      <3>3. i \in 1..Len(text) /\ i < Len(text)
        BY <1>1, <1>4, <2>1
      <3>4. text[i + 1] = LF
        BY <3>1, <3>2, Zenon
      <3>5. run[i - 1] = Outside(rows, was, last)
        BY <1>3, <1>5, Zenon
      <3> QED BY <3>2, <3>3, <3>4, <3>5
    <2>3. p + Len(lineEnd) = i + 1
      BY <1>4, <2>1
    <2> HIDE DEF i
    <2>4. run[i + 1] = Outside(Longer(rows, Longer(was, last)), None, None)
      BY <1>1, <2>2, OutsideTurn
    <2> QED BY <1>2, <2>3, <2>4
  <1> QED BY <1>6, <1>7, <1>8 DEF LineEnds

-----------------------------------------------------------------------------
(* Tables.                                                                   *)

\* Two texts, one behind the other.
LEMMA BothRead ==
  ASSUME NEW a \in Seq(Token), NEW b \in Seq(Token), NEW text \in Seq(Token), NEW p,
         Reads(text, p, a \o b)
  PROVE  Reads(text, p, a) /\ Reads(text, p + Len(a), b) /\ Len(a \o b) = Len(a) + Len(b)
  <1> DEFINE all == a \o b  m == Len(a)  n == Len(b)
  <1>1. m \in Nat /\ n \in Nat /\ Len(all) = m + n /\ Len(text) \in Nat
    OBVIOUS
  <1>2. (\A j \in 1..m : all[j] = a[j]) /\ \A j \in 1..n : all[m + j] = b[j]
    OBVIOUS
  <1> HIDE DEF all, m, n
  <1>3. p \in Nat /\ p + Len(all) <= Len(text) /\ \A j \in 1..Len(all) : text[p + j] = all[j]
    BY DEF Reads, all
  <1>4. Reads(text, p, a)
    <2>1. \A j \in 1..m : j \in 1..Len(all)
      BY <1>1
    <2>2. p + m <= Len(text)
      BY <1>1, <1>3
    <2> QED BY <1>2, <1>3, <2>1, <2>2 DEF Reads, m
  <1>5. Reads(text, p + m, b)
    <2>1. ASSUME NEW j \in 1..n PROVE text[(p + m) + j] = b[j]
      <3>1. m + j \in 1..Len(all) /\ (p + m) + j = p + (m + j)
        BY <1>1, <1>3
      <3> QED BY <1>2, <1>3, <3>1
    <2>2. p + m \in Nat /\ (p + m) + n <= Len(text)
      BY <1>1, <1>3
    <2> QED BY <2>1, <2>2 DEF Reads, n
  <1> QED BY <1>1, <1>4, <1>5 DEF all, m, n

LineEnd(table, lineEnd, closed, i) == IF i < Len(table) \/ closed THEN lineEnd ELSE <<>>
TablePart(table, always, lineEnd, closed, i) ==
    WriteRow(table[i], always) \o LineEnd(table, lineEnd, closed, i)
TableParts(table, always, lineEnd, closed) ==
    [i \in 1..Len(table) |-> TablePart(table, always, lineEnd, closed, i)]

\* A text is its lines with their ends.
LEMMA TableIsParts ==
  ASSUME NEW table \in Seq(Seq(Seq(Token))), \A i \in 1..Len(table) : table[i] # <<>>,
         NEW always, NEW closed, NEW lineEnd \in LineEnds
  PROVE  /\ WriteCsv(table, always, lineEnd, closed)
              = Concat(TableParts(table, always, lineEnd, closed))
         /\ TableParts(table, always, lineEnd, closed) \in Seq(Seq(Token))
         /\ Len(TableParts(table, always, lineEnd, closed)) = Len(table)
         /\ lineEnd \in Seq(Token) /\ Len(lineEnd) \in Nat /\ Len(lineEnd) >= 1
         /\ lineEnd[1] # Quote /\ lineEnd # <<>>
         /\ \A i \in 1..Len(table) :
               /\ table[i] \in Seq(Seq(Token)) /\ WriteRow(table[i], always) \in Seq(Token)
               /\ StartsWell(WriteRow(table[i], always))
  <1>1. WriteCsv(table, always, lineEnd, closed)
              = Concat(TableParts(table, always, lineEnd, closed))
    BY DEF WriteCsv, TableParts, TablePart, LineEnd
  <1>2. ASSUME NEW i \in 1..Len(table)
        PROVE  /\ table[i] \in Seq(Seq(Token)) /\ WriteRow(table[i], always) \in Seq(Token)
               /\ StartsWell(WriteRow(table[i], always))
    BY RowStartsWell
  <1>3. /\ lineEnd \in Seq(Token) /\ Len(lineEnd) \in Nat /\ Len(lineEnd) >= 1
        /\ lineEnd[1] # Quote /\ lineEnd # <<>>
    <2>1. LF \in Token /\ CR \in Token
      BY DEF Token, Special
    <2>2. ASSUME NEW S, NEW e \in S, NEW d \in S
          PROVE  /\ <<e>> \in Seq(S) /\ <<e, d>> \in Seq(S)
                 /\ Len(<<e>>) = 1 /\ Len(<<e, d>>) = 2 /\ <<e>>[1] = e /\ <<e, d>>[1] = e
                 /\ <<e>> # <<>> /\ <<e, d>> # <<>>
      OBVIOUS
    <2>3. /\ <<LF>> \in Seq(Token) /\ <<CR>> \in Seq(Token) /\ <<CR, LF>> \in Seq(Token)
      BY <2>1, <2>2, Zenon
    <2>4. CASE lineEnd = <<LF>>
      BY <2>3, <2>4, SpecialsDiffer
    <2>5. CASE lineEnd = <<CR>>
      BY <2>3, <2>5, SpecialsDiffer
    <2>6. CASE lineEnd = <<CR, LF>>
      BY <2>3, <2>6, SpecialsDiffer
    <2> QED BY <2>4, <2>5, <2>6 DEF LineEnds
  <1>4. \A s, t \in Seq(Token) : s \o t \in Seq(Token) /\ <<>> \in Seq(Token)
    OBVIOUS
  <1>5. ASSUME NEW i \in 1..Len(table)
        PROVE  TablePart(table, always, lineEnd, closed, i) \in Seq(Token)
    BY <1>2, <1>3, <1>4 DEF TablePart, LineEnd
  <1> DEFINE all == TableParts(table, always, lineEnd, closed)  n == Len(table)  S == Seq(Token)
  <1>6. n \in Nat /\ all \in [1..n -> S]
    BY <1>5 DEF TableParts
  <1> HIDE DEF all, n, S
  <1>7. all \in Seq(S) /\ Len(all) = n
    BY <1>6
  <1> QED BY <1>1, <1>2, <1>3, <1>7 DEF all, n, S

\* What follows a line end is no LF, what follows an unclosed row nothing.
LEMMA NextStartsWell ==
  ASSUME NEW s \in Seq(Token), StartsWell(s), NEW e \in Seq(Token),
         e = <<>> \/ e[1] # LF, NEW text \in Seq(Token), NEW p, Reads(text, p, s \o e),
         s \o e # <<>> \/ p = Len(text)
  PROVE  Follows(text, p) # LF
  <1> DEFINE all == s \o e
  <1>1. p \in Nat /\ p + Len(all) <= Len(text) /\ \A j \in 1..Len(all) : text[p + j] = all[j]
    BY DEF Reads
  <1>2. Len(s) \in Nat /\ Len(e) \in Nat /\ Len(text) \in Nat
    OBVIOUS
  <1>3. CASE all = <<>>
    <2>1. ~(p < Len(text))
      BY <1>1, <1>2, <1>3
    <2> QED BY <2>1, SpecialsDiffer DEF Follows, Special
  <1>4. CASE all # <<>>
    <2>1. Len(all) \in Nat /\ Len(all) >= 1
      BY <1>4
    <2>2. all[1] # LF
      <3>1. CASE Len(s) >= 1
        <4>1. all[1] = s[1]
          BY <1>2, <3>1
        <4> QED BY <3>1, <4>1 DEF StartsWell
      <3>2. CASE ~(Len(s) >= 1)
        <4>1. s = <<>>
          BY <1>2, <3>2
        <4>2. all = e
          BY <4>1
        <4> QED BY <1>4, <4>2
      <3> QED BY <3>1, <3>2
    <2> HIDE DEF all
    <2>3. p < Len(text) /\ 1 \in 1..Len(all)
      BY <1>1, <1>2, <2>1
    <2>4. text[p + 1] # LF
      BY <1>1, <2>2, <2>3
    <2> QED BY <2>3, <2>4 DEF Follows
  <1> QED BY <1>3, <1>4

\* The k-th line of a text, read from its start.
LEMMA LineRead ==
  ASSUME NEW text \in Seq(Token), NEW run, Parsed(text, run), NEW always,
         NEW row \in Seq(Seq(Token)), row # <<>>, WriteRow(row, always) \in Seq(Token),
         NEW lineEnd \in LineEnds, lineEnd \in Seq(Token), Len(lineEnd) \in Nat,
         Len(lineEnd) >= 1, lineEnd[1] # Quote, NEW p,
         Reads(text, p, WriteRow(row, always) \o lineEnd), NEW rows,
         run[p] = Outside(rows, None, None), NEW q,
         q = p + Len(WriteRow(row, always) \o lineEnd),
         lineEnd = <<CR>> => Follows(text, q) # LF
  PROVE  run[q] = Outside(Longer(rows, row), None, None)
  <1> DEFINE s == WriteRow(row, always)  m == p + Len(s)
  <1>1. Reads(text, p, s) /\ Reads(text, m, lineEnd) /\ Len(s \o lineEnd) = Len(s) + Len(lineEnd)
    BY BothRead
  <1>2. Len(s) \in Nat /\ p \in Nat /\ Len(text) \in Nat
    BY <1>1 DEF Reads
  <1>3. m \in Nat /\ q = m + Len(lineEnd)
    BY <1>1, <1>2
  <1> HIDE DEF m
  <1>4. m + 1 <= Len(text) /\ text[m + 1] = lineEnd[1]
    BY <1>1, <1>2, <1>3 DEF Reads
  <1>5. Follows(text, m) # Quote
    BY <1>2, <1>3, <1>4 DEF Follows
  <1>6. run[m] = Outside(rows, Upto(row, Len(row) - 1), row[Len(row)])
    BY <1>1, <1>5, RowRead DEF m
  <1>7. lineEnd = <<CR>> => Follows(text, m + 1) # LF
    <2>1. lineEnd = <<CR>> => Len(lineEnd) = 1
      OBVIOUS
    <2> QED BY <1>3, <2>1
  <1>8. run[m + Len(lineEnd)] = Outside(Longer(rows, row), None, None)
    BY <1>1, <1>6, <1>7, RowEnded
  <1> QED BY <1>3, <1>8

\* A whole text: after each line the state holds the rows so far and no more.
LEMMA TableRead ==
  ASSUME NEW table \in Seq(Seq(Seq(Token))), table # <<>>,
         \A i \in 1..Len(table) : table[i] # <<>>,
         NEW always, NEW closed, NEW lineEnd \in LineEnds,
         closed \/ table[Len(table)] # << <<>> >>
  PROVE  ParseCsv(WriteCsv(table, always, lineEnd, closed)) = table
  <1> DEFINE n == Len(table)  parts == TableParts(table, always, lineEnd, closed)
             text == Concat(parts)  s(k) == WriteRow(table[k], always)
             e(k) == LineEnd(table, lineEnd, closed, k)
  <1>0. WriteCsv(table, always, lineEnd, closed) = text
    BY TableIsParts
  <1>1. n \in Nat /\ n >= 1
    OBVIOUS
  <1>2. parts \in Seq(Seq(Token)) /\ Len(parts) = n
    BY TableIsParts
  <1>3. \A k \in 1..n : parts[k] = s(k) \o e(k)
    BY DEF TableParts, TablePart
  <1>4. /\ lineEnd \in Seq(Token) /\ Len(lineEnd) \in Nat /\ Len(lineEnd) >= 1
        /\ lineEnd[1] # Quote /\ lineEnd # <<>>
    BY TableIsParts
  <1>5. \A k \in 1..n : /\ table[k] \in Seq(Seq(Token)) /\ table[k] # <<>>
                        /\ s(k) \in Seq(Token) /\ StartsWell(s(k))
    BY TableIsParts
  <1>6. \A k \in 1..n : /\ k < n \/ closed => e(k) = lineEnd
                        /\ ~(k < n \/ closed) => e(k) = <<>>
    BY DEF LineEnd
  <1>7. \A k \in 1..n : e(k) \in Seq(Token)
    <2>1. <<>> \in Seq(Token)
      OBVIOUS
    <2> HIDE DEF e
    <2>2. \A k \in 1..n : e(k) = lineEnd \/ e(k) = <<>>
      BY <1>6
    <2> QED BY <1>4, <2>1, <2>2
  <1>8. text \in Seq(Token) /\ Len(text) \in Nat
    BY <1>2, ConcatLaidOut
  <1>9. PICK off : LaidOut(parts, n, text, off)
    BY <1>2, ConcatLaidOut
  <1>10. PICK run : Parsed(text, run) /\
            ParseCsv(text) = IF run[Len(text)].field # <<>> \/ run[Len(text)].row # <<>>
                             THEN PushRow(run[Len(text)]).rows ELSE run[Len(text)].rows
    BY <1>8, ParseRun
  <1>11. Reads(text, 0, text)
    <2>1. \A j \in 1..Len(text) : 0 + j = j
      BY <1>8
    <2> QED BY <1>8, <2>1 DEF Reads
  <1>a. Reads(text, 0, Concat(parts)) /\ LaidOut(parts, Len(parts), Concat(parts), off)
    BY <1>2, <1>9, <1>11
  <1>b. \A k \in 1..Len(parts) : Reads(text, 0 + off[k - 1], parts[k])
    <2> HIDE DEF parts
    <2> QED BY <1>2, <1>8, <1>a, PartsRead
  <1> HIDE DEF parts, text
  <1>12. /\ off[0] = 0 /\ off[n] = Len(text)
         /\ \A k \in 0..n : off[k] \in Nat
         /\ \A k \in 1..n : off[k] = off[k - 1] + Len(parts[k])
    BY <1>8, <1>9 DEF LaidOut
  <1>13. \A k \in 1..n : Reads(text, off[k - 1], s(k) \o e(k))
    <2> SUFFICES ASSUME NEW k \in 1..n PROVE Reads(text, off[k - 1], s(k) \o e(k))
      OBVIOUS
    <2>1. k - 1 \in 0..n
      BY <1>1
    <2>2. 0 + off[k - 1] = off[k - 1]
      <3> DEFINE b == off[k - 1]
      <3>1. b \in Nat
        BY <1>12, <2>1
      <3> HIDE DEF b
      <3>2. 0 + b = b
        BY <3>1
      <3> QED BY <3>2 DEF b
    <2> QED BY <1>2, <1>3, <1>b, <2>2
  <1> HIDE DEF s, e, n
  \* No LF follows a line end that is a CR.
  <1>14. ASSUME lineEnd = <<CR>>, NEW k \in 1..n PROVE Follows(text, off[k]) # LF
    <2>1. CASE k = n
      <3>1. ~(off[k] < Len(text))
        BY <1>8, <1>12, <2>1
      <3> QED BY <3>1, SpecialsDiffer DEF Follows, Special
    <2>2. CASE k # n
      <3> DEFINE l == k + 1  a == s(l)  b == e(l)  p == off[k]
      <3>1. l \in 1..n /\ l - 1 = k /\ k \in 0..n
        BY <1>1, <2>2
      <3>2. a \in Seq(Token) /\ StartsWell(a) /\ b \in Seq(Token)
        BY <1>5, <1>7, <3>1
      <3>3. Reads(text, p, a \o b)
        BY <1>13, <3>1
      <3>4. b = <<>> \/ b = <<CR>>
        BY <1>6, <1>14, <3>1
      <3>5. off[l] = p + Len(a \o b)
        BY <1>3, <1>12, <3>1
      <3>6. b = <<>> => l = n
        BY <1>1, <1>4, <1>6, <3>1
      <3>7. p \in Nat
        BY <1>12, <3>1
      <3> HIDE DEF l, a, b, p
      <3>8. b = <<>> \/ b[1] # LF
        BY <3>4, SpecialsDiffer
      <3>9. a \o b # <<>> \/ p = Len(text)
        <4>1. SUFFICES ASSUME a \o b = <<>> PROVE p = Len(text)
          OBVIOUS
        <4>2. b = <<>>
          BY <3>2, <4>1
        <4>3. Len(a \o b) = 0
          BY <4>1
        <4>4. off[l] = Len(text)
          BY <1>12, <3>6, <4>2
        <4> QED BY <3>5, <3>7, <4>3, <4>4
      <3>10. Follows(text, p) # LF
        BY <1>8, <3>2, <3>3, <3>8, <3>9, NextStartsWell
      <3> QED BY <3>10 DEF p
    <2> QED BY <2>1, <2>2
  <1> DEFINE T == {k \in 0..n : run[off[k]] = Outside(Upto(table, k), None, None)}
  <1>15. 0 \in T
    <2>1. run[0] = Outside(None, None, None)
      BY <1>10 DEF Parsed, StartOfText, Outside, State, Full, None
    <2>2. Upto(table, 0) = None
      BY WholeUpto
    <2> QED BY <1>1, <1>12, <2>1, <2>2
  <1>16. ASSUME NEW k \in 0..(n - 1), k \in T, k + 1 < n \/ closed PROVE k + 1 \in T
    <2> DEFINE l == k + 1  row == table[l]  was == Upto(table, k)  p == off[k]  q == off[l]
    <2>1. l \in 1..n /\ l \in 0..n /\ l - 1 = k /\ k \in 0..(Len(table) - 1)
      BY <1>1 DEF n
    <2>2. e(l) = lineEnd
      BY <1>6, <1>16, <2>1
    <2>3. /\ row \in Seq(Seq(Token)) /\ row # <<>> /\ WriteRow(row, always) \in Seq(Token)
      BY <1>5, <2>1 DEF s
    <2>4. Reads(text, p, WriteRow(row, always) \o lineEnd)
      BY <1>13, <2>1, <2>2 DEF s
    <2>5. q = p + Len(WriteRow(row, always) \o lineEnd)
      BY <1>3, <1>12, <2>1, <2>2 DEF s
    <2>6. run[p] = Outside(was, None, None)
      BY <1>16
    <2>7. lineEnd = <<CR>> => Follows(text, q) # LF
      BY <1>14, <2>1
    <2>8. Upto(table, l) = Longer(was, row)
      BY <2>1, OneMore
    <2>9. run[q] = Outside(Upto(table, l), None, None) => l \in T
      BY <2>1
    <2> HIDE DEF T, l, row, was, p, q
    <2>10. run[q] = Outside(Longer(was, row), None, None)
      BY <1>4, <1>8, <1>10, <2>3, <2>4, <2>5, <2>6, <2>7, LineRead
    <2> QED BY <2>8, <2>9, <2>10 DEF l
  <1>17. CASE closed
    <2>1. n \in T
      <3> HIDE DEF T
      <3>1. \A i \in 0..(n - 1) : i \in T => i + 1 \in T
        BY <1>16, <1>17
      <3>2. \A i \in 0..n : i \in T
        BY <1>1, <1>15, <3>1, Upward
      <3> QED BY <1>1, <3>2
    <2>2. PICK end : end = run[Len(text)]
      OBVIOUS
    <2>3. end = Outside(table, None, None)
      BY <1>12, <2>1, <2>2, WholeUpto DEF n
    <2>4. end.rows = table /\ end.row = None /\ end.field = None
      BY <2>3 DEF Outside, State, Full
    <2> QED BY <1>0, <1>10, <2>2, <2>4 DEF None
  <1>18. CASE ~closed
    <2> DEFINE m == n - 1  row == table[n]  was == Upto(table, m)  p == off[m]
               most == Upto(row, Len(row) - 1)  last == row[Len(row)]
    <2>1. m \in Nat /\ m \in 0..n /\ m + 1 = n /\ n \in 1..n /\ m \in 0..(Len(table) - 1)
      BY <1>1 DEF n
    <2>2. m \in T
      <3> HIDE DEF T
      <3>1. ASSUME NEW i \in 0..(m - 1), i \in T PROVE i + 1 \in T
        <4>1. i \in 0..(n - 1) /\ i + 1 < n
          BY <1>1
        <4> QED BY <1>16, <3>1, <4>1
      <3> HIDE DEF m
      <3>2. \A i \in 0..m : i \in T
        BY <1>15, <2>1, <3>1, Upward
      <3> QED BY <2>1, <3>2
    <2>3. row \in Seq(Seq(Token)) /\ row # <<>> /\ WriteRow(row, always) \in Seq(Token)
      BY <1>5, <2>1 DEF s
    <2>4. e(n) = <<>>
      BY <1>1, <1>6, <1>18, <2>1
    <2>5. parts[n] = WriteRow(row, always)
      <3>1. parts[n] = WriteRow(row, always) \o <<>>
        BY <1>3, <2>1, <2>4 DEF s
      <3> QED BY <2>3, <3>1
    <2>6. Reads(text, p, WriteRow(row, always)) /\ Len(text) = p + Len(WriteRow(row, always))
      <3>1. parts[n] = s(n) \o e(n)
        BY <1>3, <2>1
      <3> QED BY <1>12, <1>13, <2>1, <2>5, <3>1
    <2>7. run[p] = Outside(was, None, None)
      BY <2>2
    <2>8. Follows(text, Len(text)) # Quote
      BY <1>8, SpecialsDiffer DEF Follows, Special
    <2>9. table = Longer(was, row)
      <3>1. Upto(table, m + 1) = Longer(was, table[m + 1])
        BY <2>1, OneMore
      <3>2. Upto(table, n) = table
        BY WholeUpto DEF n
      <3> HIDE DEF was
      <3> QED BY <2>1, <3>1, <3>2
    <2>10. row = Longer(most, last) /\ Len(row) \in Nat /\ Len(row) >= 1
      <3> DEFINE h == Len(row)
      <3>1. h \in Nat /\ h >= 1
        <4>1. row \in Seq(Seq(Token)) /\ row # <<>>
          BY <2>3
        <4> HIDE DEF row
        <4> QED BY <4>1
      <3>2. h - 1 \in 0..(h - 1) /\ (h - 1) + 1 = h
        BY <3>1
      <3>3. Upto(row, (h - 1) + 1) = Longer(most, row[(h - 1) + 1])
        BY <2>3, <3>2, OneMore
      <3>4. Upto(row, h) = row
        BY <2>3, WholeUpto
      <3> HIDE DEF most, row
      <3> QED BY <3>1, <3>2, <3>3, <3>4
    <2>11. row # << <<>> >>
      BY <1>18 DEF n
    <2> HIDE DEF row, p, was
    <2>12. run[Len(text)] = Outside(was, most, last)
      BY <1>8, <1>10, <2>3, <2>6, <2>7, <2>8, RowRead
    <2> HIDE DEF most, last
    <2>13. PICK end : end = run[Len(text)]
      OBVIOUS
    <2>14. end = State(was, most, last, FALSE)
      BY <2>12, <2>13 DEF Outside
    <2>15. end.row = most /\ end.field = last
      BY <2>14 DEF State, Full
    <2>16. PushRow(end) = State(Longer(was, Longer(most, last)), None, None, FALSE)
      <3> DEFINE no == FALSE
      <3>1. end = State(was, most, last, no)
        BY <2>14
      <3> HIDE DEF no
      <3>2. PushRow(end) = State(Longer(was, Longer(most, last)), None, None, no)
        BY <3>1, Pushed
      <3> QED BY <3>2 DEF no
    <2>17. PushRow(end).rows = table
      <3>1. PushRow(end).rows = Longer(was, Longer(most, last))
        BY <2>16 DEF State, Full
      <3> QED BY <2>9, <2>10, <3>1
    <2>18. end.field # <<>> \/ end.row # <<>>
      <3>1. SUFFICES ASSUME last = <<>>, most = <<>> PROVE FALSE
        BY <2>15
      <3>2. Longer(<<>>, <<>>) = << <<>> >>
        BY DEF Longer
      <3> QED BY <2>10, <2>11, <3>1, <3>2
    <2> QED BY <1>0, <1>10, <2>13, <2>17, <2>18
  <1> QED BY <1>17, <1>18

\* ParserReadsBack: whatever tables RFC 4180 can write, parseCsv reads back,
\* of any size and in either style of quoting.
THEOREM ParserReadsWhatIsWritten == UploadSpec => []ParserReadsBack
  <1>1. ASSUME upload \in {NoUpload} \cup Uploads PROVE ParserReadsBack
    <2> DEFINE table == upload.table
    <2> SUFFICES ASSUME upload \in Uploads, "table" \in DOMAIN upload,
                        upload.closed \/ table[Len(table)] # << <<>> >>
                 PROVE  ParseCsv(WriteCsv(table, upload.always, upload.lineEnd,
                                          upload.closed)) = table
      BY <1>1 DEF ParserReadsBack
    <2>1. table \in Tables /\ upload.lineEnd \in LineEnds
      BY DEF Uploads, LineEnds
    <2>2. table \in Seq(Seq(Seq(Token)))
      <3>1. ASSUME NEW R, NEW S, R \subseteq S PROVE Seq(R) \subseteq Seq(S)
        BY <3>1
      <3>2. STRING \subseteq Token
        BY DEF Token
      <3>3. Seq(STRING) \subseteq Seq(Token)
        BY <3>1, <3>2
      <3>4. Seq(Seq(STRING)) \subseteq Seq(Seq(Token))
        BY <3>1, <3>3
      <3>5. Seq(Seq(Seq(STRING))) \subseteq Seq(Seq(Seq(Token)))
        BY <3>1, <3>4
      <3> QED BY <2>1, <3>5, UploadsAssumption
    <2>3. table # <<>> /\ \A i \in 1..Len(table) : table[i] # <<>>
      BY <2>1, <2>2, UploadsAssumption
    <2> HIDE DEF table
    <2> QED BY <2>1, <2>2, <2>3, TableRead
  <1> DEFINE Given == upload \in {NoUpload} \cup Uploads
  <1>2. Given /\ [UNCHANGED upload]_upload => Given'
    <2> SUFFICES ASSUME Given, upload' = upload PROVE Given'
      OBVIOUS
    <2> QED BY DEF Uploads
  <1>3. Given => ParserReadsBack
    BY <1>1
  <1> QED BY <1>2, <1>3, PTL DEF UploadSpec

=============================================================================
