------------------------------ MODULE CsvImport ------------------------------
(***************************************************************************)
(* How an uploaded CSV text becomes the rows that ImportService writes:     *)
(* parseCsv, parseRows, parseOrdersCsv and the validation of the rows.      *)
(*                                                                          *)
(* A text is a sequence of tokens: the four characters the parser branches  *)
(* on, a blank, and words, which it only copies; a word stands for any run  *)
(* of other characters, in lower case where the code lowers it.  Numbers    *)
(* gives the words that are numbers, in hundredths, their value.            *)
(***************************************************************************)
EXTENDS Integers, Sequences, FiniteSets

CONSTANT Numbers

Quote == "quote"   Comma == "comma"   CR == "CR"   LF == "LF"   Blank == "blank"

-----------------------------------------------------------------------------
(* parseCsv: one turn of its loop for each token.                           *)

StartOfText == [rows |-> <<>>, row |-> <<>>, field |-> <<>>,
                inQuotes |-> FALSE, skip |-> FALSE]

PushField(st) == [st EXCEPT !.row = Append(@, st.field), !.field = <<>>]
PushRow(st) ==
    LET pushed == PushField(st)
    IN [pushed EXCEPT !.rows = Append(@, pushed.row), !.row = <<>>]
Copy(st, token) == [st EXCEPT !.field = Append(@, token)]

InQuotes(st, token, next) ==
    CASE token = Quote /\ next = Quote -> [Copy(st, Quote) EXCEPT !.skip = TRUE]
      [] token = Quote /\ next # Quote -> [st EXCEPT !.inQuotes = FALSE]
      [] OTHER                         -> Copy(st, token)

\* Mutant: the LF of a CR LF starts a row of its own.
OutsideQuotesPlainCR(st, token, next) ==
    CASE token = Quote     -> [st EXCEPT !.inQuotes = TRUE]
      [] token = Comma     -> PushField(st)
      [] token \in {CR,LF} -> PushRow(st)
      [] OTHER             -> Copy(st, token)

OutsideQuotes(st, token, next) ==
    CASE token = Quote -> [st EXCEPT !.inQuotes = TRUE]
      [] token = Comma -> PushField(st)
      [] token = CR    -> [PushRow(st) EXCEPT !.skip = (next = LF)]
      [] token = LF    -> PushRow(st)
      [] OTHER         -> Copy(st, token)

Turn(text, st, i) ==
    LET next == IF i < Len(text) THEN text[i + 1] ELSE Blank IN
    IF st.skip THEN [st EXCEPT !.skip = FALSE]
    ELSE IF st.inQuotes THEN InQuotes(st, text[i], next)
    ELSE OutsideQuotes(st, text[i], next)

ParseCsv(text) ==
    LET after[i \in 0..Len(text)] ==
            IF i = 0 THEN StartOfText ELSE Turn(text, after[i - 1], i)
        end == after[Len(text)]
    IN IF end.field # <<>> \/ end.row # <<>> THEN PushRow(end).rows
       ELSE end.rows

-----------------------------------------------------------------------------
(* parseRows: cells under their headers.                                    *)

Trim(cell) ==
    LET words == {i \in 1..Len(cell) : cell[i] # Blank}
    IN IF words = {} THEN <<>>
       ELSE SubSeq(cell, CHOOSE i \in words : \A j \in words : i <= j,
                         CHOOSE i \in words : \A j \in words : i >= j)

Cell(row, i) == IF i <= Len(row) THEN Trim(row[i]) ELSE <<>>

\* The object of a row: under each header the last of the columns counted.
AsObject(headers, row, counted) ==
    LET columns(h) == {i \in counted : headers[i] = h}
    IN [h \in {headers[i] : i \in counted} |->
            Cell(row, CHOOSE i \in columns(h) : \A j \in columns(h) : i >= j)]

Headers(table) == [i \in 1..Len(table[1]) |-> Trim(table[1][i])]

\* A header row with the required names, and at least one row more: or a 400.
Readable(table, required) ==
    Len(table) >= 2 /\ required \subseteq {Headers(table)[i] : i \in 1..Len(table[1])}

ParseRows(table) ==
    LET filled(row) == \E i \in 1..Len(row) : Trim(row[i]) # <<>>
        rows == SelectSeq(Tail(table), filled)
        \* An empty cell is not in the object.
        full(row) == {i \in 1..Len(table[1]) : Cell(row, i) # <<>>}
    IN [i \in 1..Len(rows) |->
            AsObject(Headers(table), rows[i], full(rows[i]))]

-----------------------------------------------------------------------------
(* Validation: the rows that are kept, in their order.                      *)

Has(obj, name) == <<name>> \in DOMAIN obj /\ obj[<<name>>] # <<>>
Number(cell) == IF Len(cell) = 1 /\ cell[1] \in DOMAIN Numbers
                THEN Numbers[cell[1]] ELSE -1

IsProductRow(obj) ==
    /\ Has(obj, "sku") /\ Has(obj, "name") /\ Has(obj, "price")
    /\ Number(obj[<<"price">>]) >= 0

IsCount(n) == n >= 100 /\ n % 100 = 0

IsInventoryRow(obj) ==
    /\ Has(obj, "sku") /\ Has(obj, "qty") /\ Has(obj, "type")
    /\ IsCount(Number(obj[<<"qty">>]))
    /\ obj[<<"type">>] \in {<<"IN">>, <<"OUT">>, <<"ADJUSTMENT">>}

\* The inStock of a product row: given as TRUE or FALSE, or not at all.
FlagGiven(obj) ==
    IF Has(obj, "instock") THEN {obj[<<"instock">>] = <<"true">>} ELSE {}

\* The objects of the valid rows of a CSV; none when the request is refused.
ValidRows(text, required, Valid(_)) ==
    LET table == ParseCsv(text)
    IN IF Readable(table, required) THEN SelectSeq(ParseRows(table), Valid) ELSE <<>>

\* What the rows of a product import say of inStock.
ProductFlags(text) ==
    LET rows == ValidRows(text, {<<"sku">>, <<"name">>, <<"price">>}, IsProductRow)
    IN {FlagGiven(rows[i]) : i \in 1..Len(rows)}

\* The lines of an inventory import, as StockRoom takes them.
InventoryLines(text) ==
    LET rows == ValidRows(text, {<<"sku">>, <<"qty">>, <<"type">>}, IsInventoryRow)
        line(obj) == [sku |-> obj[<<"sku">>][1], type |-> obj[<<"type">>][1],
                      qty |-> Number(obj[<<"qty">>]) \div 100]
    IN [i \in 1..Len(rows) |-> line(rows[i])]

-----------------------------------------------------------------------------
(* parseOrdersCsv: the rows of one customer are the lines of one order.     *)

\* Mutant: a later row of a customer replaces the earlier ones.
WithLineReplacing(orders, customer, item) ==
    IF \E i \in 1..Len(orders) : orders[i].customer = customer
    THEN [i \in 1..Len(orders) |->
            IF orders[i].customer = customer
            THEN [orders[i] EXCEPT !.items = <<item>>] ELSE orders[i]]
    ELSE Append(orders, [customer |-> customer, items |-> <<item>>])

WithLine(orders, customer, item) ==
    IF \E i \in 1..Len(orders) : orders[i].customer = customer
    THEN [i \in 1..Len(orders) |->
            IF orders[i].customer = customer
            THEN [orders[i] EXCEPT !.items = Append(@, item)] ELSE orders[i]]
    ELSE Append(orders, [customer |-> customer, items |-> <<item>>])

WithRow(orders, table, i) ==
    LET obj == AsObject(Headers(table), table[i], 1..Len(table[1]))
    IN IF Has(obj, "customerid")
       THEN WithLine(orders, obj[<<"customerid">>], obj) ELSE orders

ParseOrders(table) ==
    LET orders[i \in 1..Len(table)] ==
            IF i = 1 THEN <<>> ELSE WithRow(orders[i - 1], table, i)
    IN orders[Len(table)]

\* parseInt drops the fraction before the check for an integer is made.
IsOrderLine(obj) ==
    /\ Has(obj, "sku") /\ Has(obj, "qty") /\ Has(obj, "price")
    /\ Number(obj[<<"qty">>]) >= 100 /\ Number(obj[<<"price">>]) >= 0

IsOrder(ord) == \A i \in 1..Len(ord.items) : IsOrderLine(ord.items[i])

\* One bad line and the whole order is refused.
ImportedOrders(table) ==
    LET orders == ParseOrders(table)
    IN {orders[i] : i \in {j \in 1..Len(orders) : IsOrder(orders[j])}}
=============================================================================
