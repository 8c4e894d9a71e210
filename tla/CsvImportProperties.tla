------------------------- MODULE CsvImportProperties -------------------------
(* Reference definitions for the pure functions of the CSV import: the       *)
(* writer of RFC 4180, which parseCsv names as its standard, and grouping as *)
(* a selection.                                                              *)
EXTENDS CsvImport

CONSTANTS Tables, Files, NoUpload   \* the bounded inputs

VARIABLE upload   \* what one state of a run looks at

Uploads ==
    [table : Tables, always : BOOLEAN, closed : BOOLEAN,
     lineEnd : {<<LF>>, <<CR, LF>>, <<CR>>}] \cup [file : Files]

\* A table has a row, and a row a field; the fields are any sequences of tokens.
ASSUME UploadsAssumption ==
    /\ Tables \cup Files \subseteq Seq(Seq(Seq(STRING)))
    /\ \A table \in Tables : table # <<>> /\ \A i \in DOMAIN table : table[i] # <<>>

UploadSpec == upload \in {NoUpload} \cup Uploads /\ [][UNCHANGED upload]_upload

Concat(seqs) ==
    LET upTo[i \in 0..Len(seqs)] == IF i = 0 THEN <<>> ELSE upTo[i - 1] \o seqs[i]
    IN upTo[Len(seqs)]

\* A field in quotes, its quotes doubled; or bare, where RFC 4180 allows it.
Quoted(field) ==
    LET one(t) == IF t = Quote THEN <<Quote, Quote>> ELSE <<t>>
    IN <<Quote>> \o Concat([i \in 1..Len(field) |-> one(field[i])]) \o <<Quote>>

MayBeBare(field) ==
    \A i \in 1..Len(field) : field[i] \notin {Quote, Comma, CR, LF}

WriteField(field, always) ==
    IF ~always /\ MayBeBare(field) THEN field ELSE Quoted(field)

WriteRow(row, always) ==
    Concat([i \in 1..Len(row) |->
              (IF i = 1 THEN <<>> ELSE <<Comma>>) \o WriteField(row[i], always)])

\* The rows, with lineEnd between them, and after the last one if closed.
WriteCsv(table, always, lineEnd, closed) ==
    Concat([i \in 1..Len(table) |->
              WriteRow(table[i], always) \o
              (IF i < Len(table) \/ closed THEN lineEnd ELSE <<>>)])

\* parseCsv reads back every table that RFC 4180 can write, with either style
\* of quoting and any line end, whether or not the last line is closed.  The
\* exception is a last row of one empty field without a line end, which is no
\* row (its text may be the empty text).
ParserReadsBack ==
    upload # NoUpload /\ "table" \in DOMAIN upload =>
        LET table == upload.table IN
        upload.closed \/ table[Len(table)] # << <<>> >> =>
            ParseCsv(WriteCsv(table, upload.always, upload.lineEnd,
                              upload.closed)) = table

\* The last column of a name, whose cells count.
Column(file, name) ==
    CHOOSE i \in DOMAIN Headers(file) :
        /\ Headers(file)[i] = <<name>>
        /\ \A j \in DOMAIN Headers(file) : Headers(file)[j] = <<name>> => j <= i

Entry(file, i, name) == Cell(file[i], Column(file, name))

\* The rows that carry a customer's name, and how many of them there are down
\* to row i.
RowsOf(file, customer) == {i \in 2..Len(file) : Entry(file, i, "customerid") = customer}
RowsDownTo(file, customer, i) == Cardinality({j \in RowsOf(file, customer) : j <= i})

Acceptable(file, i) ==
    /\ Entry(file, i, "sku") # <<>>
    /\ Number(Entry(file, i, "qty")) >= 100 /\ Number(Entry(file, i, "price")) >= 0

OrderColumns == {"customerid", "sku", "qty", "price"}

\* The orders of a file are its customers in the order they first appear, and
\* the lines of each are all of its rows in their order; rows without a
\* customer are in none.  An order is imported when all of its rows are valid,
\* however far apart they are: never a part of one.
GroupsLines(file) ==
    LET orders == ParseOrders(file)
        customers == {Entry(file, i, "customerid") : i \in 2..Len(file)} \ {<<>>}
    IN
    /\ {orders[k].customer : k \in 1..Len(orders)} = customers
    /\ \A k, l \in 1..Len(orders) : k < l =>
          \E i \in RowsOf(file, orders[k].customer) :
              \A j \in RowsOf(file, orders[l].customer) : i < j
    /\ \A k \in 1..Len(orders) :
          LET customer == orders[k].customer  items == orders[k].items IN
          /\ Len(items) = Cardinality(RowsOf(file, customer))
          /\ \A i \in RowsOf(file, customer), name \in OrderColumns :
                items[RowsDownTo(file, customer, i)][<<name>>] = Entry(file, i, name)
    /\ {ord.customer : ord \in ImportedOrders(file)} =
          {c \in customers : \A i \in RowsOf(file, c) : Acceptable(file, i)}

OrdersGroupLines ==
    upload # NoUpload /\ "file" \in DOMAIN upload =>
        (Readable(upload.file, {<<name>> : name \in OrderColumns}) =>
            GroupsLines(upload.file))
=============================================================================
