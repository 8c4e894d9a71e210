----------------------------- MODULE MCStockRoom -----------------------------
(* Values for the constants of StockRoom_backoffice.cfg.  The lines of the   *)
(* imports are read from CSV texts.                                          *)
EXTENDS StockRoomProperties, CsvImportProperties, TLC

CONSTANTS k1, o1

Numerals == ("0" :> 0) @@ ("1" :> 100) @@ ("2" :> 200) @@ ("1.5" :> 150)

Header == << <<"sku">>, <<"qty">>, <<"type">>, <<"reason">> >>
W(sku, qty, type) == << <<Blank, sku>>, <<qty>>, <<type, Blank>> >>
Text(rows) == WriteCsv(<<Header>> \o rows, FALSE, <<CR, LF>>, TRUE)

\* Takes from one sku and creates the other.  Blank and invalid rows drop out.
Receipt == Text(<<W("s1", "1", "OUT"), << <<>>, <<Blank>> >>,
                  W("s1", "1.5", "IN"), W("s2", "2", "IN")>>)
\* The same skus the other way round, one of them twice.
Count == Text(<<W("s2", "1", "ADJUSTMENT"), W("s1", "0", "IN"),
                W("s1", "1", "OUT"), W("s1", "1", "OUT")>>)

\* Products that say they are in stock, that they are not, or nothing.
ProductHeader == << <<"sku">>, <<"name">>, <<"price">>, <<Blank, "instock">> >>
Product(flag) == << <<"s1">>, <<"a">>, <<"1.5">>, flag>>
Catalogue == WriteCsv(
    <<ProductHeader, Product(<<"true">>), Product(<<"no">>), Product(<<Blank>>)>>,
    TRUE, <<LF>>, FALSE)

AnyFlag == {{TRUE}, {FALSE}, {}}
ASSUME CatalogueFlags == ProductFlags(Catalogue) = FlagsGiven

ReceiptLines == InventoryLines(Receipt)
CountLines == InventoryLines(Count)

Counter == {
    [key |-> k1, lines |-> <<[sku |-> "s1", type |-> "IN", qty |-> 1]>>],
    [key |-> NoKey, lines |-> ReceiptLines],
    [key |-> NoKey, lines |-> CountLines]}

Shelves == ("s1" :> 2) @@ ("s2" :> NoRow)
OneSku == [o \in Orders |-> "s1"]
TwoUnits == [o \in Orders |-> 2]

\* Tables of one or two rows of one or two fields of at most one token.
Fields == {<<>>} \cup {<<t>> : t \in {"a", Quote, Comma, CR, LF}}
Rows == {<<f>> : f \in Fields} \cup {<<f, g>> : f, g \in Fields}
SmallTables == {<<r>> : r \in Rows} \cup {<<r, q>> : r, q \in Rows}

\* Up to three lines of two customers, or of none.
OrderHeader == << <<"customerid">>, <<Blank, "sku">>, <<"qty">>, <<"price">> >>
\* A quantity of 1.5 is taken for 1; one of 0 is refused.
OrderRows == {<<c, <<line[1]>>, <<line[2]>>, <<"2">> >> :
                 c \in {<<"c1">>, <<"c2", Blank>>, <<>>},
                 line \in {<<"s1", "1.5">>, <<"s2", "0">>}}
SmallFiles == {<<OrderHeader>> \o rows :
                 rows \in UNION {[1..n -> OrderRows] : n \in 1..3}}

\* Either requests run, or a state is spent on a bounded input of the pure
\* functions.
MCInit == Init /\ upload \in {NoUpload} \cup Uploads
MCNext == upload = NoUpload /\ Next /\ UNCHANGED upload
MCSpec == MCInit /\ [][MCNext]_<<vars, upload>> /\ Fairness
=============================================================================
