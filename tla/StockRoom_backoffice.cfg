\* Two clerks, two requests, one of which may die; one order; one key.
SPECIFICATION MCSpec
CONSTANTS
    k1 = k1
    o1 = o1
    Skus = {"s1", "s2"}
    Keys = {k1}
    Orders = {o1}
    Clerks = {c1, c2}
    NoKey = NoKey
    NoRow = NoRow
    NoUpload = NoUpload
    Jobs <- Counter
    FlagsGiven <- AnyFlag
    Opening <- Shelves
    SkuOf <- OneSku
    QtyOf <- TwoUnits
    Numbers <- Numerals
    Tables <- SmallTables
    Files <- SmallFiles
    MaxJobs = 2
    MaxFailures = 1
INVARIANTS
    SerialUnlessRaced FlagDriftHasCause DuplicateHasCause ParserReadsBack 
PROPERTIES
    RequestsEnd 
\* Clients may send nothing more: stopping is not a deadlock.
CHECK_DEADLOCK FALSE
