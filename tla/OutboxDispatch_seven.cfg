\* One loop and one row, through all seven backoffs.
SPECIFICATION FairSpec
CONSTANTS
    d1 = d1
    d2 = d2
    d3 = d3
    Events <- OneRow
    Dispatchers <- OneLoop
    Started <- OneLoop
    WorkerOf <- OneProcess
    Instants <- SevenBackoffs
    FailureKinds <- Recoverable
    MaxFailures = 8
    BatchSize = 1
PROPERTIES
    PendingIsSettled
\* Once every row is settled and the clock has run out nothing is left to do.
CHECK_DEADLOCK FALSE
