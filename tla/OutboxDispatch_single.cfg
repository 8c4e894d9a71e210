\* One loop: batches of two rows, crashes, failed updates, an open circuit.
SPECIFICATION FairSpec
CONSTANTS
    d1 = d1
    d2 = d2
    d3 = d3
    Events <- TwoRows
    Dispatchers <- OneLoop
    Started <- OneLoop
    WorkerOf <- OneProcess
    Instants <- TakeOver
    FailureKinds <- Recoverable
    MaxFailures = 3
    BatchSize = 2
INVARIANTS
    CopiesHaveCauses
PROPERTIES
     PendingIsSettled
\* Once every row is settled and the clock has run out nothing is left to do.
CHECK_DEADLOCK FALSE
