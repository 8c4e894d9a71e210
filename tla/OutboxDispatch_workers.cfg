\* Two workers, slow loops, failures of any kind, one reconnection.
SPECIFICATION Spec
CONSTANTS
    d1 = d1
    d2 = d2
    d3 = d3
    Events <- OneRow
    Dispatchers <- ThreeLoops
    Started <- TwoLoops
    WorkerOf <- TwoProcesses
    Instants <- TakeOver
    FailureKinds <- AnyFailure
    MaxFailures = 2
    BatchSize = 1
INVARIANTS
     LockExcludes 
\* Once every row is settled and the clock has run out nothing is left to do.
CHECK_DEADLOCK FALSE
