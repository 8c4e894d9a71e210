\* A cancelled order keeps its reservation.
SPECIFICATION Spec
CONSTANTS
    Orders = {o1}
    Skus = {s1}
    Keys = {k1}
    Requests = {r1}
    Consumers = {c1}
    FailureKinds <- AnyFailure
    MaxFailures = 0
    NoOrder = NoOrder
    NoKey = NoKey
    Commands <- CreateAndCancel
    Stock <- OneEach
    Demand <- WantsOne
    LargestLine <- WantsOne
INVARIANTS
    CancelReleasesStock
\* Clients may send nothing more: stopping is not a deadlock.
CHECK_DEADLOCK FALSE
