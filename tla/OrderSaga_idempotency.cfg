\* Two requests with one key, two results.
SPECIFICATION Spec
CONSTANTS
    Orders = {o1, o2}
    Skus = {s1}
    Keys = {k1}
    Requests = {r1, r2}
    Consumers = {c1}
    FailureKinds <- AnyFailure
    MaxFailures = 0
    NoOrder = NoOrder
    NoKey = NoKey
    Commands <- CreateOnly
    Stock <- OneEach
    Demand <- WantsOne
    LargestLine <- WantsOne
PROPERTIES
    SameKeySameResult
\* Clients may send nothing more: stopping is not a deadlock.
CHECK_DEADLOCK FALSE
