\* Two orders of two single lines each compete for one unit, with which the
\* check lets one pass, and are confirmed, without failures: the books, what
\* is oversold, and the two liveness properties.
SPECIFICATION FairSpec
CONSTANTS
    Orders = {o1, o2}
    Skus = {s1}
    Keys = {k1, k2}
    Requests = {r1}
    Consumers = {c1}
    FailureKinds <- AnyFailure
    MaxFailures = 0
    NoOrder = NoOrder
    NoKey = NoKey
    Commands <- CreateAndConfirm
    Stock <- OneEach
    Demand <- WantsTwo
    LargestLine <- WantsOne

     
PROPERTIES
    CreatedIsDecided ConfirmedIsCharged
\* Clients may send nothing more: stopping is not a deadlock.
CHECK_DEADLOCK FALSE
