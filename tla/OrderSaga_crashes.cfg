\* Failures: one order through every command, two deliveries at a time.
SPECIFICATION Spec
CONSTANTS
    Orders = {o1}
    Skus = {s1}
    Keys = {k1}
    Requests = {r1}
    Consumers = {c1, c2}
    FailureKinds <- AnyFailure
    MaxFailures = 1
    NoOrder = NoOrder
    NoKey = NoKey
    Commands <- Everything
    Stock <- OneEach
    Demand <- WantsOne
    LargestLine <- WantsOne
SYMMETRY Perms
INVARIANTS
    AtMostOnce  FlagFollowsStock
PROPERTIES
    RefinesMilestones
\* Clients may send nothing more: stopping is not a deadlock.
CHECK_DEADLOCK FALSE
