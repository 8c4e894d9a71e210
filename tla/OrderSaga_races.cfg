\* Races: one order, two requests at a time next to the worker, no failure.
\* SagaInv is the inductive invariant of OrderSaga_proofs.
SPECIFICATION Spec
CONSTANTS
    Orders = {o1}
    Skus = {s1}
    Keys = {k1}
    Requests = {r1, r2}
    Consumers = {c1}
    FailureKinds <- AnyFailure
    MaxFailures = 0
    NoOrder = NoOrder
    NoKey = NoKey
    Commands <- NoFulfilment
    Stock <- OneEach
    Demand <- WantsOne
    LargestLine <- WantsOne
SYMMETRY Perms
INVARIANTS
    CausalOrder  SagaInv
\* Clients may send nothing more: stopping is not a deadlock.
CHECK_DEADLOCK FALSE
