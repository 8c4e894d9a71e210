\* Two replicas; one user and one administrator; two requests or streams.
SPECIFICATION MCSpec
CONSTANTS
    t1 = t1
    boss = boss
    ops = ops
    Tenants = {t1, t2}
    Replicas = {r1, r2}
    Requests = {q1, q2}
    Handlers = {h1}
    Malformed = Malformed
    Users = {boss, ops}
    Admins = {boss}
    HomeOf <- Home
    RolesOf <- UserRoles
    Plans = {"pro", "starter"}
    FirstPlan = "pro"
    Edits <- OperatorEdits
    Watched <- WatchedRoutes
    TokenLife = 2
    NoToken = NoToken
    NoLogin = NoLogin
    MaxTime = 3
    MaxTokens = 1
    MaxRotations = 2
    MaxEdits = 1
    Callers = {u1}
    Window = 4
    Cost = 2
    NoBucket = NoBucket
    MaxSkew = 1
    MaxClock = 4
    MaxCalls = 4
    MaxLosses = 1
    Clients = {c1, c2}
    MaxCommits = 2
    MaxConnects = 3
    MaxCrashes = 1
SYMMETRY Symmetries
INVARIANTS
     HigherPlansKeepAccess SessionsSurviveRotation
    RateBounded BucketIsExact 
    HeardExactly GhostsHungUpEarly
\* Clients may send nothing more: stopping is not a deadlock.
CHECK_DEADLOCK FALSE
