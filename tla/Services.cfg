\* Two readers of three rows, with pages of one or two, whose queries differ in
\* one part at most; two pollers, two deliveries to one endpoint.
SPECIFICATION MCSpec
CONSTANTS
    Tenants = {t1, t2}
    Replicas = {r1}
    Readers = {c1, c2}
    DEFAULT_LIMIT = 1
    MAX_LIMIT = 2
    RawLimits = {0, 5}
    PageTtl = 1
    MaxRows = 3
    MaxListTime = 1
    MaxWalks = 2
    Endpoints = {e1}
    Events = {v1, v2}
    Pollers = {p1, p2}
    MAX_ATTEMPTS = 2
    MaxPosts = 4
    MaxDeaths = 1
SYMMETRY Symmetries
INVARIANTS
    WalksGoDown 
    OutcomesAreEarned RetriesAreCounted
\* Once every row, walk and post the bounds allow is done, nothing is left to do.
CHECK_DEADLOCK FALSE
