\* Two messages; two losses of the connection or outages.
SPECIFICATION Spec
CONSTANTS
    Messages = {m1, m2}
    MaxTries = 2
    MaxRetries = 1
    MaxLosses = 2
INVARIANTS
    SoleConnection OnlyLateConnectionsSuffer
PROPERTIES
    ServesAgain
CHECK_DEADLOCK FALSE
