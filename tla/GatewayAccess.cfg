CONSTANTS
    Keys = {k1}
    NoKey = NoKey
    Calls = {c1, c2}
    Revocations = {v1}
    KeyForms <- MCForms
    CacheTTL = 2
    MinTTL = 1
    Patience = 1
    Faults = {"db", "cache"}
    Horizon = 3
    MaxCrashes = 1
    Routes <- MCRoutes
    Ahead <- MCAhead
    MaxClockSkew = 3
    Window = 2
    MaxRequests = 1
    PruneAt = 2
    MaxArrivals = 3
    MaxRestarts = 1
SYMMETRY Interchangeable
CHECK_DEADLOCK FALSE
SPECIFICATION GatewaySpec
INVARIANTS GatewayTypeOK RateLimited CallsAreHeard
PROPERTIES RevocationTakesEffect ExpiryTakesEffect 
