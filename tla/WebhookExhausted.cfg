CONSTANTS
    Endpoints = {h1}
    Events = {1}
    Unusable = Unusable
    Attempts = 2
    Faults = {"db", "http"}
    MaxLog = 1
    MaxRetries = 0
    MaxEdits = 0
    MaxCrashes = 0
CHECK_DEADLOCK FALSE
SPECIFICATION Spec
INVARIANTS ExhaustedIsDeadLettered
