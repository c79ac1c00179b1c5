CONSTANTS
    Endpoints = {h1, h2}
    Events = {1}
    Unusable = Unusable
    Attempts = 2
    Faults = {"queue", "http"}
    MaxLog = 1
    MaxRetries = 0
    MaxEdits = 0
    MaxCrashes = 2
CHECK_DEADLOCK FALSE
SPECIFICATION FairSpec
INVARIANTS NothingLeftBehind NoJobFailsUndamaged
PROPERTIES DeliveredIsFinal EveryDeliveryEnds
