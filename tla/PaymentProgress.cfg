CONSTANTS
    k1 = k1
    Requests = {r1, r2}
    Keys = {k1}
    KeyOf <- OneKey
    NoSnapshot = NoSnapshot
    PollLookups = 2
    WriterAttempts = 1
    Faults = {"kafka", "bank", "expiry", "redis", "cancel"}
    MaxEvents = 5
    MaxCrashes = 1
CHECK_DEADLOCK FALSE
SPECIFICATION FairSpec
PROPERTIES EveryRequestEnds EveryPaymentDecided RepeatedCallIsShown EveryOutcomeAnnounced KeepsPromiseInTime
