CONSTANTS
    Endpoints = {h1}
    Events = {1}
    Unusable = Unusable
    Attempts = 2
    Faults = {"db", "queue", "http"}
    MaxLog = 2
    MaxRetries = 1
    MaxEdits = 1
    MaxCrashes = 2
CHECK_DEADLOCK FALSE
SPECIFICATION Spec
INVARIANTS TypeOK Consistent LettersAreEarned CallsAreBounded CompletedMeansDecided
PROPERTIES KeepsPromise
