CONSTANTS
    k1 = k1
    Requests = {r1}
    Keys = {k1}
    KeyOf <- OneKey
    NoSnapshot = NoSnapshot
    PollLookups = 1
    WriterAttempts = 2
    Faults = {"bank", "kafka", "ack"}
    MaxEvents = 3
    MaxCrashes = 1
    CallerEvents <- OneEach
    LedgerHandlers = {h1}
    LedgerPosts = 1
    LedgerCommitFaults = TRUE
    LedgerRestarts = 1
CHECK_DEADLOCK FALSE
SPECIFICATION PipelineFairSpec
INVARIANTS BookedMoneyWasApproved MarkedIsNotLost
PROPERTIES EveryCompletedPaymentBooked KeepsPromise
