CONSTANTS
    k1 = k1
    Requests = {r1}
    Keys = {k1}
    KeyOf <- OneKey
    NoSnapshot = NoSnapshot
    PollLookups = 1
    WriterAttempts = 2
    Faults = {}
    MaxEvents = 2
    MaxCrashes = 0
    CallerEvents = {}
    LedgerHandlers = {}
    LedgerPosts = 0
    LedgerCommitFaults = FALSE
    LedgerRestarts = 0
CHECK_DEADLOCK FALSE
SPECIFICATION PipelineSpec
INVARIANTS OnePostingPerPayment
