CONSTANTS
    k1 = k1
    Requests = {r1, r2}
    Keys = {k1}
    KeyOf <- OneKey
    NoSnapshot = NoSnapshot
    PollLookups = 2
    WriterAttempts = 1
    Faults = {}
    MaxEvents = 3
    MaxCrashes = 1
CHECK_DEADLOCK FALSE
SPECIFICATION FairSpec
PROPERTIES BankAnswerRecorded
