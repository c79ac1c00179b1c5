CONSTANTS
    k1 = k1
    Requests = {r1, r2, r3}
    Keys = {k1}
    KeyOf <- OneKey
    NoSnapshot = NoSnapshot
    PollLookups = 2
    WriterAttempts = 2
    Faults = {"db", "redis", "expiry", "bank", "cancel", "kafka", "ack"}
    MaxEvents = 2
    MaxCrashes = 1
CHECK_DEADLOCK FALSE
SPECIFICATION Spec
SYMMETRY Interchangeable
INVARIANTS TypeOK Consistent OnePaymentShownPerKey AnswersAreBacked BankCallsAreRecorded AnswersAreHonest EventsTellTheOutcome
PROPERTIES DecisionsAreFinal KeepsPromise
