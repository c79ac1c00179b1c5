CONSTANTS
    p1 = p1
    p2 = p2
    m1 = m1
    Ids = {1, 2, 3, 4}
    Payments = {p1, p2}
    Merchants = {m1}
    MerchantOf <- OneMerchant
    Amounts = {1, 2}
    Events <- MCEvents
    Consumer = consumer
    Handlers = {h1, h2}
    DbFaults = {h1, h2}
    CommitFaults = TRUE
    MaxLog = 3
    MaxPosts = 2
    MaxRestarts = 2
CHECK_DEADLOCK FALSE
SPECIFICATION FairSpec
INVARIANTS TypeOK PostedExactlyOnce PendingMatchesJournal CommittedIsPosted
PROPERTIES EveryEventPosted KeepsPromise
