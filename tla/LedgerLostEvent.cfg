CONSTANTS
    p1 = p1
    p2 = p2
    m1 = m1
    Ids = {1, 2, 3, 4}
    Payments = {p1, p2}
    Merchants = {m1}
    MerchantOf <- OneMerchant
    Amounts = {1, 2}
    Events <- MCEvents
    Consumer = consumer
    Handlers = {h1}
    DbFaults = {consumer}
    CommitFaults = FALSE
    MaxLog = 3
    MaxPosts = 0
    MaxRestarts = 0
CHECK_DEADLOCK FALSE
SPECIFICATION Spec
INVARIANTS CommittedIsPosted
