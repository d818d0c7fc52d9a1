SPECIFICATION FairSpec
CONSTANTS
    q1 = q1
    q2 = q2
    q3 = q3
    sameName = sameName
    otherName = otherName
    Nobody = Nobody
    Queries = {q1, q2, q3}
    Question <- Questions
    transaction_id_capacity = 2
    kTransactionIdSpace = 3
    query_timeout = 1
    id_reuse_guard = 2
    MaxDelay = 1
    MaxTime = 3
INVARIANTS IdsArePartitioned ResponseIsOwn
PROPERTIES CompletesOnce QueriesEnd
CHECK_DEADLOCK FALSE
