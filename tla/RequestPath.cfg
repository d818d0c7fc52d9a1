SPECIFICATION FairSpec
CONSTANTS
    nameA = nameA
    r1 = r1
    r2 = r2
    Names = {nameA}
    Nothing = Nothing
    Requests = {r1, r2}
    Contents <- MCContents
    kReceiveBudget = 1
    kUpstreamReceiveBudget = 1
    kReadyBudget = 1
    kShutdownResumeBudget = 1
INVARIANTS ClosedSocketsAreUnused
PROPERTIES AnswersFollowPolicy QueriesAreAnswered
CHECK_DEADLOCK FALSE
