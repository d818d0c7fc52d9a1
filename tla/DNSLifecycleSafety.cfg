SPECIFICATION Spec
CONSTANTS
    main = main
    other = other
    third = third
    NoCaller = NoCaller
    Callers <- ThreeCallers
    Program <- StopAndJoin
    MaxJoinFailures = 1
INVARIANTS
    OwnersOutliveThreads
    NothingLeftBehind
    FailedStartServesNobody
PROPERTY
    FirstCauseWins
