SPECIFICATION Spec
CONSTANTS
    main = main
    other = other
    third = third
    NoCaller = NoCaller
    Callers <- TwoCallers
    Program <- WaitOnly
    MaxJoinFailures = 0
INVARIANT
    WaitTearsDownOnlyStopped
