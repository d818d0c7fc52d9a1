SPECIFICATION FairSpec
CONSTANTS
    main = main
    other = other
    third = third
    NoCaller = NoCaller
    Callers <- TwoCallers
    Program <- StopOnly
    MaxJoinFailures = 1
PROPERTY
    ServiceSettles
