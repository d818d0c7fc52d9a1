SPECIFICATION FairSpec
CONSTANTS
    Frames = {f1, f2, f3}
    None = None
    MaxTime = 1
    kTimerBudget = 1
    kReadyBudget = 1
    kShutdownResumeBudget = 2
INVARIANTS FramesAreOwnedOnce EveryFrameHasOneWaker ShutdownLeavesNothing
PROPERTIES WakeupsArrive
