SPECIFICATION Spec
CONSTANTS
    Workers = {w1, w2}
    NoWorker = NoWorker
    Restart = TRUE
    max_attempts = 2
    initial_backoff = 1
    max_backoff = 3
    MaxInstance = 3
SYMMETRY Symmetry
INVARIANTS QuiescedMeansGone ServesOnlyWhenReleased WaitersAreAnswered
PROPERTIES RestartBudget
