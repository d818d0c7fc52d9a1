SPECIFICATION FairSpec
CONSTANTS
    Workers = {w1}
    NoWorker = NoWorker
    Restart = TRUE
    max_attempts = 2
    initial_backoff = 1
    max_backoff = 3
    MaxInstance = 4
PROPERTIES StopCompletes FailureIsResolved
