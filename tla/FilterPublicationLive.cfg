SPECIFICATION FairSpec
CONSTANTS
    Workers = {w1}
    MaxGeneration = 3
    MaxInstance = 2
PROPERTIES
    CommittedUpdateAnswered
    TeardownCompletes
