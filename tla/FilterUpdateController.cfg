SPECIFICATION FairSpec
CONSTANTS
    c1 = c1
    c2 = c2
    c3 = c3
    NoCommand = NoCommand
    Commands = {c1, c2, c3}
    Rules <- ThreeUpdates
    Workers = {w1}
    maximum_rule_count = 2
    maximum_normalized_rule_bytes = 3
    maximum_queued_rule_bytes = 3
    kMaximumPendingUpdates = 2
    MaxGeneration = 3
INVARIANTS AnswersAreTrue QueueAccounting CreditHasOneHolder
PROPERTIES EveryUpdateAnswered TeardownFinishes
