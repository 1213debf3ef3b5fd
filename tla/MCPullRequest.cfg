SPECIFICATION FairSpec
CONSTANTS
    MaxHead = 2
    MaxRuns = 4
    MaxRetries = 2
    MaxRepairs = 1
    People = {1}
    Unlucky = {2}
INVARIANTS RetryBudget
PROPERTIES MergesReviewed Recovers
CHECK_DEADLOCK FALSE
