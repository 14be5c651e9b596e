SPECIFICATION FairSpec
CONSTANTS
    NumShards = 2
    Machines <- SomeMachines
    Budget = 2
    Slack = 1
    LongestDuration = 8
    MaxAttempts = 1
    MaxFailures = 1
INVARIANTS WithinConcurrency LiveAreNotStale StraysAreExcused
PROPERTIES ExecutionEnds
CHECK_DEADLOCK FALSE
