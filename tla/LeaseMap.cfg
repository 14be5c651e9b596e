SPECIFICATION FairSpec
CONSTANTS
    None = None
    DefaultLimit = 8
    LongestDuration = 28800
    NumShards = 2
    MaxRelaunches = 1
    Baseline = 2048
    Calls <- SomeCalls
    Quotas <- SomeQuotas
    Timeouts = {"silent"}
    MaxCrashes = 1
    MaxFailures = 1
INVARIANTS UnderThePlan ApprovedIsRun RelaunchAfterTermination StraysAreReported SuccessIsKept
PROPERTIES KeepsFanoutPromise MapSettles
ACTION_CONSTRAINT OneUpset
CHECK_DEADLOCK FALSE
