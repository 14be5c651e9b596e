SPECIFICATION Spec
CONSTANTS
    NJobs = 1
    MaxCalls = 2
    MaxTrace = 2
    Keep = 1
    MaxSettings = 1
    DryFlag = FALSE
    EnvSet = FALSE
    MaxRestarts = 1
    NoFile = NoFile
    Broken = Broken
INVARIANTS RunningHasRunner DoneHasResult TraceOrdered
 
CONSTRAINT TwoChanges
CHECK_DEADLOCK FALSE
