SPECIFICATION FairSpec
CONSTANTS
    MaxVMs = 3
    Width = 2
    MaxFailures = 1
    Already = 2
    MaxOps = 2
    MaxTurns = 1
INVARIANTS ForgottenAreDead TerminatedOnce ReturnsExact SparesWarm
PROPERTIES OpsEnd
CHECK_DEADLOCK FALSE
