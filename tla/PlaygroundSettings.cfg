SPECIFICATION Spec
CONSTANTS
    NJobs = 1
    MaxCalls = 2
    MaxTrace = 1
    Keep = 1
    MaxSettings = 1
    DryFlag = FALSE
    EnvSet = FALSE
    MaxRestarts = 1
    NoFile = NoFile
    Broken = Broken
PROPERTY SettingsSurvive
CHECK_DEADLOCK FALSE
