SPECIFICATION RunSpec
CONSTANTS
    any = any
    reader = reader
    Requests = {any, reader}
    Offered <- MCOffered
    Launches = 3
    MaxSwitches = 1
    None = None
INVARIANTS DryRunSendsNothing ActsAsConfigured FootprintKept
CHECK_DEADLOCK FALSE
