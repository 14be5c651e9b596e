SPECIFICATION Spec
CONSTANTS
    t1 = t1
    Free = Free
    Terminators <- OneTerminator
    Kinds <- HttpOnly
    HttpTries = 2
    SdkTries = 1
INVARIANT VerdictLeavesBeforeTeardown
CHECK_DEADLOCK FALSE
