SPECIFICATION FairSpec
CONSTANTS
    a = a
    b = b
    Threads <- TwoThreads
    Demand = 2
    MaxAttempts = 2
    Unit = 25
    Gain = 8
    Second = 5
    Window = 10
INVARIANTS WindowBound SleepSuffices
PROPERTIES CallsSettle
CHECK_DEADLOCK FALSE
