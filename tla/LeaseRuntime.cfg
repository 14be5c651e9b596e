SPECIFICATION FairSpec
CONSTANTS
    t1 = t1
    Free = Free
    Terminators <- OneTerminator
    Kinds <- EachKind
    HttpTries = 2
    SdkTries = 1
INVARIANTS OneVerdict LostIsTrue
PROPERTIES KeepsPromise ThreadsEnd
CHECK_DEADLOCK FALSE
