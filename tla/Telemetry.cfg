SPECIFICATION FairSpec
CONSTANTS
    RingSize = 2
    TailSize = 1
    MaxLines = 5
    MaxMisses = 2
    WireCap = 1
    None = None
INVARIANTS InOrderOnce OnlyOverrunsAreMissed DoneReaderHasTheEnd
PROPERTIES ReadersEnd
CHECK_DEADLOCK FALSE
