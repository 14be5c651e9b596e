SPECIFICATION MonitorSpec
CONSTANTS
    m1 = m1
    m2 = m2
    w1 = w1
    w2 = w2
    w3 = w3
    VMs <- Members
    Workers <- Threads
    Job = Job
    Page = Page
    Timeout = 1
    MaxQueue = 2
    None = None
INVARIANTS SettledIsTrue NoBacklog GoodAreAnswered
SYMMETRY Alike
CHECK_DEADLOCK FALSE
