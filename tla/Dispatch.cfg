SPECIFICATION FairSpec
CONSTANTS
    v1 = v1
    v2 = v2
    w1 = w1
    w2 = w2
    w3 = w3
    VMs <- TwoVMs
    Workers <- ThreeWorkers
    VmOf <- Placement
    Bodies = 2
    MaxAttempts = 2
    MaxRevokes = 1
INVARIANTS OnePlace ReturnedComplete
PROPERTIES DispatchEnds
CHECK_DEADLOCK FALSE
