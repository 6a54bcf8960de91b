CONSTANTS
    a = a
    b = b
    c = c
    Nodes <- TwoNodes
    RetryCount <- RetryBoth
    AutoSkip = {a}
    MaxAutoRetry = 20
    Pred <- ChainPred
    Par = {}
    Approval = {b}
    Judges = {}
    RunIds = {1}
    Limit <- ChainLimit
SPECIFICATION Spec
INVARIANTS StopIsEffective OnlyUserStops
PROPERTIES ImplementsLifecycle
CHECK_DEADLOCK FALSE
