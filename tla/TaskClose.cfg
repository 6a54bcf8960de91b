CONSTANTS
    a = a
    b = b
    c = c
    Nodes <- TwoNodes
    RetryCount <- RetryBoth
    AutoSkip = {}
    MaxAutoRetry = 20
    Pred <- ChainPred
    Par = {}
    Approval = {}
    Judges = {}
    RunIds = {1}
    Limit <- CloseLimit
SPECIFICATION Spec
INVARIANTS OnlyUserStops
CHECK_DEADLOCK FALSE
