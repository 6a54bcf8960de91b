CONSTANTS
    a = a
    b = b
    c = c
    Nodes <- TwoNodes
    RetryCount <- RetryA
    AutoSkip = {}
    MaxAutoRetry = 20
    Pred <- ForkPred
    Par <- TwoNodes
    Approval = {}
    Judges = {}
    RunIds = {1, 2}
    Limit <- StopLimit
SPECIFICATION Spec
INVARIANTS StopIsEffective
CHECK_DEADLOCK FALSE
