CONSTANTS
    a = a
    b = b
    c = c
    Nodes <- TwoNodes
    RetryCount <- RetryBoth
    AutoSkip = {}
    MaxAutoRetry = 20
    Pred <- ChainPred
    Par = {}
    Approval = {}
    Judges = {}
    RunIds = {1}
    Limit <- SetupLimit
SPECIFICATION Spec
INVARIANTS FailedIsControllable
CHECK_DEADLOCK FALSE
