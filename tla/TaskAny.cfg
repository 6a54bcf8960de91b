CONSTANTS
    a = a
    b = b
    c = c
    Nodes <- ThreeNodes
    RetryCount <- RetryJudge
    AutoSkip = {a}
    MaxAutoRetry = 20
    Pred <- BranchPred
    Par <- ThreeNodes
    Approval = {c}
    Judges = {b}
    RunIds = {1, 2}
    Limit <- AnyLimit
SPECIFICATION Spec
INVARIANTS TypeOK NodesOK
CHECK_DEADLOCK FALSE
