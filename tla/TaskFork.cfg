CONSTANTS
    a = a
    b = b
    c = c
    Nodes <- TwoNodes
    RetryCount <- RetryA
    AutoSkip = {}
    MaxAutoRetry = 20
    Pred <- ForkPred
    Par <- TwoNodes
    Approval = {b}
    Judges = {}
    RunIds = {1}
    Limit <- ForkLimit
SPECIFICATION FairSpec
INVARIANTS NoLostWakeup FailedIsControllable
PROPERTIES DoneIsFinal HandledOnce RestartKeepsApprovals RunEnds PromiseIsKept
CHECK_DEADLOCK FALSE
