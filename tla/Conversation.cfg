CONSTANTS
    QueueSize = 2
    OverflowSize = 1
    MaxEvents = 2
    Scenarios <- Meetings
SPECIFICATION Spec
INVARIANTS ShownDraftIsReal NothingLostSilently HistoryIsShown
PROPERTIES CatchesUp
CHECK_DEADLOCK FALSE
