SPECIFICATION Spec
CONSTANTS
    MaxGoals = 2
    Queues <- HangQueues
    Cells = 1
    Countdown = 0
    TfMayFail = TRUE
    MoveMayFail = TRUE
    PlaybackMayHang = TRUE
INVARIANT EndsAtRest
PROPERTY WatchedGoalEnds
PROPERTY PreemptEnds
CHECK_DEADLOCK FALSE
