SPECIFICATION Spec
CONSTANTS
    MaxGoals = 1
    Queues <- HangQueues
    Cells = 1
    Countdown = 0
    TfMayFail = FALSE
    MoveMayFail = FALSE
    PlaybackMayHang = TRUE
PROPERTY GoalEnds
CHECK_DEADLOCK FALSE
