SPECIFICATION Safety
CONSTANTS
    MaxGoals = 1
    Queues <- DriveQueues
    Cells = 2
    Countdown = 0
    TfMayFail = FALSE
    MoveMayFail = FALSE
    PlaybackMayHang = FALSE
PROPERTY FinishIsReal
CHECK_DEADLOCK FALSE
