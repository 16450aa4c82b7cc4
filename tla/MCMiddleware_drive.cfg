SPECIFICATION Safety
CONSTANTS
    MaxGoals = 2
    Queues <- DriveQueues
    Cells = 2
    Countdown = 0
    TfMayFail = TRUE
    MoveMayFail = FALSE
    PlaybackMayHang = TRUE
INVARIANT TypeOK
INVARIANT StopIsLast
PROPERTY FinishIsRealApart
PROPERTY DrivesOwnGoal
CHECK_DEADLOCK FALSE
