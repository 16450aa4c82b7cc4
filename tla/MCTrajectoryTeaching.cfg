SPECIFICATION Spec
CONSTANTS
    Joints = 2
    Files = {"a", "b"}
    Unwritable = {"b"}
    Written <- MCWritten
    MaxPoints = 2
CHECK_DEADLOCK FALSE
INVARIANTS
    TypeOK
    SavedRecording
    RecordingHasPoints
    CancelledPlaybackHolds
PROPERTIES
    GoalsEnd
