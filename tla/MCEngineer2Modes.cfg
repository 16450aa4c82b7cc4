SPECIFICATION Spec
CONSTANTS
    CtrlKeys = {"GET_STORED", "GET_UNITS", "STORE_UNIT", "LIFTER_INIT"}
    MaxCancels = 1
    MayDie = TRUE
INVARIANTS
    TypeOK
    LockedOutOnlyByRace
    OffStopsGoals
    ArmHeldForGoal
    FollowsOnlySynchronised
PROPERTIES
    OneGoalAtATime
    ControlComesBack
    CustomForItsGoal
