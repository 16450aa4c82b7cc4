SPECIFICATION Safety
CONSTANTS
    chassis = chassis
    lifter = lifter
    gravity = gravity
    lifterCal = lifterCal
    armCal = armCal
    wristCal = wristCal
    Controllers = {chassis, lifter, gravity, lifterCal}
    StateControllers = {gravity}
    MainControllers = {chassis, lifter}
    CalibrationControllers = {lifterCal}
    Gather <- LifterGather
    Joints = {"lifter_joint", "joint1", "joint2", "wheels"}
    Claims <- JointClaims
    Disturb = {"reset", "remote", "robot"}
    QueryMayFail = TRUE
    PromptQuery = TRUE
    CallMayFail = TRUE
INVARIANT TypeOK
INVARIANT NeverRefused
INVARIANT OffMeansStopped
INVARIANT OffStopsChassis
INVARIANT ControlRestored
