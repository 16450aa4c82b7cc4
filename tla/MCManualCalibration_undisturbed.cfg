SPECIFICATION Spec
CONSTANTS
    chassis = chassis
    lifter = lifter
    gravity = gravity
    lifterCal = lifterCal
    armCal = armCal
    wristCal = wristCal
    Controllers = {lifter, gravity, lifterCal, armCal, wristCal}
    StateControllers = {gravity}
    MainControllers = {lifter}
    CalibrationControllers = {lifterCal, armCal, wristCal}
    Gather <- TwoEntryGather
    Joints = {"lifter_joint", "joint1", "joint2", "wheels"}
    Claims <- JointClaims
    Disturb = {}
    QueryMayFail = TRUE
    PromptQuery = TRUE
    CallMayFail = TRUE
INVARIANT OneEntryAtATime
PROPERTY CalibratedIsReal
PROPERTY CalibrationEnds
