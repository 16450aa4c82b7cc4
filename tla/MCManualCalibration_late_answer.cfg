SPECIFICATION Safety
CONSTANTS
    chassis = chassis
    lifter = lifter
    gravity = gravity
    lifterCal = lifterCal
    armCal = armCal
    wristCal = wristCal
    Controllers = {chassis, lifter, gravity, lifterCal, armCal}
    StateControllers = {gravity}
    MainControllers = {chassis, lifter}
    CalibrationControllers = {lifterCal, armCal}
    Gather <- Engineer2Gather
    Joints = {"lifter_joint", "joint1", "joint2", "wheels"}
    Claims <- JointClaims
    Disturb = {"reset"}
    QueryMayFail = FALSE
    PromptQuery = FALSE
    CallMayFail = FALSE
PROPERTY CalibratedIsReal
