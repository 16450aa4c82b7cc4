SPECIFICATION Safety
CONSTANTS
    lifter = lifter
    gravity = gravity
    arm = arm
    Controllers = {lifter, gravity}
    MaxSpawned = 2
    PromptSpawn = FALSE
    CallMayFail = FALSE
SYMMETRY ControllerSymmetry
INVARIANT RequestUnambiguous
