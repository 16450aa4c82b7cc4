SPECIFICATION Spec
CONSTANTS
    lifter = lifter
    gravity = gravity
    arm = arm
    Controllers = {lifter, gravity}
    MaxSpawned = 2
    PromptSpawn = TRUE
    CallMayFail = TRUE
INVARIANT TypeOK
INVARIANT BuffersDisjoint
INVARIANT RequestUnambiguous
INVARIANT CommandNotLost
PROPERTY RequestNotTorn
PROPERTY EventuallySwitched
PROPERTY ImplementsPort
