SPECIFICATION Spec
CONSTANTS
    Folder = Folder
    Inputs <- MCInputs
    VolumeSizes <- MCVolumeSizes
    Origins <- MCOrigins
    Strangers <- MCStrangers
INVARIANTS
    TypeOK
    OldFilesSurvive
    FailedLeavesNothing
    LossHasCause
    VolumesWithinSize
    LateCancelOnlyIsLost
CHECK_DEADLOCK FALSE
