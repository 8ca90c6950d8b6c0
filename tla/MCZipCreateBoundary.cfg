SPECIFICATION Spec
CONSTANTS
    Folder = Folder
    Inputs <- MCInputs
    VolumeSizes <- MCVolumeSizes
    Origins <- MCOrigins
    Strangers <- MCStrangers
INVARIANTS
    SplitArchiveIsComplete
CHECK_DEADLOCK FALSE
