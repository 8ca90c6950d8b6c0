SPECIFICATION Spec
CONSTANTS
    MaxWord = 31
    RatioFloor = 2
    BlockSize = 4
    MaxMetadata = 4
    FooterRange = 8
    PathNames <- MCPathNames
    Calls <- MCCalls
    Blocks <- MCBlocks
    Chunks <- MCChunks
INVARIANTS
    TypeOK
    WithinLimits
    OpenedAsWhatItIs
    TarAsWritten
    VolumeSetWhole
CHECK_DEADLOCK FALSE
