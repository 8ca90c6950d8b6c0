SPECIFICATION Spec
CONSTANTS
    MaxWord = 31
    RatioFloor = 2
    BlockSize = 4
    MaxMetadata = 4
    FooterRange = 8
    PathNames <- MCPathNames
    Calls <- MCStreams
    Blocks <- MCBlocks
    Chunks <- MCChunks
INVARIANTS
    TotalIsLimited
CHECK_DEADLOCK FALSE
