SPECIFICATION Spec
CONSTANTS
    Extractors = {x1, x2}
    Paths <- MCPaths
    Archives <- MCArchives
    Trees <- MCTrees
SYMMETRY ExtractorSymmetry
INVARIANTS
    TypeOK
    NoTempLeft
    PublishesWinner
    OkMeansPresent
    DamagedOnlyAfterAbort
    UnverifiedHasCause
    UnverifiedCommitsNothing
PROPERTIES
    NothingLost
    ShowsOnlyWholeFiles
CHECK_DEADLOCK FALSE
