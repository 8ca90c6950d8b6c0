SPECIFICATION Spec
CONSTANTS
    Extractors = {x1, x2}
    Paths <- MCPaths
    Archives <- MCArchives
    Trees <- MCTrees
    Size = 1
    MaxRuns = 2
SYMMETRY ExtractorSymmetry
INVARIANTS
    TypeOK
    OldFilesSurvive
    NoStrayTemp
    AllOkMeansPresent
    WritesStayInside
PROPERTIES
    ShowsOnlyWholeFiles
CHECK_DEADLOCK FALSE
