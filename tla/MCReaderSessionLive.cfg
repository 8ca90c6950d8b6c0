SPECIFICATION FairSpec
CONSTANTS
    Ops = {opA, opB}
    NoOp = NoOp
    Backends = {"tar", "zip", "rar"}
    Archives <- MCShortArchives
PROPERTIES
    EveryCallReturns
