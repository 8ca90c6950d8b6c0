SPECIFICATION Spec
CONSTANTS
    Ops = {opA}
    NoOp = NoOp
    Callers = {}
    Archives <- MCOneFile
INVARIANTS
    RefusalNeverBlocks
CHECK_DEADLOCK FALSE
