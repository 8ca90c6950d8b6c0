SPECIFICATION Spec
CONSTANTS
    Ops = {opA}
    NoOp = NoOp
    Callers = {main}
    Archives <- MCOneFile
INVARIANTS
    CancelNeverBlocks
CHECK_DEADLOCK FALSE
