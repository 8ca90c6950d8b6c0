SPECIFICATION Spec
CONSTANTS
    Ops = {opA, opB}
    NoOp = NoOp
    Callers = {main}
    Archives <- MCOneFile
SYMMETRY OpSymmetry
INVARIANTS
    TypeOK
    CancelReachesRunning
    WearsOutWithCause
    CancelledHasCause
    OkMeansComplete
    AtMostOneCallAfterCancel
PROPERTIES
    ImplementsContract
CHECK_DEADLOCK FALSE
