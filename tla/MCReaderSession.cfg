SPECIFICATION Spec
CONSTANTS
    Ops = {opA, opB}
    NoOp = NoOp
    Backends = {"tar", "gzip", "libarchive", "zip", "rar"}
    Archives <- MCArchives
SYMMETRY OpSymmetry
INVARIANTS
    TypeOK
    Serialized
    OkMeansComplete
    CancelledHasCause
    AtMostOneCallAfterCancel
PROPERTIES
    ImplementsContract
