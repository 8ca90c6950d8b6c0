SPECIFICATION Spec
CONSTANTS
    Ops = {opA}
    NoOp = NoOp
    Backends = {"tar", "libarchive", "rar"}
    Archives <- MCArchives
PROPERTIES
    ReaderCancelStopsCall
