CONSTANTS
    Txns = {t1, t2, t3}
    Readers = {t3}
    Slots = {s1}
    InitSlots = {s1}
    NumCols = 1
    MaxUndo = 1
    AbortAfterRewrite = FALSE
    ReaderOps = {"SELECT"}
    WriterOps = {"UPDATE","DELETE"}
    Ops <- MCOps
    Null = Null
    InitVal = InitVal
    NoTuple = NoTuple
SPECIFICATION Spec
SYMMETRY TxnSymmetry
PROPERTY SnapshotIsolated
