CONSTANTS
    Txns = {t1, t2}
    Readers = {}
    Slots = {s1}
    InitSlots = {s1}
    NumCols = 2
    MaxUndo = 1
    AbortAfterRewrite = FALSE
    ReaderOps = {}
    WriterOps = {"SELECT","UPDATE","DELETE"}
    Ops <- MCOps
    Null = Null
    InitVal = InitVal
    NoTuple = NoTuple
    MaxGC = 1
SPECIFICATION GCSpec
SYMMETRY TxnSymmetry
PROPERTY SnapshotIsolated
