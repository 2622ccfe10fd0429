CONSTANTS
    Txns = {t1, t2}
    Readers = {t2}
    Slots = {s1}
    InitSlots = {s1}
    NumCols = 1
    MaxUndo = 2
    AbortAfterRewrite = TRUE
    ReaderOps = {"SELECT"}
    WriterOps = {"UPDATE"}
    Ops <- MCOps
    Null = Null
    InitVal = InitVal
    NoTuple = NoTuple
SPECIFICATION Spec
SYMMETRY TxnSymmetry
INVARIANT ReadersNeverSeeAborted
