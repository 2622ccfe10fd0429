CONSTANTS
    Txns = {t1, t2}
    Readers = {}
    Slots = {s1}
    InitSlots = {s1}
    NumCols = 1
    MaxUndo = 2
    AbortAfterRewrite = TRUE
    ReaderOps = {}
    WriterOps = {"SELECT","UPDATE","DELETE"}
    MaxGC = 2
    Ops <- MCOps
    Null = Null
    InitVal = InitVal
    NoTuple = NoTuple
SPECIFICATION GCSpec
SYMMETRY TxnSymmetry
INVARIANTS OldestIsOldest NothingUsedAfterFree BuffersFreedOnce TwoRoundsFreeAll

