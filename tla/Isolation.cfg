CONSTANTS
    Txns = {t1, t2}
    Readers = {}
    Slots = {s1, s2}
    InitSlots = {s1}
    NumCols = 1
    MaxUndo = 2
    AbortAfterRewrite = FALSE
    ReaderOps = {}
    WriterOps = {"SELECT","ISVISIBLE","INSERT","UPDATE","DELETE"}
    Ops <- MCOps
    Null = Null
    InitVal = InitVal
    NoTuple = NoTuple
SPECIFICATION Spec
SYMMETRY TxnSymmetry
INVARIANTS LockingInv WriteLockHeld ChainSorted InPlaceWrites
PROPERTY SnapshotIsolated
