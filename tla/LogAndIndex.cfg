CONSTANTS
    Loggers = {l1, l2}
    ReadOnly = {l2}
    Large = {l1}
    SegmentSize = 1
    Pieces = 2
    BufferSize = 3
    NumBuffers = 2
    Flushers = {f1}
    IxTxns = {x1, x2, x3}
    Keys = {k1}
    NumRows = 3
SPECIFICATION LISpec
SYMMETRY LISymmetry
INVARIANTS TransactionsLogged StopPersistsAll UniqueInSnapshot IndexComplete EntriesExact
PROPERTY LogRefines
