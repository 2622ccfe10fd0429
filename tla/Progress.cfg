CONSTANTS
    Txns = {t1, t2}
    Readers = {t2}
    Slots = {s1}
    InitSlots = {s1}
    NumCols = 1
    MaxUndo = 1
    AbortAfterRewrite = TRUE
    ReaderOps = {"SELECT", "UPDATE"}
    WriterOps = {"UPDATE"}
    Ops <- MCOps
    Null = Null
    InitVal = InitVal
    NoTuple = NoTuple
    MaxGC = 1
    Inserters = {i1, i2}
    Inserts = 2
    NumSlots = 2
    SizeLimit = 2
    SizeLimitMax = 2
    NDEBUG = FALSE
    Scans = TRUE
    Clients = {t1, t2}
    Creators = {}
    Droppers = {t1}
    IndexDroppers = {t2}
    Writers = {t2}
    Stallers = {t1}
    MaxRounds = 1
    Loggers = {l1}
    ReadOnly = {}
    Large = {l1}
    SegmentSize = 1
    Pieces = 2
    BufferSize = 3
    NumBuffers = 1
    Flushers = {f1}
SPECIFICATION PRSpec
 
PROPERTIES EngineCallsReturn ActionsRun LogWaitsEnd
