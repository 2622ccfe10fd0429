CONSTANTS
    Loggers = {l1, l2}
    ReadOnly = {}
    Large = {l1}
    SegmentSize = 1
    Pieces = 2
    BufferSize = 3
    NumBuffers = 2
    Flushers = {f1}
SPECIFICATION WALSpec
INVARIANT ForceFlushPersists
