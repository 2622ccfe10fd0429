CONSTANTS
    Inserters = {i1, i2, i3}
    Inserts = 2
    NumSlots = 2
    SizeLimit = 2
    SizeLimitMax = 4
    NDEBUG = FALSE
    Scans = FALSE
    Clients = {t1, t2, t3}
    Creators = {}
    Droppers = {t1}
    IndexDroppers = {}
    Writers = {t2}
    Stallers = {}
    MaxRounds = 1
    Mutators = {m1, m2}
    Deleters = {m2}
    ArrowReaders = {r1}
    BlockSlots = 2
    MaxPasses = 2
    Observed = FALSE
    ColdThreshold = 10
    Updaters = {i1, i2, i3}
    Tuples = {s1}
    MaxRedo = 1
SPECIFICATION STSpec
SYMMETRY STSymmetry
INVARIANTS SlotHandedOnce BusyExclusive  ActionsAccounted RecoversCommitted   
PROPERTY ActionsWaitForRunning
