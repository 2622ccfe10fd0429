CONSTANTS
    Inserters = {i1, i2, i3}
    Inserts = 2
    NumSlots = 2
    SizeLimit = 4
    SizeLimitMax = 4
    NDEBUG = TRUE
    Scans = FALSE
SPECIFICATION BISpec
INVARIANTS SlotHandedOnce
