SPECIFICATION Spec
CONSTANTS
    g1 = g1
    g2 = g2
    g3 = g3
    None = None
    Partition <- MCPartition
    EventId <- MCEventId
    Body = {"a", "b"}
    Watermark = 1
    Logs <- MCLogs
    Generation <- MCGeneration
SYMMETRY Symmetry
CHECK_DEADLOCK FALSE
INVARIANTS
    ReplayCorrects
