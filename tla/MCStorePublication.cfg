SPECIFICATION Spec
CONSTANTS
    p1 = p1
    p2 = p2
    g1 = g1
    g2 = g2
    b1 = b1
    b2 = b2
    None = None
    Partition <- MCPartition
    EventId <- MCEventId
    Body = {"a"}
    Unbindable = {}
    Watermark = 1
    Logs <- MCLogs
    Generation <- MCGeneration
    Builder <- MCBuilder
SYMMETRY Symmetry
INVARIANTS
    TypeOK
    BundleWithinFrontier
    LateOnlyThroughReplay
    CorrectionsFollowPublication
    OneWriterPerBundle
PROPERTIES
    PublishesByCompareAndSwap
    FrontierNeverRewinds
    AbandonedForGood
