SPECIFICATION FairSpec
CONSTANTS
    p1 = p1
    p2 = p2
    w1 = w1
    w2 = w2
    None = None
    Partition <- MCPartition
    EventId <- MCEventId
    Body <- MCBody
    Unbindable <- MCUnbindable
    Watermark = 1
    Worker <- MCWorker
    Logs <- MCLogs
    Feeds <- MCFeeds
    MaxCrashes = 1
INVARIANTS
    TypeOK
    Conservation
    OneEffectPerIdentity
    LatenessIsReplayable
    UnbindableStopsPartition
    FailureHasAWinner
PROPERTIES
    ConsumesAtomically
    EventuallySettled
