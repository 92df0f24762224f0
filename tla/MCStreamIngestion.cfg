SPECIFICATION FairSpec
CONSTANTS
    p1 = p1
    p2 = p2
    None = None
    Partition <- MCPartition
    Field <- MCField
    TimeField <- MCTimeField
    Records <- MCRecords
    TimestampTexts = {TRUE, FALSE}
    MaxRecords = 3
    MaxAttempts = 2
CHECK_DEADLOCK FALSE
INVARIANTS
    GateDecides
    RoutedOnce
PROPERTIES
    CommittedIsFinal
    CapturesWholeBatches
    EventuallyCaptured
