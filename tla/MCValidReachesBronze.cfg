SPECIFICATION Spec
CONSTANTS
    p1 = p1
    p2 = p2
    None = None
    Partition <- MCPartition
    Field <- MCField
    TimeField <- MCTimeField
    Records <- MCRecords
    TimestampTexts = {FALSE}
    MaxRecords = 2
    MaxAttempts = 2
CHECK_DEADLOCK FALSE
INVARIANTS
    ValidReachesBronze
