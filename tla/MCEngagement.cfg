SPECIFICATION Spec
CONSTANTS
    Day = 12
    Second = 2
    SessionGap = 4
    Histories <- MCHistories
INVARIANTS
    SessionsAreCanonical
    AggregatesAgree
    CountsAddUp
    MartMatchesBundle
PROPERTIES
    SessionsOnlyMerge
