SPECIFICATION FairSpec
CONSTANTS
    Source <- MCSource
    List <- MCList
    MinGap = 1
    Interval = 2
    Long = 5
INVARIANTS
    TypeOK
    DividedByItsSpan
    WarmIsMeasured
PROPERTIES
    Recovers
