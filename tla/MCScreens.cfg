\* The program may quit.
CHECK_DEADLOCK FALSE
SPECIFICATION Spec
CONSTANTS
    none = none
    NoProcess = none
    Process <- MCProcess
    HitLists <- MCHitLists
    MaxRow = 2
INVARIANTS
    TypeOK
    NumberIsSelected
    HitIsMarked
PROPERTIES
    DigitCounts
    PinFollowsCursor
