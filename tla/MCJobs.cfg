\* The program may quit: the receiver is dropped and the last threads end.
CHECK_DEADLOCK FALSE
SPECIFICATION FairSpec
CONSTANTS
    dirScan = dirScan
    logs = logs
    drives = drives
    Key <- MCKey
    Bounded <- MCBounded
INVARIANTS
    TypeOK
    SingleFlight
    RunningIsInFlight
PROPERTIES
    ImplementsAtomicJobs
    Answered
