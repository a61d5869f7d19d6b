SPECIFICATION Spec
CONSTANTS
    p1 = p1
    p2 = p2
    Pid <- MCPid
    MaxStart = 3
    MaxExec = 1
SYMMETRY Pids
INVARIANTS
    TypeOK
    OwnCommand
    AskedOnce
    
PROPERTIES
    Complete
