\* The measurement ends.
CHECK_DEADLOCK FALSE
SPECIFICATION FairSpec
CONSTANTS
    root = root
    a = a
    b = b
    f1 = f1
    f2 = f2
    f3 = f3
    s = s
    m = m
    g = g
    v = v
    w = w
    Root = root
    Node <- MCNode
    Parent <- MCParent
    Kind <- MCKind
    Device <- MCDevice
    Inode <- MCInode
    LinkedOutside = {}
    Hidden = {}
    MayDeny <- MCMayDeny
    Volatile <- MCVolatile
INVARIANTS
    TypeOK
    CountedOnce
    SaysWhatIsMissing
    ItemsAreAll
PROPERTY Ends
