\* The program may quit.
CHECK_DEADLOCK FALSE
SPECIFICATION Spec
CONSTANTS
    root = root
    var = var
    log = log
    NoDir = NoDir
    Root = root
    Dir <- MCDir
    ParentOf <- MCParentOf
    MountOf <- MCMountOf
    Task <- MCTask
    Bounded <- MCBounded
PROPERTY ViewStaysPut
