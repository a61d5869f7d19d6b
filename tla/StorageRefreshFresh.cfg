CHECK_DEADLOCK FALSE
SPECIFICATION HSpec
CONSTANTS
    root = root
    NoDir = NoDir
    Root = root
    Dir <- MCDir
    ParentOf <- MCParentOf
    MountOf <- MCMountOf
    Task <- MCTask
    Bounded = {}
INVARIANT FreshAfterRefresh
