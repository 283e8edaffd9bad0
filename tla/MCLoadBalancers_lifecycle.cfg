SPECIFICATION FairSpec
CONSTANTS
    Names = {s1}
    UserNBs = {}
    OwnNBs = {o1, o2, o3, o4}
    None = None
    Anns <- Releasing
    Reuse = TRUE
    NodeSync = TRUE
    Failing = {"lookup", "update", "create", "cleanup", "purge", "get", "delete", "address", "finalizer"}
    MaxFailures = 2
    MaxEdits = 2
INVARIANTS
    NoneForgotten

    
    
CHECK_DEADLOCK FALSE
