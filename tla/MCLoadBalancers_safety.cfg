SPECIFICATION Spec
CONSTANTS
    Names = {s1}
    UserNBs = {u1, u2}
    OwnNBs = {o1, o2}
    None = None
    Anns <- Unreserved
    Reuse = FALSE
    NodeSync = FALSE
    Failing = {"lookup", "update", "create", "cleanup", "purge", "get", "delete", "address", "balancer", "finalizer"}
    MaxFailures = 2
    MaxEdits = 3
PROPERTIES
    
    PreservedKept
CHECK_DEADLOCK FALSE
