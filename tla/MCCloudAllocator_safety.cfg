SPECIFICATION Spec
CONSTANTS
    Nodes = {n1, n2}
    NumBlocks = 4
    NoCIDR = NoCIDR
    Foreign = {f1}
    ReserveFinal = TRUE
    ServiceBlocks = {1}
    LegacyReserved = FALSE
    DisableIPv6 = FALSE
    CidrUpdateRetries = 2
    Events = {"remove", "ipv6", "crash", "relist", "other", "serverTimeout"}
    MaxDisruptions = 3
INVARIANTS
    NoDuplicateCIDR
    OneOwner
PROPERTIES
    
    LeaksAccepted
SYMMETRY NodeSymmetry
CHECK_DEADLOCK FALSE
