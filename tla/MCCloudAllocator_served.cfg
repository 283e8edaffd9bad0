SPECIFICATION FairSpec
CONSTANTS
    Nodes = {n1, n2}
    NumBlocks = 3
    NoCIDR = NoCIDR
    Foreign = {}
    ReserveFinal = TRUE
    ServiceBlocks = {}
    LegacyReserved = TRUE
    DisableIPv6 = TRUE
    CidrUpdateRetries = 1
    Events = {"remove", "crash", "other", "lostOther", "lostServerTimeout"}
    MaxDisruptions = 2
PROPERTIES
    Served
