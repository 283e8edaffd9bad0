SPECIFICATION FairSpec
CONSTANTS
    l1 = l1  l2 = l2  l3 = l3
    n1 = n1  n2 = n2
    ip1 = ip1  ip2 = ip2  ip3 = ip3
    v1 = v1  v2 = v2  s1 = s1  s2 = s2
    Linodes = {l1, l2}
    About <- Replacement
    VPCNames <- TwoVPCs
    SubnetsOf <- DistinctSubnets
    SubnetOptions = {{}, {s1, s2}}
    None = None
    Failing = {"instances", "vpc", "process"}
    QuickBoot = FALSE
    StaleSubnets = FALSE
    MaxDisruptions = 1
INVARIANTS
    MetadataRight
PROPERTIES
    OnlyDeadRemoved
    Initialized
    
CHECK_DEADLOCK FALSE
