SPECIFICATION FairSpec
CONSTANTS
    Nodes = {n1, n2}
    PortLists <- DistinctPorts
    Serial = TRUE
    Failing = {"list", "delete", "create", "rebuild"}
    MaxConfigs = 12
    MaxFailures = 2
    MaxEdits = 3
INVARIANTS
    QuiescentMatches
PROPERTIES
    BackendsKept
    Synced
CHECK_DEADLOCK FALSE
