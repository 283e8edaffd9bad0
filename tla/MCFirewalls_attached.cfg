SPECIFICATION FairSpec
CONSTANTS
    Balancers = {b1, b2}
    Other = Other
    UserFirewalls = {u1}
    OwnFirewalls = {o1, o2, o3}
    ACLs = {a1, a2}
    None = None
    Wants <- OneAnnotation
    Workers = 1
    FailingCalls = {"list", "create", "attach", "devices", "delete", "rules", "balancer", "cleanup", "count", "remove", "release"}
    MaxFailures = 1
    MaxEdits = 2

    
PROPERTIES
    OnlyLoneDeleted
    NeverExposed
    
CHECK_DEADLOCK FALSE
