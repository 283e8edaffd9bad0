SPECIFICATION MCSpec
CONSTANTS
    Names = {n1, n2}
    Changing = {n1}
    Addresses = {"ipv6"}
    Values = {1, 2}
    None = None
    Steps = 2
    MaxDisruptions = 2
PROPERTIES
    NeverOlder
    NothingLost
    Accurate
    Registered
CHECK_DEADLOCK FALSE
