SPECIFICATION RulesSpec
CONSTANTS
    IPv4s = {x1, x2, x3}
    IPv6s = {y1}
    Ports = {p1, p2}
    Nil = Nil
    MaxIPsPerFirewall = 1
    MaxRulesPerFirewall = 3
    MaxLen = 3
    Repeats = FALSE
    TakenOver <- NoneTakenOver
INVARIANTS
    RulesFollowACL
    WithinLimits
    Stable
SYMMETRY AddressSymmetry
