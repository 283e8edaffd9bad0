SPECIFICATION FairSpec
CONSTANTS
    Nodes = {n1, n2}
    IPv4 = {c1, c2}
    IPv6 = {d1, d2}
    Missing = Missing
    MaxFailures = 1
    MaxEdits = 4
PROPERTIES
    
    CreationsCease
