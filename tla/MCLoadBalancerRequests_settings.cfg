SPECIFICATION Spec
CONSTANTS
    Unset = Unset
    Bad = Bad
    Err = Err
    Empty = Empty
    Directory <- MCDirectory
    Width = 4
    Flags <- MCNewFlags
    Starts <- MCStarts
    Edits <- MCEdits
    Secrets = {"secret"}
    MaxEdits = 1
INVARIANTS
    
    PortDecides
    SubnetsAgree
    StaysOut
    Steady

    
CHECK_DEADLOCK FALSE
