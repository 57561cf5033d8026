SPECIFICATION FairSpec
CHECK_DEADLOCK FALSE
CONSTANTS
    Node <- MCTree
    Parent <- MCTreeParent
    Below <- MCTreeBelow
    Fd <- MCFd
    MaxConn = 4
    LateStart = {}
    MaxFault = 1
    Aborts = FALSE
INVARIANTS
    TypeOK
    RoutesLeadDown
    EntryFdIsChilds
PROPERTIES
    EntryEndsWithConnection
    
