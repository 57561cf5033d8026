SPECIFICATION FairSpec
CHECK_DEADLOCK FALSE
CONSTANTS
    Node <- MCChain
    Parent <- MCChainParent
    Below <- MCChainBelow
    Fd <- MCFd
    MaxConn = 4
    LateStart = {1}
    MaxFault = 1
    Aborts = TRUE
INVARIANTS
    RoutesLeadDown

    
