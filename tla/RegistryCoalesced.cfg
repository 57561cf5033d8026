SPECIFICATION Spec
CHECK_DEADLOCK FALSE
CONSTANTS
    Node <- MCChain
    Parent <- MCChainParent
    Below <- MCChainBelow
    Fd <- MCFd
    MaxConn = 2
    LateStart = {}
    MaxFault = 0
    Aborts = FALSE
INVARIANTS
    SubtreesKnown
