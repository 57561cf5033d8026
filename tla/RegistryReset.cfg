SPECIFICATION Spec
CHECK_DEADLOCK FALSE
CONSTANTS
    Node <- MCPair
    Parent <- MCPairParent
    Below <- MCPairBelow
    Fd <- MCFd
    MaxConn = 3
    LateStart = {}
    MaxFault = 1
    Aborts = TRUE
INVARIANTS
    FdNeverAnothers
