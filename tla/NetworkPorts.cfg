SPECIFICATION Spec
CHECK_DEADLOCK FALSE
CONSTANTS
    Expire = 0
    NTrunks = 1
    TrunkUser <- MCUser
    Node <- MCChain
    Parent <- MCChainParent
    Below <- MCChainBelow
    KeyboardOf <- MCKeyboardOf
    CameraOf <- MCCameraOf
    MonitorOf <- MCMonitorOf
    TrunkOut <- MCTrunkOut
    Outport <- MCFarOutport
    Port <- MCPorts
    MaxMsg = 2
    Mortal = {}
    InitTtl <- MCInitTtl
INVARIANTS
    PictureArrives
