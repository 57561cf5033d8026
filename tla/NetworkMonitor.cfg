SPECIFICATION Spec
CHECK_DEADLOCK FALSE
CONSTANTS
    Expire = 0
    NTrunks = 1
    TrunkUser <- MCTopUser
    Node <- MCChain
    Parent <- MCChainParent
    Below <- MCChainBelow
    KeyboardOf <- MCTopKeyboards
    CameraOf <- MCCameraOf
    MonitorOf <- MCMonitorOf
    TrunkOut <- MCTrunkOut
    Outport <- MCOutport
    Port <- MCPort
    MaxMsg = 2
    Mortal = {}
    InitTtl <- MCInitTtl
PROPERTIES
    MonitorExclusive
