SPECIFICATION FairSpec
CHECK_DEADLOCK FALSE
CONSTANTS
    Expire = 0
    NTrunks = 1
    TrunkUser <- MCUser
    Node <- MCChain
    Parent <- MCChainParent
    Below <- MCChainBelow
    KeyboardOf <- MCKeyboardOf
    CameraOf <- MCCameraOf
    MonitorOf <- MCMonitorOf
    TrunkOut <- MCTrunkOut
    Outport <- MCOutport
    Port <- MCPort
    MaxMsg = 2
    Mortal = {2}
    InitTtl <- MCInitTtl
INVARIANTS
    TypeOK
    PathRecorded
    PictureArrives
PROPERTIES
    
    SwitchAnswered
