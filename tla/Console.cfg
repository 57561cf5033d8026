SPECIFICATION FairSpec
CHECK_DEADLOCK FALSE
CONSTANTS
    Slot = {0, 1}
    Enabled = {0}
    Broken = {0}
    InitId = {7}
    MatrixId = 1
    Camera = {2}
    Monitor = {1}
    Reachable = {2}
    Inport = {9}
    Outport = {8}
    Fd = {4}
    KeyPacket <- MCKeyPacket
    GuiPacket <- MCGuiPacket
    PtzRequest <- MCPtzRequest
    MaxEvents = 2
INVARIANTS
    TypeOK
    
    CommandOnWire
    
PROPERTIES
    DispatchedInOrder
    EventsHandled
    
