SPECIFICATION Spec
CHECK_DEADLOCK FALSE
CONSTANTS
    Section <- MCSection
    Default <- MCDefault
    Key <- MCKey
    Value = {7, 8}
    NoValue = 0
    MaxLines = 4
    Inner = {5, 7}
    MaxPackets = 4
    MaxLost = 2
    LastMonitor = 84
INVARIANTS
    
    SavedReadsBack
    Resynchronised
    
    WindowFillsRectangle
