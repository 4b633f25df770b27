CONSTANTS
    MaxPacketSize = 2
    RemoteMaxPacketSize = 1
    RemoteWindowSize = 1
    MaxWrites = 2
    MaxData = 3
    MaxSignals = 1
    MaxQueue = 2
SPECIFICATION SessionSpec
INVARIANTS
    SignalsInOrder
    ReplyIsTimed
    WindowsAgree
PROPERTIES
    NobodyIsAccused
    CloseEnds
CHECK_DEADLOCK FALSE
