CONSTANTS
    Parts = 3
    Throttle = 1
    MaxQueue = 2
    MaxLost = 1
SPECIFICATION FairSpec
CHECK_DEADLOCK FALSE
INVARIANTS
    NoLostWakeup
    ConnectedAgrees
    OneSessionInBuffer
PROPERTIES
    TelemetryFlows
    DisconnectIsShown
