SPECIFICATION FairSpec
CONSTANTS
    Clients = {c1, c2}
    None = None
    Faults = {"stop", "throw", "adapter"}
CHECK_DEADLOCK FALSE
INVARIANTS
    RunningRadioExclusive
    SlotNeverLost
    WaitingIsRegistered
PROPERTIES
    StopCompletes
    SlotIsGrantedUnlessDead
    LinkLossIsHandled
