SPECIFICATION FairSpec
CONSTANTS
    Clients = {c1, c2}
    None = None
    Faults = {"throw"}
CHECK_DEADLOCK FALSE
PROPERTY
    SlotIsGranted
