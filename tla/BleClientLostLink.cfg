SPECIFICATION FairSpec
CONSTANTS
    Clients = {c1}
    None = None
    Faults = {"drop"}
CHECK_DEADLOCK FALSE
PROPERTY
    LinkLossIsHandled
