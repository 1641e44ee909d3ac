SPECIFICATION Spec
CONSTANTS
    Clients = {c1, c2, c3}
    None = None
    Faults = {"late"}
SYMMETRY ClientSymmetry
INVARIANTS
    RadioExclusive
    ToldAgrees
    ScanHasTimeout
    LossIsNoticed
PROPERTIES
    FifoHandover
    SlotRefinement
