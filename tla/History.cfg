CONSTANTS
    Batteries = {b1}
    TicksPerDay = 2
    Retention = 1
    RamWindow = 1
    LastDay = 2
    MaxCrashes = 2
    Faults = {"append", "delete", "power"}
SPECIFICATION FairSpec
CHECK_DEADLOCK FALSE
INVARIANTS
    Counted
    DailyIsPast
    RamIsRecent
PROPERTIES
    NothingPurgedUncounted
    EventuallyAggregated
