CONSTANTS
    Files <- MCFiles
    Fds = {3, 4, 5, 6, 7, 8, 9, 10, 11, 12, 13, 14}
    kMaxEvents = 2
    EarlySignals = FALSE
SPECIFICATION FairSpec
CHECK_DEADLOCK FALSE
INVARIANTS
    HandlersAgree
    UsersDieFirst
    PortsAreKept
PROPERTIES
    ShutdownCompletes
