CONSTANTS
    Config <- MCConfig
    Requests <- MCRequests
    Packs <- MCPacks
    Limits <- MCLimits
    SOI = SOI
    EOI = EOI
    Other = Other
    None = None
    kRxBufLimit = 8
    Chunks <- MCChunks
    FreshFor = 1
SPECIFICATION FairSpec
VIEW LineView
INVARIANTS
    ModulesAddUp
    SocSurvives
PROPERTIES
    HearsTheStream
    PortComesBack
    TheSilentFallSilent
