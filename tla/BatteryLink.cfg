CONSTANTS
    kJkResponseSize = 7
    None = None
    pylontech_address = 1
    Infos = {None, 16, 17}
    SOI = SOI
    EOI = EOI
    Other = Other
    kMaxFrameLen = 4
    Links = {"bluetooth", "ttl"}
    Replies = {"cid2"}
    Cells = 16
    Types = {1, 2}
    Values = {85, 217}
    Noise = {85}
    MaxChunk = 3
    MaxWire = 0
    MaxFaults = 2
SPECIFICATION FairSpec
INVARIANTS
    TypeOK
    JkRecovers
PROPERTIES
    CellCountStays
    TelemetryArrives
    CellCountArrives
