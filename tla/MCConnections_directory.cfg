\* Two connections of one endpoint and two HTTP handlers that send to it; a
\* queue of one packet, and a byte limit that two packets can reach.
CONSTANTS
    aba = aba
    None = None
    Endpoints = {aba}
    Conns = {c1, c2}
    EndpointOf <- Routes
    Workers = {w1, w2}
    ChanCap = 1
    ByteLimit = 3
    MaxSends = 2
    MaxRestarts = 1
SPECIFICATION FairSpec
INVARIANTS
    TypeOK
    Fenced
    ControlInOrder
    BytesAccounted
PROPERTIES
    LaneKept
    ClosedEnds
CHECK_DEADLOCK FALSE
