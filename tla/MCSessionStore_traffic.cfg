CONSTANTS
    a1 = a1
    h1 = h1
    Sessions = {1}
    ABAs = {a1}
    HCs = {h1}
    AbaOf <- SharedAba
    HcOf <- SharedHc
    Tx = {t1, t2}
    MaxActive = 1
    MaxSeq = 1
    Directions = {"HC_TO_ABA"}
    Contents = {c1, c2}
SPECIFICATION FairSpec
INVARIANTS
    TrafficHasKey
    LocksProtect
PROPERTIES
    TxFinishes
    FrameImmutable
    FrameAuthorized
    AckMonotone
CHECK_DEADLOCK FALSE
