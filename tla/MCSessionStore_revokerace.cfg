CONSTANTS
    a1 = a1
    h1 = h1
    Sessions = {1, 2}
    ABAs = {a1}
    HCs = {h1}
    AbaOf <- SharedAba
    HcOf <- SharedHc
    Tx = {t1, t2}
    MaxActive = 1
    MaxSeq = 0
    Directions = {"HC_TO_ABA"}
    Contents = {c1}
SPECIFICATION Spec
SYMMETRY TxSymmetry
INVARIANT RevokedAbaHasNoLiveSession
CHECK_DEADLOCK FALSE
