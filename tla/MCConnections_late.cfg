\* The same instance, with the promise that a late lower generation stays out.
CONSTANTS
    aba = aba
    None = None
    Endpoints = {aba}
    Conns = {c1, c2}
    EndpointOf <- Routes
    Workers = {w1, w2}
    ChanCap = 1
    ByteLimit = 3
    MaxSends = 2
    MaxRestarts = 1
SPECIFICATION Spec
SYMMETRY Renaming
PROPERTIES
    LateGenerationStaysOut
CHECK_DEADLOCK FALSE
