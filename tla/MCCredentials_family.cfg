\* Two concurrent refresh requests, retries included: four nonces, three
\* generations of the family, and two signed proofs, or one whose replay row
\* expires at 4 and which a request accepts until 3.
SPECIFICATION Spec
SYMMETRY Renaming
CONSTRAINT Explored
CONSTANTS
    Kinds = {"refresh"}
    Skews = {1}
    Requests = {r1, r2}
    MaxAge = 1
    FutureSkew = 2
    NonceTTL = 3
    TicketTTL = 2
    AccessTTL = 1
    RefreshTTL = 3
    ReplayLimit = 2
    MaxStall = 1
    MaxTime = 4
    RaceTime = 1
    MaxProofs = 2
    MaxNonces = 4
    MaxTokens = 3
    MaxTickets = 0
INVARIANTS
    RevokedIsDead
    Lineage
    ProofOnce
    NonceOnce
CHECK_DEADLOCK FALSE
