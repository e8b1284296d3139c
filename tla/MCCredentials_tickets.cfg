\* Two concurrent requests that refresh, ask for a ticket, manage sessions or
\* connect with a ticket: two generations of the family and two tickets.
SPECIFICATION Spec
SYMMETRY Renaming
CONSTRAINT Explored
CONSTANTS
    Kinds = {"refresh", "ticket", "session"}
    Skews = {1}
    Requests = {r1, r2}
    MaxAge = 1
    FutureSkew = 2
    NonceTTL = 1
    TicketTTL = 1
    AccessTTL = 1
    RefreshTTL = 5
    ReplayLimit = 1
    MaxStall = 1
    MaxTime = 2
    RaceTime = 0
    MaxProofs = 2
    MaxNonces = 3
    MaxTokens = 2
    MaxTickets = 2
INVARIANTS
    TypeOK
    TicketOnce
PROPERTY RevokedNeverReady
CHECK_DEADLOCK FALSE
