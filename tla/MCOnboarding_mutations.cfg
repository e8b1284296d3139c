\* Two enrollments and a registration of one device, two users who share an
\* Idempotency-Key by chance, and two concurrent requests.
SPECIFICATION Spec
SYMMETRY Renaming
CONSTANTS
    None = None
    device = device
    Enrollments = {e1, e2}
    Challenges = {h1}
    Users = {u1, u2}
    Keys = {k1}
    Requests = {r1, r2}
    KeyOf <- OneKey
    EnrollmentTTL = 1
    ChallengeTTL = 1
    MaxRecords = 3
    MaxTime = 1
INVARIANTS
    OneEndpointEach
    Accounted
    ToldTrue
CHECK_DEADLOCK FALSE
