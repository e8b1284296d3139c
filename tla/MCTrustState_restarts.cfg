\* Two processes of one node, an ABA and an HC: the file is lost once before its
\* first write, the gateway is restarted once after it, and a manifest lives for
\* three ticks, two of them before it is refreshed. Requests fail and are repeated
\* without bound, whether or not time goes on.
SPECIFICATION FairSpec
CONSTANTS
    Procs = {p1, p2}
    ABAs = {a1}
    HCs = {h1}
    TTL = 3
    RefreshInterval = 2
    RetryInterval = 2
    Timeout = 1
    MaxRevision = 2
    MaxKeys = 2
    MaxTime = 4
INVARIANTS
    TypeOK
    TrustContinues
    RefusalsHaveReasons
PROPERTY Connects
CHECK_DEADLOCK FALSE
