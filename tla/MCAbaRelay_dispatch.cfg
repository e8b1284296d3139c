SPECIFICATION FairSpec
CONSTANTS
    Sessions = {1}
    MaxIn = 3
    MaxOut = 3
    Capacity = 4
    Drops = TRUE
INVARIANTS
    GivenOnce
    NoOrphanDispatch
    UncertaintyIsRemembered
    SealedOnce
    SentIsKept
PROPERTIES
    ImplementsDispatch
    DispatchResolves
