\* Three frames through a queue of one, a replay of at most two and a buffer of
\* one; one connection or process lost from outside, one frame that grows too
\* old. After the session has ended, the conversation has halted, the ABA has lost
\* the session or a frame has grown old there are fewer frames.
CONSTANTS
    Frames = 3
    QueueCap = 1
    ReplayLimit = 2
    BufferCap = 1
    WireCap = 1
    MaxDrops = 1
    MaxStale = 1
SPECIFICATION FairSpec
CONSTRAINT Explored
INVARIANTS
    AppliedInOrder
    GivenUpIsApplied
    NothingSlips
PROPERTIES
    Delivered
CHECK_DEADLOCK FALSE
