\* An agent session that streams a journal two processes append to and rotate.
CONSTANTS
    None = None
    Writers = {w1, w2}
    MaxSize = 1
    MaxEvents = 5
    MaxThreads = 2
    Requests <- SmallRequests
SPECIFICATION MCSpec
INVARIANTS
    RecentKept
    TypeOK
    FaithfulStream
PROPERTIES
    StreamsEnd
    AlwaysServes
    StreamCatchesUp
CHECK_DEADLOCK FALSE
