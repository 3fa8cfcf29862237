SPECIFICATION FairSpec
CONSTANTS
    Events = {e1}
    Handlers = {h1, h2}
    Workers = {w1, w2}
    MaxAttempts = 3
    MaxFaults = 1
    LongPasses = TRUE
INVARIANTS DoneIsCovered RunsBounded
PROPERTIES EventuallySettled
CHECK_DEADLOCK FALSE
