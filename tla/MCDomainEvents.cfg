SPECIFICATION Spec
CONSTANTS
    Events = {e1}
    Handlers = {h1, h2}
    Workers = {w1, w2}
    MaxAttempts = 2
    MaxFaults = 2
    LongPasses = FALSE
SYMMETRY Symmetry
INVARIANTS TypeOK ExclusivePass GaveUpLast RerunsNeedFaults
PROPERTIES NoRerunOfRecorded KeepsPromise
CHECK_DEADLOCK FALSE
