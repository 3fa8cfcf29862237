SPECIFICATION SeqSpec
CONSTANTS
    SeqWorkers = {w1, w2}
    Steps <- Journey
INVARIANTS OptOutStopsSteps
CHECK_DEADLOCK FALSE
