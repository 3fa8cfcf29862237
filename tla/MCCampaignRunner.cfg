SPECIFICATION Spec
CONSTANTS
    w1 = w1  w2 = w2
    Recipients = {r1}
    Workers = {w1, w2}
    MaxAuto = 2
    MaxAttempts = 2
    LongRuns = FALSE
    None = None
INVARIANTS TypeOK KeyHandedOnce NoBlindResend RecipientIsVerdict CompletedIsQuiet
PROPERTIES AcceptedIsFinal
SYMMETRY WorkersAlike
CHECK_DEADLOCK FALSE
