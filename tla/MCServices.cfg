SPECIFICATION ServicesSpec
CONSTANTS
    Dials = {d1, d2}
    FailureThreshold = 2  WindowSeconds = 0  CooldownSeconds = 2  ProbeCalls = 2
    FlapFactor = 1  MaxFactor = 2  DefaultCooldown = 1
    SeqWorkers = {w1, w2}
    Steps <- Journey
    Handling = {h1, h2}
    PaymentKeys = {k1, k2}
    StatusReaders = {h1, h2}
    Sessions = {s1, s2}
    Lists = {A, B}  LeadRows = {r1, r2}  Movers = {m1, m2}  NoList = NoList
    Requests = {q1, q2, q3}
INVARIANTS ServicesTypeOK Quarantine StepPostedOnce StatusIsVerdict PaymentIsTruth
           OneLiveSession CrossingMovesKeepOne ChargedOnce
PROPERTIES AlwaysTriedAgain NoRunStuck
CHECK_DEADLOCK FALSE
