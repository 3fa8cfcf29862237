SPECIFICATION FairSpec
CONSTANTS
    w1 = w1  w2 = w2
    Recipients = {r1}
    Workers = {w1}
    MaxAuto = 2
    MaxAttempts = 2
    LongRuns = FALSE
    None = None
PROPERTIES CampaignEnds KeepsSendingPromise
CHECK_DEADLOCK FALSE
