SPECIFICATION FairSpec
CONSTANTS
    Workers = {w1}
    LeadLegs = {l1}
    AgentLeg = agent
    Heard = {"answered", "hangup"}
    None = None
PROPERTIES HangupEnds PendingResolves
CHECK_DEADLOCK FALSE
