SPECIFICATION Spec
CONSTANTS
    Workers = {w1}
    LeadLegs = {l1}
    AgentLeg = agent
    Heard = {"initiated", "answered", "hangup"}
    None = None
INVARIANTS AnsweredIsProof
CHECK_DEADLOCK FALSE
