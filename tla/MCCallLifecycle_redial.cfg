SPECIFICATION Spec
CONSTANTS
    Workers = {w1}
    LeadLegs = {l1, l2}
    AgentLeg = agent
    Heard = {"initiated", "answered", "hangup"}
    None = None
SYMMETRY Symmetric
INVARIANTS LeadDialedOnce
CHECK_DEADLOCK FALSE
