SPECIFICATION Spec
CONSTANTS
    Workers = {w1, w2}
    LeadLegs = {l1}
    AgentLeg = agent
    Heard = {"initiated", "answered", "hangup"}
    None = None
SYMMETRY Symmetric
INVARIANTS TypeOK CreatedIsProven
PROPERTIES StateOnlyForward KeepsCallPromise
CHECK_DEADLOCK FALSE
