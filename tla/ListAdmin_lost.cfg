SPECIFICATION ListSpec
CONSTANTS
    Lists = {A, B}  LeadRows = {r1, r2}  Movers = {m1, m2}  NoList = NoList
INVARIANTS ContactKeepsARow
CHECK_DEADLOCK FALSE
