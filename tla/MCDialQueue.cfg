SPECIFICATION Spec
CONSTANTS
    a1 = a1  a2 = a2  p1 = p1   r1 = r1  r2 = r2
    l1 = l1  l2 = l2  c1 = c1  c2 = c2
    None = None
    Agents = {a1, a2}
    Contacts = {p1}
    Lists = {l1, l2}
    Rows = {r1, r2}
    Calls = {c1, c2}
    ContactOf <- SamePerson
    ListOf <- TwoLists
    MaxCommands = 1
INVARIANTS TypeOK OutcomeFindsNoStranger InCallHasItsCall AttemptsAreCalls LiveCallKeepsRow BlockedIsNotWorked
PROPERTIES KeepsCustody
SYMMETRY Alike
CHECK_DEADLOCK FALSE
