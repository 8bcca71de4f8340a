SPECIFICATION Spec
CONSTANTS
    q1 = q1
    q2 = q2
    r1 = r1
    a1 = a1
    p1 = p1
    p2 = p2
    None = None
    Queries = {q1}
    Readers = {r1}
    Admins = {a1}
    Profiles = {p1, p2}
    Bound = p1
    Scenarios <- Mixed
INVARIANTS
    ExclusiveUse
    PublicReadsPinned
    NothingLeftBehind
PROPERTIES
    EveryRequestReturns
CHECK_DEADLOCK FALSE
