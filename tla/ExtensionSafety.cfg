SPECIFICATION Spec
CONSTANTS
    Callers = {u1, s1}
    Streamers = {s1}
    u1 = u1
    s1 = s1
    MaxRequests = 1
    Window = 1
    MaxFrames = 2
    MaxPipe = 2
INVARIANTS
    CreditCovers
    BlamelessSurvives
    NegotiatedConcurrency
CHECK_DEADLOCK FALSE
