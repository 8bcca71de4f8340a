SPECIFICATION Spec
CONSTANTS
    Callers = {s1}
    Streamers = {s1}
    s1 = s1
    MaxRequests = 1
    Window = 1
    MaxFrames = 2
    MaxPipe = 2
PROPERTIES
    EveryCallReturns
    StoppedIsTornDown
CHECK_DEADLOCK FALSE
