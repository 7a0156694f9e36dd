SPECIFICATION FairSpec
CONSTANTS
    w1 = w1  w2 = w2
    e1 = e1  e2 = e2  e3 = e3
    Event = {e1, e2, e3}
    NoEvent = NoEvent
    Worker = {w1, w2}
    Nobody = Nobody

PROPERTY ShutdownReturns
CHECK_DEADLOCK FALSE
