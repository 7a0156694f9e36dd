SPECIFICATION FairSpec
CONSTANTS
    e1 = e1  e2 = e2  e3 = e3  e4 = e4
    w1 = w1
    Event = {e1, e2, e3, e4}
    NoEvent = NoEvent
    Capacity <- MCCapacity
    Rank <- MCRank
    Worker = {w1}
INVARIANTS TypeOK BoundedOvertaking StoredInOrder
PROPERTIES RealtimeIsServed
