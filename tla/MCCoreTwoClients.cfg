SPECIFICATION Spec
CONSTANTS
    e1 = e1  e2 = e2  e3 = e3  e4 = e4  e5 = e5
    c1 = c1  c2 = c2
    w1 = w1  w2 = w2
    listed = listed  other = other
    Event = {e1, e2, e3, e4, e5}
    NoEvent = NoEvent
    Client = {c1, c2}
    Script <- MCTwoClients
    Malformed = {e2}
    Oversized = {e4}
    Capacity <- MCCapacity
    Topic = {listed, other}
    TopicTable <- MCTopicTable
    Frame <- MCOneFrame
    InboundCapacity = 1
    MaxRetry = 2
    Worker = {w1}
INVARIANTS OnePlace NeighboursAreKept NoUseAfterDestroy
CHECK_DEADLOCK FALSE
