SPECIFICATION FairSpec
CONSTANTS
    e1 = e1  e2 = e2  e3 = e3
    listed = listed  other = other
    Event = {e1, e2, e3}
    NoEvent = NoEvent
    Capacity <- MCCapacity
    Topic = {listed, other}
    TopicTable <- MCTopicTable
    Frame <- MCFrame
    InboundCapacity = 2
    MaxRetry = 2
INVARIANTS TypeOK RoutedWithinLimits
PROPERTIES RoutesInOrder StopReturns AcceptedIsSettled
