SPECIFICATION FairSpec
CONSTANTS
    w1 = w1  w2 = w2
    Storer = {w1, w2}
    NoStorer = NoStorer
    Event <- MCEvent
    NoEvent = NoEvent
    MaxProcesses = 2
    MaxEvents = 2
INVARIANTS TypeOK TornOnlyAtEnd ReadBack
PROPERTIES AppendOnly ImplementsEngine CallEnds
CHECK_DEADLOCK FALSE
