SPECIFICATION Spec
CONSTANTS
    c1 = c1  c2 = c2
    t0 = t0
    Creator = {c1, c2}
    Entry = {t0}
    IdModulus = 2
    MaxEvents = 3
    SizeModulus = 1000
    Word = {"u"}
    Event = {}
    NoEvent = NoEvent
    Input <- MCInput
    NoFile = NoFile
    Missing = Missing
    Malformed = Malformed
    Throws = Throws
    NoTopics = NoTopics
    NoEntry = NoEntry
    NoConfig = NoConfig
INVARIANTS TypeOK ReadyIsUsable TableIsTheFile IdsApart
PROPERTIES FillersAreRight
CHECK_DEADLOCK FALSE
