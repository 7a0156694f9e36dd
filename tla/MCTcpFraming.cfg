SPECIFICATION FairSpec
CONSTANTS
    NoEvent = NoEvent
    Body <- MCBody
    MaxWrites = 3
    MAX_BUFFER_SIZE = 6
    buffer_chunk = 7
INVARIANTS TypeOK InStep BufferBounded
PROPERTIES ImplementsChannel WrittenIsTaken
CHECK_DEADLOCK FALSE
