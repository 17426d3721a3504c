SPECIFICATION RaceFree
CONSTANTS
    Buf = 5
    MaxSeq = 15
    MsgLimit = 17
INVARIANTS TypeOK SizeCounts NothingLost StoredInOrder ErrorsHarmless WindowCounts
PROPERTIES ImplementsChannel
