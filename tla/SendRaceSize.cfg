SPECIFICATION Spec
CONSTANTS
    Buf = 2
    MaxSeq = 7
    MsgLimit = 5
INVARIANTS SizeCounts
