SPECIFICATION Spec
CONSTANTS
    Buf = 2
    MaxSeq = 4
    MsgLimit = 5
INVARIANTS AckedReadable
