SPECIFICATION RaceFree
CONSTANTS
    Buf = 3
    MaxSeq = 6
    MsgLimit = 9
INVARIANTS TypeOK SizesCount GotWhatWasSent AckedReadable NumbersInStep
PROPERTIES ImplementsChannel
