SPECIFICATION Spec
CONSTANTS
    a = a
    b = b
    Buf = 2
    MaxSeq = 4
    Sock <- MCSock
    Peer <- MCPeer
    MsgLimit <- BothWays
    EmptyMsgs = {1}
INVARIANTS NoMessageVanishes
