SPECIFICATION FairSpec
CONSTANTS
    a = a
    b = b
    Buf = 3
    MaxSeq = 6
    Sock <- MCSock
    Peer <- MCPeer
    MsgLimit <- Few
    EmptyMsgs = {}
PROPERTIES EventuallyDelivered Reclaimed
