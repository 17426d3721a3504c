SPECIFICATION FairSpec
CONSTANTS
    a = a
    b = b
    Buf = 2
    MaxSeq = 4
    Sock <- MCSock
    Peer <- MCPeer
    MsgLimit <- Few
    EmptyMsgs = {}
PROPERTIES TerminatedReclaimed
