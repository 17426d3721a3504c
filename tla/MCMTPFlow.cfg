SPECIFICATION Spec
CONSTANTS
    a = a
    b = b
    Buf = 2
    MaxSeq = 4
    Sock <- MCSock
    Peer <- MCPeer
    MsgLimit <- OneWay
    EmptyMsgs = {}
INVARIANTS FlowControl
