------------------------------- MODULE MTPInv -------------------------------
(***************************************************************************)
(* The inductive invariant behind in-order, exactly-once delivery: where   *)
(* each message of a stream is, in terms of how many were sent, framed,    *)
(* acknowledged, accepted and read.                                        *)
(***************************************************************************)
EXTENDS MTP

\* The send buffer of s holds messages acked+1 .. sent, the framed ones first.
SendBufferInv(s) ==
    /\ acked[s] <= framed[s] /\ framed[s] <= acked[s] + 1
    /\ framed[s] <= sent[s] /\ sent[s] <= acked[s] + Buf
    /\ wndsize[s] = 1 - (framed[s] - acked[s])
    /\ \A n \in (acked[s] + 1)..sent[s] :
          sdata[s][SlotOf(n)] =
              [isbusy |-> 1, ack |-> 0, msg |-> n,
               frame |-> IF n <= framed[s] THEN FrameOf(n) ELSE 0]
    /\ \A j \in BusySend(s) : \E n \in (acked[s] + 1)..sent[s] : j = SlotOf(n)

\* The cursors point at the slots and the frame number of the next messages;
\* the collector only takes a socket with nothing left to acknowledge.
SendCursorInv(s) ==
    IF isfree[s] = 0
    THEN /\ snext[s] = SlotOf(sent[s] + 1)
         /\ snextframed[s] = SlotOf(framed[s] + 1)
         /\ currframe[s] = FrameOf(framed[s] + 1)
    ELSE ~alive[s] /\ sent[s] = acked[s]

\* How many messages of its stream the receive buffer of s no longer holds;
\* a reclaimed buffer starts counting again.
Gone(s) == IF isfree[s] = 0 THEN Len(delivered[s]) ELSE 0

\* Slot contents x is the k-th message.
Holds(s, x, k) == x.frame = FrameOf(k) /\ (isfree[s] = 0 => x.msg = k)

\* The receive buffer of s holds the fetchsize messages after those gone, each
\* in one slot; what was read before them is 1, 2, 3, ...
ReceiveBufferInv(s) ==
    /\ readframe[s] = FrameOf(Gone(s) + 1)
    /\ togetframe[s] = FrameOf(Gone(s) + fetchsize[s] + 1)
    /\ \A k \in (Gone(s) + 1)..(Gone(s) + fetchsize[s]) :
          \E j \in BusyRecv(s) : Holds(s, rdata[s][j], k)
    /\ \A j \in BusyRecv(s) :
          \E k \in (Gone(s) + 1)..(Gone(s) + fetchsize[s]) : Holds(s, rdata[s][j], k)
    /\ \A i, j \in BusyRecv(s) : rdata[s][i].frame = rdata[s][j].frame => i = j
    /\ isfree[s] = 0 =>
          /\ accepted[s] = Gone(s) + fetchsize[s]
          /\ \A k \in 1..Len(delivered[s]) : delivered[s][k] = k

\* A live receiver has taken what its peer regards as acknowledged, and
\* nothing its peer has not framed.
CrossInv(s) ==
    isfree[Peer[s]] = 0 => /\ acked[s] <= accepted[Peer[s]]
                           /\ accepted[Peer[s]] <= framed[s]

\* Datagrams are recent, and an acknowledgement tells the truth.
NetInv ==
    \A d \in net :
        /\ 1 <= d.msg /\ d.msg <= framed[d.of]
        /\ framed[d.of] < d.msg + Lifetime
        /\ d.frame = FrameOf(d.msg)
        /\ d.kind = "data" => d.to = Peer[d.of]
        /\ d.kind = "ack" => /\ d.to = d.of
                             /\ isfree[Peer[d.of]] = 0 =>
                                   d.msg <= accepted[Peer[d.of]]

DeliveryInv ==
    /\ NetInv
    /\ \A s \in Sock : /\ SendBufferInv(s) /\ SendCursorInv(s)
                       /\ ReceiveBufferInv(s) /\ CrossInv(s)
=============================================================================
