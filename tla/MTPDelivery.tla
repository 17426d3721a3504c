---------------------------- MODULE MTPDelivery ----------------------------
(***************************************************************************)
(* Proof that the data transfer of MTP delivers in order and exactly once, *)
(* for every number of sockets, buffer size, MAX_SEQ and number of         *)
(* messages, when no message is empty (an empty payload is taken for an    *)
(* acknowledgement, and then the theorem is false).                        *)
(***************************************************************************)
EXTENDS MTPInv, MTPProofs

FullInv == CountInv /\ DeliveryInv

(***************************************************************************)
(* What the initial state establishes, and what a step leaves alone.       *)
(***************************************************************************)

\* Nothing has been sent, so nothing is out of place.
LEMMA DeliveryInit == Init => DeliveryInv
<1> SUFFICES ASSUME Init PROVE DeliveryInv
  OBVIOUS
<1> USE DEF Init
<1>1. NetInv
  BY DEF NetInv
<1>2. ASSUME NEW s \in Sock
      PROVE  /\ SendBufferInv(s) /\ SendCursorInv(s)
             /\ ReceiveBufferInv(s) /\ CrossInv(s)
  <2>1. Buf \in Nat /\ Buf > 0 /\ Peer[s] \in Sock
    BY FrameAssumption, SockAssumption
  <2>2. BusySend(s) = {} /\ BusyRecv(s) = {}
    BY DEF BusySend, BusyRecv, EmptySendSlot, EmptyRecvSlot
  <2>3. SendBufferInv(s)
    BY <2>1, <2>2 DEF SendBufferInv
  <2>4. SendCursorInv(s)
    <3>1. SlotOf(1) = 0
      BY ModSmall, <2>1 DEF SlotOf
    <3> QED BY <3>1, FrameOfFirst DEF SendCursorInv
  <2>5. ReceiveBufferInv(s)
    <3>1. Gone(s) = 0 /\ fetchsize[s] = 0 /\ Len(delivered[s]) = 0
      BY DEF Gone
    <3> QED BY <3>1, <2>2, FrameOfFirst DEF ReceiveBufferInv
  <2>6. CrossInv(s)
    BY <2>1 DEF CrossInv
  <2> QED BY <2>3, <2>4, <2>5, <2>6
<1> QED BY <1>1, <1>2 DEF DeliveryInv

\* A step that leaves the sending side of s alone.
SendSame(s) ==
  /\ sdata'[s] = sdata[s] /\ wndsize'[s] = wndsize[s]
  /\ snext'[s] = snext[s] /\ snextframed'[s] = snextframed[s]
  /\ currframe'[s] = currframe[s] /\ isfree'[s] = isfree[s]
  /\ alive'[s] => alive[s]
  /\ sent'[s] = sent[s] /\ framed'[s] = framed[s] /\ acked'[s] = acked[s]

\* Such a step keeps the invariants of that side.
LEMMA SendKept ==
  ASSUME NEW s \in Sock, SendBufferInv(s), SendCursorInv(s), SendSame(s)
  PROVE  SendBufferInv(s)' /\ SendCursorInv(s)'
BY DEF SendSame, SendBufferInv, SendCursorInv, BusySend

\* A step that leaves the receiving side of s alone.
RecvSame(s) ==
  /\ rdata'[s] = rdata[s] /\ readframe'[s] = readframe[s]
  /\ togetframe'[s] = togetframe[s] /\ fetchsize'[s] = fetchsize[s]
  /\ isfree'[s] = isfree[s] /\ delivered'[s] = delivered[s]
  /\ accepted'[s] = accepted[s]

\* Such a step keeps the invariant of that side.
LEMMA RecvKept ==
  ASSUME NEW s \in Sock, ReceiveBufferInv(s), RecvSame(s)
  PROVE  ReceiveBufferInv(s)'
BY DEF RecvSame, ReceiveBufferInv, BusyRecv, Gone, Holds

\* Counts that do not move stay in their relation.
LEMMA CrossKept ==
  ASSUME NEW s \in Sock, CrossInv(s), acked'[s] = acked[s], framed'[s] = framed[s],
         RecvSame(Peer[s])
  PROVE  CrossInv(s)'
BY DEF RecvSame, CrossInv

\* No datagram is added, and no count they depend on moves.
LEMMA NetKept ==
  ASSUME NetInv, net' \subseteq net, framed' = framed, accepted' = accepted,
         isfree' = isfree
  PROVE  NetInv'
BY DEF NetInv

\* The slot of a message that is sent and not acknowledged.
LEMMA SentSlot ==
  ASSUME NEW s \in Sock, SendBufferInv(s), NEW n \in (acked[s] + 1)..sent[s]
  PROVE  /\ sdata[s][SlotOf(n)].isbusy = 1
         /\ sdata[s][SlotOf(n)].ack = 0
         /\ sdata[s][SlotOf(n)].msg = n
         /\ sdata[s][SlotOf(n)].frame = IF n <= framed[s] THEN FrameOf(n) ELSE 0
<1> DEFINE f == IF n <= framed[s] THEN FrameOf(n) ELSE 0
<1>1. sdata[s][SlotOf(n)] = [isbusy |-> 1, ack |-> 0, msg |-> n, frame |-> f]
  BY DEF SendBufferInv
<1> HIDE DEF f
<1>2. /\ sdata[s][SlotOf(n)].isbusy = 1
      /\ sdata[s][SlotOf(n)].ack = 0
      /\ sdata[s][SlotOf(n)].msg = n
      /\ sdata[s][SlotOf(n)].frame = f
  BY <1>1
<1> QED BY <1>2 DEF f

(***************************************************************************)
(* The steps.                                                              *)
(***************************************************************************)

\* A message is only taken when a slot is left for it.
LEMMA SendRoom ==
  ASSUME FullInv, NEW s \in Sock, m_sendto(s)
  PROVE  sent[s] < acked[s] + Buf /\ isfree[s] = 0
<1> DEFINE n1 == sent[s] + 1
<1>1. /\ sent[s] \in Nat /\ acked[s] \in Nat /\ Buf \in Nat /\ Buf > 0
      /\ SendBufferInv(s) /\ SendCursorInv(s) /\ alive[s]
  BY FrameAssumption DEF FullInv, CountInv, TypeOK, DeliveryInv, m_sendto
<1>2. isfree[s] = 0 /\ snext[s] = SlotOf(n1) /\ sdata[s][snext[s]].isbusy = 0
  BY <1>1 DEF SendCursorInv, m_sendto
<1> SUFFICES ASSUME sent[s] = acked[s] + Buf PROVE FALSE
  BY <1>1, <1>2 DEF SendBufferInv
<1>3. SlotOf(acked[s] + 1) = SlotOf(n1)
  <2>1. n1 = (acked[s] + 1) + Buf
    BY <1>1
  <2>2. SlotOf((acked[s] + 1) + Buf) = SlotOf(acked[s] + 1)
    BY <1>1, SlotOfWrap
  <2> QED BY <2>1, <2>2
<1>4. PICK a \in (acked[s] + 1)..sent[s] : a = acked[s] + 1
  BY <1>1
<1>5. sdata[s][SlotOf(a)].isbusy = 1
  BY <1>1, SentSlot
<1> QED BY <1>2, <1>3, <1>4, <1>5

\* m_sendto appends message sent + 1 in the slot after the last one.
LEMMA DeliverySendto ==
  ASSUME FullInv, NEW s \in Sock, m_sendto(s)
  PROVE  DeliveryInv'
<1> USE DEF FullInv
<1> DEFINE j == snext[s]
           n1 == sent[s] + 1
           x == [isbusy |-> 1, frame |-> 0, ack |-> 0, msg |-> n1]
<1>1. /\ sent[s] \in Nat /\ acked[s] \in Nat /\ framed[s] \in Nat
      /\ wndsize[s] \in Nat /\ Buf \in Nat /\ Buf > 0 /\ n1 \in Nat /\ n1 >= 1
  BY FrameAssumption DEF CountInv, TypeOK
<1>2. SendBufferInv(s) /\ SendCursorInv(s) /\ alive[s]
  BY DEF DeliveryInv, m_sendto
<1>3. isfree[s] = 0 /\ j = SlotOf(n1) /\ j \in Slot
  BY <1>1, <1>2, SlotOfType DEF SendCursorInv
<1>4. /\ sdata' = [sdata EXCEPT ![s][j] = x]
      /\ sent' = [sent EXCEPT ![s] = n1]
      /\ snext' = [snext EXCEPT ![s] = (j + 1) % Buf]
      /\ sdata[s][j].isbusy = 0
  BY DEF m_sendto
<1>5. sent[s] < acked[s] + Buf
  BY SendRoom
<1>6. /\ \A i \in Slot : sdata'[s][i] = IF i = j THEN x ELSE sdata[s][i]
      /\ \A t \in Sock : t # s => sdata'[t] = sdata[t]
  <2> HIDE DEF x, j
  <2> QED BY <1>3, <1>4 DEF CountInv, TypeOK
<1>7. /\ sent'[s] = n1 /\ acked'[s] = acked[s] /\ framed'[s] = framed[s]
      /\ wndsize'[s] = wndsize[s] /\ isfree'[s] = isfree[s]
      /\ snext'[s] = (j + 1) % Buf /\ snextframed'[s] = snextframed[s]
      /\ currframe'[s] = currframe[s]
  BY <1>4 DEF m_sendto, CountInv, TypeOK, lifevars
<1>8. \A n \in (acked[s] + 1)..sent[s] : SlotOf(n) # j /\ SlotOf(n) \in Slot
  <2> SUFFICES ASSUME NEW n \in (acked[s] + 1)..sent[s], SlotOf(n) = j
               PROVE  FALSE
    BY <1>1, SlotOfType
  <2>1. n \in Nat /\ n >= 1 /\ n1 - n < Buf /\ n - n1 < Buf /\ n # n1
    BY <1>1, <1>5
  <2> HIDE DEF n1
  <2> QED BY <2>1, <1>1, <1>3, SlotOfInjective
<1>9. SendBufferInv(s)'
  <2>1. \A n \in (acked[s] + 1)..n1 :
           sdata'[s][SlotOf(n)] =
              [isbusy |-> 1, ack |-> 0, msg |-> n,
               frame |-> IF n <= framed[s] THEN FrameOf(n) ELSE 0]
    <3> SUFFICES ASSUME NEW n \in (acked[s] + 1)..n1
                 PROVE  sdata'[s][SlotOf(n)] =
                          [isbusy |-> 1, ack |-> 0, msg |-> n,
                           frame |-> IF n <= framed[s] THEN FrameOf(n) ELSE 0]
      OBVIOUS
    <3>1. CASE n = n1
      <4>1. sdata'[s][j] = x
        BY <1>3, <1>6
      <4>2. ~ (n1 <= framed[s])
        BY <1>1, <1>2 DEF SendBufferInv
      <4> QED BY <4>1, <4>2, <3>1, <1>3
    <3>2. CASE n # n1
      <4>1. n \in (acked[s] + 1)..sent[s]
        BY <3>2, <1>1
      <4>2. sdata'[s][SlotOf(n)] = sdata[s][SlotOf(n)]
        BY <4>1, <1>6, <1>8
      <4> QED BY <4>1, <4>2, <1>2 DEF SendBufferInv
    <3> QED BY <3>1, <3>2
  <2>2. \A i \in BusySend(s)' : \E n \in (acked[s] + 1)..n1 : i = SlotOf(n)
    <3> SUFFICES ASSUME NEW i \in BusySend(s)'
                 PROVE  \E n \in (acked[s] + 1)..n1 : i = SlotOf(n)
      OBVIOUS
    <3>1. CASE i = j
      <4>1. n1 \in (acked[s] + 1)..n1
        BY <1>1, <1>2 DEF SendBufferInv
      <4> QED BY <3>1, <4>1, <1>3
    <3>2. CASE i # j
      <4>1. i \in BusySend(s)
        BY <3>2, <1>6 DEF BusySend
      <4>2. PICK n \in (acked[s] + 1)..sent[s] : i = SlotOf(n)
        BY <4>1, <1>2 DEF SendBufferInv
      <4>3. n \in (acked[s] + 1)..n1
        BY <1>1
      <4> QED BY <4>2, <4>3
    <3> QED BY <3>1, <3>2
  <2>3. /\ acked[s] <= framed[s] /\ framed[s] <= acked[s] + 1
        /\ framed[s] <= n1 /\ n1 <= acked[s] + Buf
        /\ wndsize[s] = 1 - (framed[s] - acked[s])
    BY <1>1, <1>2, <1>5 DEF SendBufferInv
  <2> HIDE DEF n1, x, j
  <2> QED BY <2>1, <2>2, <2>3, <1>7 DEF SendBufferInv
<1>10. SendCursorInv(s)'
  <2>1. (SlotOf(n1) + 1) % Buf = SlotOf(n1 + 1)
    BY <1>1, SlotOfNext
  <2> HIDE DEF n1, j
  <2> QED BY <2>1, <1>2, <1>3, <1>7 DEF SendCursorInv
<1>11. ASSUME NEW t \in Sock, t # s PROVE SendBufferInv(t)' /\ SendCursorInv(t)'
  <2>1. SendSame(t)
    BY <1>4, <1>6, <1>11 DEF SendSame, m_sendto, CountInv, TypeOK, lifevars
  <2> QED BY <2>1, SendKept DEF DeliveryInv
<1>12. ASSUME NEW t \in Sock PROVE ReceiveBufferInv(t)' /\ CrossInv(t)'
  <2>1. RecvSame(t) /\ RecvSame(Peer[t]) /\ acked' = acked /\ framed' = framed
    BY DEF RecvSame, m_sendto, recvvars, lifevars
  <2> QED BY <2>1, RecvKept, CrossKept DEF DeliveryInv
<1>13. NetInv'
  BY NetKept DEF DeliveryInv, m_sendto, lifevars
<1> QED BY <1>9, <1>10, <1>11, <1>12, <1>13 DEF DeliveryInv

\* A busy slot of the send buffer holds one of the messages acked+1 .. sent.
LEMMA BusySlot ==
  ASSUME FullInv, NEW s \in Sock, NEW j \in BusySend(s)
  PROVE  \E n \in (acked[s] + 1)..sent[s] :
            /\ j = SlotOf(n) /\ n \in Nat /\ n >= 1
            /\ sdata[s][j].ack = 0 /\ sdata[s][j].msg = n
            /\ n <= framed[s] => n = framed[s] /\ sdata[s][j].frame = FrameOf(n)
            /\ n > framed[s] => sdata[s][j].frame = 0
<1>1. SendBufferInv(s) /\ acked[s] \in Nat /\ framed[s] \in Nat /\ sent[s] \in Nat
  BY DEF FullInv, DeliveryInv, CountInv, TypeOK
<1>2. PICK n \in (acked[s] + 1)..sent[s] : j = SlotOf(n)
  BY <1>1 DEF SendBufferInv
<1>3. n \in Nat /\ n >= 1
  BY <1>1
<1>4. n <= framed[s] => n = framed[s]
  BY <1>1, <1>3 DEF SendBufferInv
<1>5. /\ sdata[s][j].ack = 0
      /\ sdata[s][j].msg = n
      /\ sdata[s][j].frame = IF n <= framed[s] THEN FrameOf(n) ELSE 0
  BY <1>1, <1>2, SentSlot
<1>6. n > framed[s] => ~ (n <= framed[s])
  BY <1>1, <1>3
<1> QED BY <1>2, <1>3, <1>4, <1>5, <1>6

\* A slot with a frame number that is busy holds the last framed message.
LEMMA FramedSlot ==
  ASSUME FullInv, NEW s \in Sock, NEW j \in BusySend(s), sdata[s][j].frame # 0
  PROVE  /\ framed[s] = acked[s] + 1 /\ framed[s] >= 1 /\ framed[s] \in Nat
         /\ j = SlotOf(framed[s]) /\ sdata[s][j].ack = 0
         /\ sdata[s][j].msg = framed[s] /\ sdata[s][j].frame = FrameOf(framed[s])
<1>1. SendBufferInv(s) /\ acked[s] \in Nat /\ framed[s] \in Nat
  BY DEF FullInv, DeliveryInv, CountInv, TypeOK
<1>2. PICK n \in (acked[s] + 1)..sent[s] :
            /\ j = SlotOf(n) /\ n \in Nat /\ n >= 1
            /\ sdata[s][j].ack = 0 /\ sdata[s][j].msg = n
            /\ n <= framed[s] => n = framed[s] /\ sdata[s][j].frame = FrameOf(n)
            /\ n > framed[s] => sdata[s][j].frame = 0
  BY BusySlot
<1>3. n <= framed[s]
  BY <1>1, <1>2
<1> QED BY <1>1, <1>2, <1>3 DEF SendBufferInv

\* Sthreadfunc frames message framed + 1, which the cursor points at.
LEMMA DeliverySend ==
  ASSUME EmptyMsgs = {}, FullInv, NEW s \in Sock, SSend(s)
  PROVE  DeliveryInv'
<1> USE DEF FullInv
<1> DEFINE j == snextframed[s]
           n1 == framed[s] + 1
           x == [sdata[s][j] EXCEPT !.frame = currframe[s]]
<1>1. /\ sent[s] \in Nat /\ acked[s] \in Nat /\ framed[s] \in Nat
      /\ wndsize[s] \in Nat /\ wndsize[s] > 0 /\ n1 \in Nat /\ n1 >= 1
      /\ j \in Slot /\ sdata[s][j] \in SendSlot
  BY DEF CountInv, TypeOK, SSend
<1>2. SendBufferInv(s) /\ SendCursorInv(s) /\ CrossInv(s) /\ isfree[s] = 0
  BY DEF DeliveryInv, SSend
<1>3. acked[s] = framed[s] /\ wndsize[s] = 1
  BY <1>1, <1>2 DEF SendBufferInv
<1>4. j = SlotOf(n1) /\ currframe[s] = FrameOf(n1)
  BY <1>2 DEF SendCursorInv
<1>5. sdata[s][j].ack = 0 /\ sdata[s][j].msg = n1 /\ n1 <= sent[s]
  <2>1. j \in BusySend(s)
    BY <1>1 DEF BusySend, SSend
  <2>2. PICK n \in (acked[s] + 1)..sent[s] : j = SlotOf(n) /\ n \in Nat
    BY <2>1, BusySlot
  <2>3. n - n1 < Buf /\ n1 - n < Buf /\ n >= 1 /\ Buf \in Nat
    BY <1>1, <1>2, <1>3, <2>2, FrameAssumption DEF SendBufferInv
  <2>4. n = n1
    <3> HIDE DEF n1
    <3> QED BY <1>1, <1>4, <2>2, <2>3, SlotOfInjective
  <2>5. sdata[s][j].ack = 0 /\ sdata[s][j].msg = n
    BY <2>2, <1>2, SentSlot
  <2> QED BY <2>4, <2>5, <1>1, <1>2
<1>6. x = [isbusy |-> 1, ack |-> 0, msg |-> n1, frame |-> FrameOf(n1)]
  <2>1. sdata[s][j].isbusy = 1
    BY DEF SSend
  <2>2. /\ x = [isbusy |-> 1, frame |-> currframe[s], ack |-> 0, msg |-> n1]
    BY <2>1, <1>1, <1>5 DEF SendSlot
  <2> QED BY <2>2, <1>4
<1>7. /\ sdata' = [sdata EXCEPT ![s][j] = x]
      /\ framed' = [framed EXCEPT ![s] = n1]
      /\ net' = (net \ Expired(s, n1)) \cup { DataGram(s, x) }
      /\ snextframed' = [snextframed EXCEPT ![s] = (j + 1) % Buf]
      /\ currframe' = [currframe EXCEPT ![s] = NextFrame(@)]
      /\ wndsize' = [wndsize EXCEPT ![s] = @ - 1]
  BY <1>1 DEF SSend, CountInv, TypeOK
<1> HIDE DEF x, j, n1
<1>8. /\ \A i \in Slot : sdata'[s][i] = IF i = j THEN x ELSE sdata[s][i]
      /\ \A t \in Sock : t # s => sdata'[t] = sdata[t]
  BY <1>1, <1>7 DEF CountInv, TypeOK
<1>9. /\ framed'[s] = n1 /\ wndsize'[s] = 0 /\ snextframed'[s] = (j + 1) % Buf
      /\ currframe'[s] = NextFrame(currframe[s])
      /\ sent' = sent /\ acked' = acked /\ snext' = snext /\ isfree' = isfree
      /\ alive' = alive /\ accepted' = accepted
  BY <1>3, <1>7 DEF SSend, CountInv, TypeOK, lifevars
<1>10. SendBufferInv(s)'
  <2>1. ASSUME NEW n \in (acked[s] + 1)..sent[s]
        PROVE  sdata'[s][SlotOf(n)] =
                  [isbusy |-> 1, ack |-> 0, msg |-> n,
                   frame |-> IF n <= n1 THEN FrameOf(n) ELSE 0]
    <3>1. n \in Nat /\ n >= 1 /\ n >= n1 /\ SlotOf(n) \in Slot
      BY <1>1, <1>3, SlotOfType DEF n1
    <3>2. CASE n = n1
      <4>1. sdata'[s][SlotOf(n)] = x /\ n <= n1
        BY <1>1, <1>4, <1>8, <3>1, <3>2
      <4> QED BY <4>1, <1>6, <3>2
    <3>3. CASE n # n1
      <4>1. SlotOf(n) # j
        <5>1. n - n1 < Buf /\ n1 - n < Buf
          BY <1>1, <1>2, <1>3, <3>1, FrameAssumption DEF SendBufferInv, n1
        <5> QED BY <5>1, <1>1, <1>4, <3>1, <3>3, SlotOfInjective
      <4>2. ~ (n <= n1) /\ ~ (n <= framed[s])
        BY <1>1, <3>1, <3>3 DEF n1
      <4>3. sdata'[s][SlotOf(n)] = sdata[s][SlotOf(n)]
        BY <3>1, <4>1, <1>8
      <4> QED BY <4>2, <4>3, <1>2 DEF SendBufferInv
    <3> QED BY <3>2, <3>3
  <2>2. BusySend(s)' = BusySend(s)
    <3>1. x.isbusy = 1 /\ sdata[s][j].isbusy = 1
      BY <1>6 DEF SSend, j
    <3> QED BY <3>1, <1>8 DEF BusySend
  <2>3. /\ acked[s] <= n1 /\ n1 <= acked[s] + 1 /\ 0 = 1 - (n1 - acked[s])
        /\ n1 <= sent[s]
    BY <1>1, <1>3, <1>5 DEF n1
  <2> QED BY <2>1, <2>2, <2>3, <1>2, <1>9 DEF SendBufferInv
<1>11. SendCursorInv(s)'
  <2>1. (SlotOf(n1) + 1) % Buf = SlotOf(n1 + 1)
    BY <1>1, SlotOfNext
  <2>2. NextFrame(FrameOf(n1)) = FrameOf(n1 + 1)
    BY <1>1, FrameOfNext
  <2> QED BY <2>1, <2>2, <1>2, <1>4, <1>9 DEF SendCursorInv
<1>12. ASSUME NEW t \in Sock, t # s PROVE SendBufferInv(t)' /\ SendCursorInv(t)'
  <2>1. SendSame(t)
    BY <1>7, <1>8, <1>9, <1>12 DEF SendSame, CountInv, TypeOK
  <2> QED BY <2>1, SendKept DEF DeliveryInv
<1>13. ASSUME NEW t \in Sock PROVE ReceiveBufferInv(t)' /\ CrossInv(t)'
  <2>1. RecvSame(t) /\ RecvSame(Peer[t])
    BY DEF RecvSame, SSend, recvvars, lifevars
  <2>2. ReceiveBufferInv(t)'
    BY <2>1, RecvKept DEF DeliveryInv
  <2>3. CASE t = s
    <3>1. isfree'[Peer[s]] = 0 =>
             acked[s] <= accepted[Peer[s]] /\ accepted[Peer[s]] <= framed[s]
      BY <1>2, <1>9 DEF CrossInv
    <3>2. accepted[Peer[s]] \in Nat
      BY SockAssumption DEF CountInv, TypeOK
    <3> QED BY <2>2, <2>3, <3>1, <3>2, <1>1, <1>9 DEF CrossInv, n1
  <2>4. CASE t # s
    <3>1. acked'[t] = acked[t] /\ framed'[t] = framed[t]
      BY <2>4, <1>7, <1>9 DEF CountInv, TypeOK
    <3> QED BY <2>1, <2>2, <3>1, CrossKept DEF DeliveryInv
  <2> QED BY <2>3, <2>4
<1>14. NetInv'
  <2> SUFFICES ASSUME NEW d \in net'
               PROVE  /\ 1 <= d.msg /\ d.msg <= framed'[d.of]
                      /\ framed'[d.of] < d.msg + Lifetime
                      /\ d.frame = FrameOf(d.msg)
                      /\ d.kind = "data" => d.to = Peer[d.of]
                      /\ d.kind = "ack" => /\ d.to = d.of
                                           /\ isfree'[Peer[d.of]] = 0 =>
                                                 d.msg <= accepted'[Peer[d.of]]
    BY DEF NetInv
  <2>1. CASE d \in net /\ d \notin Expired(s, n1)
    <3>1. d \in Datagram /\ d.of \in Sock /\ d.msg \in Nat
      BY <2>1 DEF CountInv, TypeOK, Datagram
    <3>2. /\ 1 <= d.msg /\ d.msg <= framed[d.of]
          /\ framed[d.of] < d.msg + Lifetime
          /\ d.frame = FrameOf(d.msg)
          /\ d.kind = "data" => d.to = Peer[d.of]
          /\ d.kind = "ack" => /\ d.to = d.of
                               /\ isfree[Peer[d.of]] = 0 =>
                                     d.msg <= accepted[Peer[d.of]]
      BY <2>1 DEF DeliveryInv, NetInv
    <3>3. CASE d.of # s
      BY <3>1, <3>2, <3>3, <1>7, <1>9 DEF CountInv, TypeOK
    <3>4. CASE d.of = s
      <4>1. n1 < d.msg + Lifetime
        BY <2>1, <3>1, <3>4, <1>1, FrameAssumption DEF Expired, Lifetime
      <4>2. d.msg <= n1
        BY <3>1, <3>2, <3>4, <1>1 DEF n1
      <4> QED BY <3>2, <3>4, <4>1, <4>2, <1>9
    <3> QED BY <3>3, <3>4
  <2>2. CASE d = DataGram(s, x)
    <3>1. d.of = s /\ d.to = Peer[s] /\ d.kind = "data" /\ d.msg = n1 /\ d.frame = FrameOf(n1)
      BY <2>2, <1>6 DEF DataGram
    <3>2. n1 < n1 + Lifetime
      BY <1>1, FrameAssumption DEF Lifetime
    <3> QED BY <3>1, <3>2, <1>1, <1>9
  <2> QED BY <2>1, <2>2, <1>7
<1> QED BY <1>10, <1>11, <1>12, <1>13, <1>14 DEF DeliveryInv

\* What a datagram in flight says, with its types.
LEMMA NetFacts ==
  ASSUME FullInv, NEW d \in net
  PROVE  /\ d.of \in Sock /\ d.msg \in Nat /\ d.frame \in Frame
         /\ 1 <= d.msg /\ d.msg <= framed[d.of]
         /\ framed[d.of] < d.msg + Lifetime
         /\ d.frame = FrameOf(d.msg)
         /\ d.kind = "data" => d.to = Peer[d.of]
         /\ d.kind = "ack" => /\ d.to = d.of
                              /\ isfree[Peer[d.of]] = 0 =>
                                    d.msg <= accepted[Peer[d.of]]
<1>1. d \in Datagram
  BY DEF FullInv, CountInv, TypeOK
<1>2. d.of \in Sock /\ d.msg \in Nat /\ d.frame \in Frame
  BY <1>1 DEF Datagram
<1> QED BY <1>2 DEF FullInv, DeliveryInv, NetInv

\* An acknowledgement frees at most the last framed message, and only if it
\* is about that message.
LEMMA AckHits ==
  ASSUME FullInv, NEW s \in Sock, NEW d \in net, d.kind = "ack", d.to = s,
         AckMatches(s, d) # {}
  PROVE  /\ d.of = s /\ d.msg = framed[s] /\ framed[s] = acked[s] + 1
         /\ framed[s] \in Nat /\ framed[s] >= 1
         /\ AckMatches(s, d) = {SlotOf(framed[s])}
         /\ Cardinality(AckMatches(s, d)) = 1
<1>1. /\ d.of = s /\ d.msg \in Nat /\ 1 <= d.msg /\ d.msg <= framed[s]
      /\ framed[s] < d.msg + Lifetime
      /\ d.frame = FrameOf(d.msg) /\ d.frame \in Frame /\ d.frame # 0
  BY NetFacts DEF Frame
<1>2. ASSUME NEW j \in AckMatches(s, d)
      PROVE  /\ framed[s] = acked[s] + 1 /\ framed[s] >= 1 /\ framed[s] \in Nat
             /\ j = SlotOf(framed[s]) /\ d.frame = FrameOf(framed[s])
  <2>1. j \in BusySend(s) /\ sdata[s][j].frame = d.frame
    BY DEF AckMatches, BusySend
  <2> QED BY <2>1, <1>1, FramedSlot
<1>3. PICK i \in AckMatches(s, d) : TRUE
  OBVIOUS
<1>4. /\ framed[s] = acked[s] + 1 /\ framed[s] >= 1 /\ framed[s] \in Nat
      /\ d.frame = FrameOf(framed[s])
  BY <1>2, <1>3
<1>5. d.msg = framed[s]
  <2>1. d.msg - framed[s] < MaxSeq - 1 /\ framed[s] - d.msg < MaxSeq - 1
    BY <1>1, <1>4, FrameAssumption DEF Lifetime
  <2> QED BY <2>1, <1>1, <1>4, FrameOfInjective
<1>6. AckMatches(s, d) = {SlotOf(framed[s])}
  BY <1>2, <1>3
<1>7. Cardinality({SlotOf(framed[s])}) = 1
  BY FS_Singleton
<1> QED BY <1>1, <1>4, <1>5, <1>6, <1>7

\* An acknowledgement frees the slot of message acked + 1, if any.
LEMMA DeliveryAck ==
  ASSUME FullInv, NEW s \in Sock, NEW d \in net, RAck(s, d)
  PROVE  DeliveryInv'
<1> USE DEF FullInv
<1> DEFINE hit == AckMatches(s, d)
           freed(i) == [isbusy |-> 0, frame |-> 0, ack |-> 1, msg |-> sdata[s][i].msg]
<1>1. /\ sent[s] \in Nat /\ acked[s] \in Nat /\ framed[s] \in Nat
      /\ wndsize[s] \in Nat /\ Buf \in Nat /\ Buf > 0
  BY FrameAssumption DEF CountInv, TypeOK
<1>2. SendBufferInv(s) /\ SendCursorInv(s) /\ CrossInv(s)
  BY DEF DeliveryInv
<1>3. d.kind = "ack" /\ d.to = s
  BY DEF RAck, Arrives
<1>4. /\ sdata' = [sdata EXCEPT ![s] = [i \in Slot |->
                      IF i \in hit THEN freed(i) ELSE sdata[s][i]]]
      /\ wndsize' = [wndsize EXCEPT ![s] = @ + Cardinality(hit)]
      /\ acked' = [acked EXCEPT ![s] = @ + Cardinality(hit)]
      /\ sent' = sent /\ framed' = framed /\ snext' = snext
      /\ snextframed' = snextframed /\ currframe' = currframe
      /\ isfree' = isfree /\ alive' = alive /\ accepted' = accepted /\ net' = net
  BY DEF RAck, lifevars
<1>5. \A i \in Slot : freed(i).isbusy = 0
  OBVIOUS
<1> HIDE DEF freed, hit
<1>6. /\ \A i \in Slot : sdata'[s][i] = IF i \in hit THEN freed(i) ELSE sdata[s][i]
      /\ \A t \in Sock : t # s => sdata'[t] = sdata[t]
  BY <1>4 DEF CountInv, TypeOK
<1>7. ASSUME NEW t \in Sock
      PROVE  ReceiveBufferInv(t)' /\ RecvSame(Peer[t])
  <2>1. RecvSame(t) /\ RecvSame(Peer[t])
    BY DEF RecvSame, RAck, recvvars, lifevars
  <2> QED BY <2>1, RecvKept DEF DeliveryInv
<1>8. ASSUME NEW t \in Sock, t # s
      PROVE  SendBufferInv(t)' /\ SendCursorInv(t)' /\ CrossInv(t)'
  <2>1. SendSame(t)
    BY <1>4, <1>6, <1>8 DEF SendSame, CountInv, TypeOK
  <2>2. CrossInv(t)'
    BY <2>1, <1>7, CrossKept DEF DeliveryInv, SendSame
  <2> QED BY <2>1, <2>2, SendKept DEF DeliveryInv
<1>9. NetInv'
  BY <1>4, NetKept DEF DeliveryInv
<1>10. SendBufferInv(s)' /\ SendCursorInv(s)' /\ CrossInv(s)'
  <2>1. CASE hit = {}
    <3>1. Cardinality(hit) = 0
      BY <2>1, FS_EmptySet
    <3>2. wndsize'[s] = wndsize[s] /\ acked'[s] = acked[s]
      BY <3>1, <1>1, <1>4 DEF CountInv, TypeOK
    <3>3. sdata'[s] = sdata[s]
      <4>1. sdata' = [sdata EXCEPT ![s] = [i \in Slot |-> sdata[s][i]]]
        BY <2>1, <1>4
      <4> QED BY <4>1 DEF CountInv, TypeOK
    <3>4. SendSame(s)
      BY <3>2, <3>3, <1>4 DEF SendSame
    <3> QED BY <3>2, <3>4, <1>2, <1>4, <1>7, SendKept, CrossKept
  <2>2. CASE hit # {}
    <3>1. /\ d.of = s /\ d.msg = framed[s] /\ framed[s] = acked[s] + 1
          /\ framed[s] >= 1 /\ hit = {SlotOf(framed[s])} /\ Cardinality(hit) = 1
      BY <2>2, <1>3, AckHits DEF hit
    <3>2. wndsize'[s] = wndsize[s] + 1 /\ acked'[s] = framed[s]
      BY <3>1, <1>1, <1>4 DEF CountInv, TypeOK
    <3>3. ASSUME NEW n \in (framed[s] + 1)..sent[s]
          PROVE  /\ sdata'[s][SlotOf(n)] = sdata[s][SlotOf(n)]
                 /\ n \in (acked[s] + 1)..sent[s]
      <4>1. n \in Nat /\ n >= 1 /\ n # framed[s] /\ n - framed[s] < Buf
            /\ framed[s] - n < Buf /\ SlotOf(n) \in Slot
        BY <3>1, <1>1, <1>2, SlotOfType DEF SendBufferInv
      <4>2. SlotOf(n) # SlotOf(framed[s])
        BY <4>1, <3>1, <1>1, SlotOfInjective
      <4> QED BY <4>1, <4>2, <3>1, <1>1, <1>6
    <3>4. ASSUME NEW i \in BusySend(s)'
          PROVE  \E n \in (framed[s] + 1)..sent[s] : i = SlotOf(n)
      <4>1. i \in BusySend(s) /\ i # SlotOf(framed[s])
        BY <1>5, <1>6, <3>1 DEF BusySend
      <4>2. PICK n \in (acked[s] + 1)..sent[s] : i = SlotOf(n)
        BY <4>1, <1>2 DEF SendBufferInv
      <4>3. n \in (framed[s] + 1)..sent[s]
        BY <4>1, <4>2, <3>1, <1>1
      <4> QED BY <4>2, <4>3
    <3>5. SendBufferInv(s)'
      <4>1. \A n \in (framed[s] + 1)..sent[s] :
               sdata'[s][SlotOf(n)] =
                  [isbusy |-> 1, ack |-> 0, msg |-> n,
                   frame |-> IF n <= framed[s] THEN FrameOf(n) ELSE 0]
        BY <3>3, <1>2 DEF SendBufferInv
      <4>2. /\ framed[s] <= framed[s] /\ framed[s] <= framed[s] + 1
            /\ framed[s] <= sent[s] /\ sent[s] <= framed[s] + Buf
            /\ wndsize[s] + 1 = 1 - (framed[s] - framed[s])
        BY <1>1, <1>2, <3>1 DEF SendBufferInv
      <4> QED BY <4>1, <4>2, <3>2, <3>4, <1>4 DEF SendBufferInv
    <3>6. SendCursorInv(s)'
      <4>1. isfree[s] = 0
        BY <3>1, <1>1, <1>2 DEF SendCursorInv, SendBufferInv
      <4> QED BY <4>1, <1>2, <1>4 DEF SendCursorInv
    <3>7. CrossInv(s)'
      <4>1. isfree[Peer[s]] = 0 => framed[s] <= accepted[Peer[s]]
        BY <3>1, <1>3, NetFacts
      <4> QED BY <4>1, <3>2, <1>2, <1>4 DEF CrossInv
    <3> QED BY <3>5, <3>6, <3>7
  <2> QED BY <2>1, <2>2
<1> QED BY <1>7, <1>8, <1>9, <1>10 DEF DeliveryInv

\* Stored messages are less than a round of frame numbers apart.
LEMMA StoredNear ==
  ASSUME FullInv, NEW s \in Sock
  PROVE  /\ Gone(s) \in Nat /\ fetchsize[s] \in Nat /\ insertsize[s] \in Nat
         /\ fetchsize[s] <= Buf /\ fetchsize[s] + insertsize[s] = Buf
         /\ Buf < MaxSeq - 1 /\ Buf \in Nat /\ MaxSeq \in Nat
<1>1. fetchsize[s] \in Nat /\ insertsize[s] \in Nat /\ insertsize[s] = Buf - fetchsize[s]
  BY DEF FullInv, CountInv, TypeOK, CountersMatchSlots
<1>2. Gone(s) \in Nat
  <2>1. Len(delivered[s]) \in Nat
    BY DEF FullInv, CountInv, TypeOK
  <2> QED BY <2>1 DEF Gone
<1> QED BY <1>1, <1>2, FrameAssumption

\* m_recvfrom finds the oldest message the buffer holds.
LEMMA OldestRead ==
  ASSUME FullInv, NEW s \in Sock, m_recvfrom(s),
         NEW j, j = FirstSlot(Readable(s))
  PROVE  /\ j \in BusyRecv(s) /\ j \in Slot /\ rdata[s][j].frame = readframe[s]
         /\ rdata[s][j].msg = Gone(s) + 1 /\ rdata[s][j].frame = FrameOf(Gone(s) + 1)
         /\ isfree[s] = 0
<1> USE DEF FullInv
<1> DEFINE b == Gone(s)
           c == b + fetchsize[s]
<1>1. /\ b \in Nat /\ c \in Nat /\ fetchsize[s] \in Nat /\ fetchsize[s] # 0
      /\ fetchsize[s] <= Buf /\ Buf < MaxSeq - 1 /\ Buf \in Nat /\ MaxSeq \in Nat
  BY StoredNear DEF m_recvfrom
<1>2. ReceiveBufferInv(s) /\ SendCursorInv(s) /\ alive[s]
  BY DEF DeliveryInv, m_recvfrom
<1>3. isfree[s] = 0
  BY <1>2 DEF SendCursorInv, CountInv, TypeOK
<1>4. j \in BusyRecv(s) /\ j \in Slot /\ rdata[s][j].frame = readframe[s]
  <2>1. Readable(s) \in SUBSET Slot /\ Readable(s) # {}
    BY DEF Readable, m_recvfrom
  <2>2. j \in Readable(s)
    BY <2>1, FirstSlotIn
  <2> QED BY <2>2 DEF Readable, BusyRecv
<1> HIDE DEF b, c
<1>5. rdata[s][j].frame = FrameOf(b + 1)
  BY <1>2, <1>4 DEF ReceiveBufferInv, b
<1>6. PICK k \in (b + 1)..c : Holds(s, rdata[s][j], k)
  BY <1>2, <1>4 DEF ReceiveBufferInv, b, c
<1>7. k \in Nat /\ k >= 1 /\ k - (b + 1) < MaxSeq - 1 /\ (b + 1) - k < MaxSeq - 1
  BY <1>1 DEF c
<1>8. k = b + 1
  BY <1>5, <1>6, <1>7, <1>1, FrameOfInjective DEF Holds
<1> QED BY <1>3, <1>4, <1>5, <1>6, <1>8 DEF Holds, b

\* m_recvfrom takes the oldest message out of the buffer.
LEMMA DeliveryRecvfrom ==
  ASSUME FullInv, NEW s \in Sock, m_recvfrom(s)
  PROVE  DeliveryInv'
<1> USE DEF FullInv
<1> DEFINE j == FirstSlot(Readable(s))
           b == Gone(s)
           c == b + fetchsize[s]
           x == [isbusy |-> 0, frame |-> 0, msg |-> rdata[s][j].msg]
<1>1. /\ b \in Nat /\ c \in Nat /\ fetchsize[s] \in Nat /\ fetchsize[s] # 0
      /\ fetchsize[s] <= Buf /\ Buf < MaxSeq - 1 /\ Buf \in Nat /\ MaxSeq \in Nat
  BY StoredNear DEF m_recvfrom
<1>2. ReceiveBufferInv(s) /\ SendCursorInv(s) /\ alive[s]
  BY DEF DeliveryInv, m_recvfrom
<1>3. isfree[s] = 0 /\ b = Len(delivered[s]) /\ delivered[s] \in Seq(Nat)
  BY <1>2 DEF SendCursorInv, Gone, CountInv, TypeOK
<1>4. j \in BusyRecv(s) /\ j \in Slot /\ rdata[s][j].frame = readframe[s]
  BY OldestRead
<1>5. /\ rdata' = [rdata EXCEPT ![s][j] = x]
      /\ delivered' = [delivered EXCEPT ![s] = Append(@, rdata[s][j].msg)]
      /\ fetchsize' = [fetchsize EXCEPT ![s] = @ - 1]
      /\ readframe' = [readframe EXCEPT ![s] = NextFrame(@)]
      /\ togetframe' = togetframe /\ isfree' = isfree /\ accepted' = accepted
      /\ net' = net /\ framed' = framed /\ acked' = acked
  BY DEF m_recvfrom, lifevars
<1>6. x.isbusy = 0
  OBVIOUS
<1> HIDE DEF j, x, b, c
<1>7. /\ \A i \in Slot : rdata'[s][i] = IF i = j THEN x ELSE rdata[s][i]
      /\ \A t \in Sock : t # s => rdata'[t] = rdata[t]
  BY <1>4, <1>5 DEF CountInv, TypeOK
<1>8. rdata[s][j].msg = b + 1 /\ rdata[s][j].frame = FrameOf(b + 1)
  BY OldestRead DEF b, j
<1>9. /\ delivered'[s] = Append(delivered[s], b + 1)
      /\ Gone(s)' = b + 1 /\ fetchsize'[s] = fetchsize[s] - 1
      /\ Gone(s)' + fetchsize'[s] = c
      /\ readframe'[s] = NextFrame(readframe[s])
  <2>1. delivered'[s] = Append(delivered[s], b + 1)
    BY <1>5, <1>8 DEF CountInv, TypeOK
  <2>2. Len(delivered'[s]) = b + 1
    BY <2>1, <1>3
  <2>3. fetchsize'[s] = fetchsize[s] - 1 /\ readframe'[s] = NextFrame(readframe[s])
    BY <1>5 DEF CountInv, TypeOK
  <2> QED BY <2>1, <2>2, <2>3, <1>1, <1>3, <1>5 DEF Gone, c
<1>10. BusyRecv(s)' = BusyRecv(s) \ {j}
  BY <1>6, <1>7 DEF BusyRecv
<1>11. ReceiveBufferInv(s)'
  <2>1. readframe'[s] = FrameOf(b + 1 + 1)
    BY <1>1, <1>2, <1>9, FrameOfNext DEF ReceiveBufferInv, b
  <2>2. togetframe'[s] = FrameOf(c + 1)
    BY <1>2, <1>5 DEF ReceiveBufferInv, b, c
  <2>3. ASSUME NEW k \in (b + 1 + 1)..c
        PROVE  \E i \in BusyRecv(s)' : Holds(s, rdata'[s][i], k)
    <3>0. k \in (b + 1)..c
      BY <1>1
    <3>1. PICK i \in BusyRecv(s) : Holds(s, rdata[s][i], k)
      BY <3>0, <1>2 DEF ReceiveBufferInv, b, c
    <3>2. i # j
      <4>1. k \in Nat /\ k >= 1 /\ k - (b + 1) < MaxSeq - 1 /\ (b + 1) - k < MaxSeq - 1
            /\ k # b + 1
        BY <1>1 DEF c
      <4>2. FrameOf(k) # FrameOf(b + 1)
        BY <4>1, <1>1, FrameOfInjective
      <4> QED BY <3>1, <4>2, <1>8 DEF Holds
    <3> QED BY <3>1, <3>2, <1>7, <1>10 DEF BusyRecv
  <2>4. ASSUME NEW i \in BusyRecv(s)'
        PROVE  \E k \in (b + 1 + 1)..c : Holds(s, rdata'[s][i], k)
    <3>1. i \in BusyRecv(s) /\ i # j /\ rdata'[s][i] = rdata[s][i]
      BY <1>7, <1>10 DEF BusyRecv
    <3>2. PICK k \in (b + 1)..c : Holds(s, rdata[s][i], k)
      BY <3>1, <1>2 DEF ReceiveBufferInv, b, c
    <3>3. k # b + 1
      BY <3>1, <3>2, <1>2, <1>4, <1>8 DEF ReceiveBufferInv, Holds
    <3>4. k \in (b + 1 + 1)..c
      BY <3>3, <1>1
    <3> QED BY <3>1, <3>2, <3>4
  <2>5. \A i, k \in BusyRecv(s)' : rdata'[s][i].frame = rdata'[s][k].frame => i = k
    BY <1>2, <1>7, <1>10 DEF ReceiveBufferInv, BusyRecv
  <2>6. accepted'[s] = c /\ \A k \in 1..Len(delivered'[s]) : delivered'[s][k] = k
    <3>1. accepted[s] = c /\ \A k \in 1..b : delivered[s][k] = k
      BY <1>2, <1>3 DEF ReceiveBufferInv, b, c
    <3>2. ASSUME NEW k \in 1..(b + 1) PROVE Append(delivered[s], b + 1)[k] = k
      BY <3>1, <1>1, <1>3
    <3>3. Len(delivered'[s]) = b + 1
      BY <1>3, <1>9
    <3> QED BY <3>1, <3>2, <3>3, <1>5, <1>9
  <2>7. \A y, k : Holds(s, y, k)' <=> Holds(s, y, k)
    BY <1>5 DEF Holds
  <2> QED BY <2>1, <2>2, <2>3, <2>4, <2>5, <2>6, <2>7, <1>9 DEF ReceiveBufferInv
<1>12. ASSUME NEW t \in Sock
       PROVE  SendBufferInv(t)' /\ SendCursorInv(t)' /\ CrossInv(t)'
  <2>1. SendSame(t)
    BY DEF SendSame, m_recvfrom, sendvars, lifevars
  <2>2. CrossInv(t)'
    BY <1>5 DEF DeliveryInv, CrossInv
  <2> QED BY <2>1, <2>2, SendKept DEF DeliveryInv
<1>13. ASSUME NEW t \in Sock, t # s PROVE ReceiveBufferInv(t)'
  <2>1. RecvSame(t)
    BY <1>5, <1>7, <1>13 DEF RecvSame, CountInv, TypeOK
  <2> QED BY <2>1, RecvKept DEF DeliveryInv
<1>14. NetInv'
  BY <1>5, NetKept DEF DeliveryInv
<1> QED BY <1>11, <1>12, <1>13, <1>14 DEF DeliveryInv

\* A frame that the live receiver expects is the next message of its peer; any
\* other it has accepted before.
LEMMA FrameTells ==
  ASSUME FullInv, NEW s \in Sock, NEW d \in net, d.kind = "data", d.to = s,
         isfree[s] = 0
  PROVE  /\ d.of = Peer[s] /\ Peer[Peer[s]] = s
         /\ d.frame = togetframe[s] =>
              d.msg = accepted[s] + 1 /\ d.msg <= framed[Peer[s]]
         /\ d.frame # togetframe[s] => d.msg <= accepted[s]
<1> DEFINE p == Peer[s]
<1>1. /\ d.of \in Sock /\ d.msg \in Nat /\ 1 <= d.msg /\ d.msg <= framed[d.of]
      /\ framed[d.of] < d.msg + Lifetime /\ d.frame = FrameOf(d.msg)
      /\ s = Peer[d.of]
  BY NetFacts
<1>2. d.of = p /\ p \in Sock /\ Peer[p] = s
  BY <1>1, SockAssumption
<1>3. /\ accepted[s] \in Nat /\ framed[p] \in Nat /\ acked[p] \in Nat
      /\ acked[p] <= accepted[s] /\ accepted[s] <= framed[p] /\ framed[p] <= acked[p] + 1
  <2>1. CrossInv(p) /\ SendBufferInv(p)
    BY <1>2 DEF FullInv, DeliveryInv
  <2> QED BY <2>1, <1>2 DEF CrossInv, SendBufferInv, FullInv, CountInv, TypeOK
<1>4. togetframe[s] = FrameOf(accepted[s] + 1)
  BY DEF FullInv, DeliveryInv, ReceiveBufferInv
<1>5. d.frame = togetframe[s] => d.msg = accepted[s] + 1
  <2>1. /\ d.msg - (accepted[s] + 1) < MaxSeq - 1
        /\ (accepted[s] + 1) - d.msg < MaxSeq - 1
    BY <1>1, <1>2, <1>3, FrameAssumption DEF Lifetime
  <2>2. accepted[s] + 1 \in Nat /\ accepted[s] + 1 >= 1
    BY <1>3
  <2> QED BY <2>1, <2>2, <1>1, <1>4, FrameOfInjective
<1>6. d.frame # togetframe[s] => d.msg # accepted[s] + 1
  BY <1>1, <1>4
<1> QED BY <1>1, <1>2, <1>3, <1>5, <1>6

\* Rthreadfunc stores message accepted + 1 in an idle slot.
LEMMA DeliveryAccept ==
  ASSUME FullInv, NEW s \in Sock, NEW d \in net, RAccept(s, d)
  PROVE  DeliveryInv'
<1> USE DEF FullInv
<1> DEFINE j == FirstSlot(Idle(s))
           b == Gone(s)
           c == b + fetchsize[s]
           x == [isbusy |-> 1, frame |-> d.frame, msg |-> d.msg]
           a == AckOf(d, insertsize[s] - 1)
<1>1. /\ b \in Nat /\ c \in Nat /\ fetchsize[s] \in Nat /\ insertsize[s] # 0
      /\ fetchsize[s] < Buf /\ Buf < MaxSeq - 1 /\ Buf \in Nat /\ MaxSeq \in Nat
  <2>1. /\ b \in Nat /\ fetchsize[s] \in Nat /\ insertsize[s] \in Nat /\ insertsize[s] # 0
        /\ fetchsize[s] + insertsize[s] = Buf /\ Buf < MaxSeq - 1
        /\ Buf \in Nat /\ MaxSeq \in Nat
    BY StoredNear DEF RAccept
  <2> QED BY <2>1
<1>2. ReceiveBufferInv(s)
  BY DEF DeliveryInv
<1>3. j \in Slot /\ j \notin BusyRecv(s) /\ Idle(s) # {}
  BY <1>1, IdleExists
<1>4. d.kind = "data" /\ d.to = s /\ d.frame = togetframe[s]
  BY DEF RAccept, Arrives
<1>5. /\ rdata' = [rdata EXCEPT ![s][j] = x]
      /\ fetchsize' = [fetchsize EXCEPT ![s] = @ + 1]
      /\ togetframe' = [togetframe EXCEPT ![s] = NextFrame(d.frame)]
      /\ accepted' = [accepted EXCEPT ![s] = @ + 1]
      /\ net' = net \cup {a}
      /\ readframe' = readframe /\ isfree' = isfree /\ delivered' = delivered
      /\ framed' = framed /\ acked' = acked
  BY <1>3 DEF RAccept, lifevars
<1>6. /\ x.isbusy = 1 /\ x.frame = d.frame /\ x.msg = d.msg
      /\ a.of = d.of /\ a.to = d.of /\ a.kind = "ack" /\ a.msg = d.msg
      /\ a.frame = d.frame
  BY DEF AckOf
<1> HIDE DEF j, x, b, c, a
<1>7. /\ \A i \in Slot : rdata'[s][i] = IF i = j THEN x ELSE rdata[s][i]
      /\ \A t \in Sock : t # s => rdata'[t] = rdata[t]
  BY <1>3, <1>5 DEF CountInv, TypeOK
<1>8. d.frame = FrameOf(c + 1)
  BY <1>2, <1>4 DEF ReceiveBufferInv, b, c
<1>9. isfree[s] = 0 => /\ d.msg = c + 1 /\ accepted[s] = c
                       /\ d.of = Peer[s] /\ Peer[Peer[s]] = s
                       /\ d.msg <= framed[Peer[s]]
  BY <1>2, <1>4, FrameTells DEF ReceiveBufferInv, b, c
<1>10. /\ Gone(s)' = b /\ fetchsize'[s] = fetchsize[s] + 1
       /\ Gone(s)' + fetchsize'[s] = c + 1
       /\ togetframe'[s] = NextFrame(d.frame) /\ accepted'[s] = accepted[s] + 1
  <2>1. Gone(s)' = b
    BY <1>5 DEF Gone, b
  <2>2. /\ fetchsize'[s] = fetchsize[s] + 1
        /\ togetframe'[s] = NextFrame(d.frame) /\ accepted'[s] = accepted[s] + 1
    BY <1>5 DEF CountInv, TypeOK
  <2> QED BY <2>1, <2>2, <1>1 DEF c
<1>11. BusyRecv(s)' = BusyRecv(s) \cup {j}
  BY <1>3, <1>6, <1>7 DEF BusyRecv
<1>12. \A y, k : Holds(s, y, k)' <=> Holds(s, y, k)
  BY <1>5 DEF Holds
<1>13. Holds(s, x, c + 1)
  BY <1>6, <1>8, <1>9 DEF Holds
<1>14. ReceiveBufferInv(s)'
  <2>1. togetframe'[s] = FrameOf(c + 1 + 1)
    <3>1. NextFrame(FrameOf(c + 1)) = FrameOf(c + 1 + 1)
      BY <1>1, FrameOfNext
    <3> QED BY <3>1, <1>8, <1>10
  <2>2. ASSUME NEW k \in (b + 1)..(c + 1)
        PROVE  \E i \in BusyRecv(s)' : Holds(s, rdata'[s][i], k)
    <3>1. CASE k = c + 1
      <4>1. rdata'[s][j] = x
        BY <1>3, <1>7
      <4> QED BY <4>1, <3>1, <1>11, <1>13
    <3>2. CASE k # c + 1
      <4>1. k \in (b + 1)..c
        BY <3>2, <1>1
      <4>2. PICK i \in BusyRecv(s) : Holds(s, rdata[s][i], k)
        BY <4>1, <1>2 DEF ReceiveBufferInv, b, c
      <4>3. rdata'[s][i] = rdata[s][i]
        BY <1>3, <1>7 DEF BusyRecv
      <4> QED BY <4>2, <4>3, <1>11
    <3> QED BY <3>1, <3>2
  <2>3. ASSUME NEW i \in BusyRecv(s)
        PROVE  /\ \E k \in (b + 1)..(c + 1) : Holds(s, rdata[s][i], k)
               /\ rdata[s][i].frame # FrameOf(c + 1)
    <3>1. PICK k \in (b + 1)..c : Holds(s, rdata[s][i], k)
      BY <1>2 DEF ReceiveBufferInv, b, c
    <3>2. k \in (b + 1)..(c + 1) /\ k \in Nat /\ k >= 1 /\ k # c + 1
      BY <1>1
    <3>3. k - (c + 1) < MaxSeq - 1 /\ (c + 1) - k < MaxSeq - 1
      BY <1>1, <3>2 DEF c
    <3>4. FrameOf(k) # FrameOf(c + 1)
      BY <1>1, <3>2, <3>3, FrameOfInjective
    <3> QED BY <3>1, <3>2, <3>4 DEF Holds
  <2>4. ASSUME NEW i \in BusyRecv(s)'
        PROVE  \E k \in (b + 1)..(c + 1) : Holds(s, rdata'[s][i], k)
    <3>1. CASE i = j
      <4>1. c + 1 \in (b + 1)..(c + 1)
        BY <1>1 DEF c
      <4> QED BY <3>1, <4>1, <1>3, <1>7, <1>13
    <3>2. CASE i # j
      <4>1. i \in BusyRecv(s) /\ rdata'[s][i] = rdata[s][i]
        BY <3>2, <1>7, <1>11 DEF BusyRecv
      <4> QED BY <4>1, <2>3
    <3> QED BY <3>1, <3>2
  <2>5. ASSUME NEW i \in BusyRecv(s)', NEW k \in BusyRecv(s)',
               rdata'[s][i].frame = rdata'[s][k].frame
        PROVE  i = k
    <3>1. /\ i # j => i \in BusyRecv(s) /\ rdata'[s][i] = rdata[s][i]
          /\ k # j => k \in BusyRecv(s) /\ rdata'[s][k] = rdata[s][k]
          /\ rdata'[s][j].frame = FrameOf(c + 1)
      BY <1>3, <1>6, <1>7, <1>8, <1>11 DEF BusyRecv
    <3> QED BY <3>1, <2>3, <2>5, <1>2 DEF ReceiveBufferInv
  <2>6. readframe'[s] = FrameOf(b + 1)
    BY <1>2, <1>5 DEF ReceiveBufferInv, b
  <2>7. isfree'[s] = 0 => /\ accepted'[s] = c + 1
                          /\ \A k \in 1..Len(delivered'[s]) : delivered'[s][k] = k
    BY <1>2, <1>5, <1>9, <1>10 DEF ReceiveBufferInv
  <2> QED BY <2>1, <2>2, <2>4, <2>5, <2>6, <2>7, <1>10, <1>12 DEF ReceiveBufferInv
<1>15. ASSUME NEW t \in Sock
       PROVE  SendBufferInv(t)' /\ SendCursorInv(t)'
  <2>1. SendSame(t)
    BY DEF SendSame, RAccept, sendvars, lifevars
  <2> QED BY <2>1, SendKept DEF DeliveryInv
<1>16. ASSUME NEW t \in Sock, t # s PROVE ReceiveBufferInv(t)'
  <2>1. RecvSame(t)
    BY <1>5, <1>7, <1>16 DEF RecvSame, CountInv, TypeOK
  <2> QED BY <2>1, RecvKept DEF DeliveryInv
<1>17. ASSUME NEW t \in Sock PROVE CrossInv(t)'
  <2>1. CrossInv(t)
    BY DEF DeliveryInv
  <2>2. CASE Peer[t] = s
    <3>1. t = Peer[s] /\ acked[t] \in Nat /\ framed[t] \in Nat /\ accepted[s] \in Nat
      BY <2>2, SockAssumption DEF CountInv, TypeOK
    <3> QED BY <2>1, <2>2, <3>1, <1>1, <1>5, <1>9, <1>10 DEF CrossInv
  <2>3. CASE Peer[t] # s
    <3>1. accepted'[Peer[t]] = accepted[Peer[t]]
      BY <2>3, <1>5, SockAssumption DEF CountInv, TypeOK
    <3> QED BY <2>1, <3>1, <1>5 DEF CrossInv
  <2> QED BY <2>2, <2>3
<1>18. NetInv'
  <2> SUFFICES ASSUME NEW e \in net'
               PROVE  /\ 1 <= e.msg /\ e.msg <= framed[e.of]
                      /\ framed[e.of] < e.msg + Lifetime
                      /\ e.frame = FrameOf(e.msg)
                      /\ e.kind = "data" => e.to = Peer[e.of]
                      /\ e.kind = "ack" => /\ e.to = e.of
                                           /\ isfree[Peer[e.of]] = 0 =>
                                                 e.msg <= accepted'[Peer[e.of]]
    BY <1>5 DEF NetInv
  <2>1. CASE e \in net
    <3>1. ASSUME NEW t \in Sock
          PROVE  /\ accepted[t] \in Nat /\ accepted'[t] \in Nat
                 /\ accepted[t] <= accepted'[t]
      <4>1. accepted[t] \in Nat /\ accepted'[t] = IF t = s THEN accepted[t] + 1 ELSE accepted[t]
        BY <1>5 DEF CountInv, TypeOK
      <4> QED BY <4>1
    <3>2. e.of \in Sock /\ e.msg \in Nat /\ Peer[e.of] \in Sock
      BY <2>1, NetFacts, SockAssumption
    <3> QED BY <2>1, <3>1, <3>2, NetFacts
  <2>2. CASE e = a
    <3>1. /\ 1 <= d.msg /\ d.msg <= framed[d.of] /\ framed[d.of] < d.msg + Lifetime
          /\ d.frame = FrameOf(d.msg) /\ d.of \in Sock /\ Peer[d.of] = s /\ d.msg \in Nat
      BY <1>4, NetFacts
    <3>2. isfree[s] = 0 => d.msg <= accepted'[s]
      BY <1>1, <1>9, <1>10
    <3> QED BY <2>2, <3>1, <3>2, <1>6
  <2> QED BY <2>1, <2>2, <1>5
<1> QED BY <1>14, <1>15, <1>16, <1>17, <1>18 DEF DeliveryInv

\* The collector takes a socket all of whose messages were acknowledged.
LEMMA DeliveryGC ==
  ASSUME FullInv, NEW s \in Sock, GC(s)
  PROVE  DeliveryInv'
<1> USE DEF FullInv
<1>1. /\ sent[s] \in Nat /\ acked[s] \in Nat /\ framed[s] \in Nat
      /\ Buf \in Nat /\ Buf > 0 /\ SendBufferInv(s)
  BY FrameAssumption DEF CountInv, TypeOK, DeliveryInv
<1>2. BusySend(s) = {}
  <2>1. { j \in Slot : sdata[s][j].isbusy = 1 /\ sdata[s][j].ack = 0 } = BusySend(s)
    BY BusySlot DEF BusySend
  <2>2. IsFiniteSet(BusySend(s))
    BY SlotsFinite DEF BusySend
  <2>3. Cardinality(BusySend(s)) = 0
    BY <2>1 DEF GC, noofackleft
  <2> QED BY <2>2, <2>3, FS_EmptySet, Zenon
<1>3. sent[s] = acked[s] /\ framed[s] = acked[s]
  <2>1. ~ (acked[s] < sent[s])
    <3> SUFFICES ASSUME acked[s] < sent[s] PROVE FALSE
      OBVIOUS
    <3>1. PICK n \in (acked[s] + 1)..sent[s] : n = acked[s] + 1
      BY <1>1
    <3>2. sdata[s][SlotOf(n)].isbusy = 1
      BY <1>1, SentSlot
    <3>3. SlotOf(n) \in Slot
      BY <1>1, <3>1, SlotOfType
    <3> QED BY <1>2, <3>2, <3>3 DEF BusySend
  <2> QED BY <2>1, <1>1 DEF SendBufferInv
<1>4. /\ isfree' = [isfree EXCEPT ![s] = 1] /\ ~alive[s] /\ alive' = alive
      /\ net' = net /\ sent' = sent /\ framed' = framed /\ acked' = acked
      /\ accepted' = accepted /\ delivered' = delivered
  BY DEF GC
<1>5. \A t \in Sock :
        /\ sdata'[t] = IF t = s THEN [j \in Slot |-> EmptySendSlot] ELSE sdata[t]
        /\ rdata'[t] = IF t = s THEN [j \in Slot |-> EmptyRecvSlot] ELSE rdata[t]
        /\ fetchsize'[t] = IF t = s THEN 0 ELSE fetchsize[t]
        /\ togetframe'[t] = IF t = s THEN 1 ELSE togetframe[t]
        /\ readframe'[t] = IF t = s THEN 1 ELSE readframe[t]
        /\ isfree'[t] = IF t = s THEN 1 ELSE isfree[t]
  BY DEF GC, CountInv, TypeOK
<1>6. \A t \in Sock :
        /\ wndsize'[t] = IF t = s THEN 1 ELSE wndsize[t]
        /\ snext'[t] = IF t = s THEN 0 ELSE snext[t]
        /\ snextframed'[t] = IF t = s THEN 0 ELSE snextframed[t]
        /\ currframe'[t] = IF t = s THEN 1 ELSE currframe[t]
  BY DEF GC, CountInv, TypeOK
<1>7. BusySend(s)' = {} /\ BusyRecv(s)' = {}
  BY <1>5 DEF BusySend, BusyRecv, EmptySendSlot, EmptyRecvSlot
<1>8. SendBufferInv(s)' /\ SendCursorInv(s)'
  <2>1. wndsize'[s] = 1 /\ isfree'[s] = 1
    BY <1>5, <1>6
  <2>2. \A n \in Int : n \notin (acked[s] + 1)..sent[s]
    BY <1>1, <1>3
  <2>3. 1 = 1 - (framed[s] - acked[s]) /\ acked[s] <= framed[s] /\ framed[s] <= acked[s] + 1
        /\ framed[s] <= sent[s] /\ sent[s] <= acked[s] + Buf
    BY <1>1, <1>3
  <2>4. SendBufferInv(s)'
    BY <2>1, <2>2, <2>3, <1>1, <1>4, <1>7 DEF SendBufferInv
  <2> QED BY <2>1, <2>4, <1>3, <1>4 DEF SendCursorInv
<1>9. ReceiveBufferInv(s)'
  <2>1. Gone(s)' = 0 /\ fetchsize'[s] = 0 /\ isfree'[s] = 1
    BY <1>5 DEF Gone
  <2>2. togetframe'[s] = 1 /\ readframe'[s] = 1
    BY <1>5
  <2> QED BY <2>1, <2>2, <1>7, FrameOfFirst DEF ReceiveBufferInv
<1>10. ASSUME NEW t \in Sock, t # s
       PROVE  SendBufferInv(t)' /\ SendCursorInv(t)' /\ ReceiveBufferInv(t)'
  <2>1. SendSame(t) /\ RecvSame(t)
    BY <1>4, <1>5, <1>6, <1>10 DEF SendSame, RecvSame
  <2> QED BY <2>1, SendKept, RecvKept DEF DeliveryInv
<1>11. ASSUME NEW t \in Sock
       PROVE  isfree'[t] = 0 => isfree[t] = 0
  BY <1>5
<1>12. ASSUME NEW t \in Sock PROVE CrossInv(t)'
  BY <1>4, <1>11, SockAssumption DEF CrossInv, DeliveryInv
<1>13. NetInv'
  <2>1. \A d \in net : Peer[d.of] \in Sock
    BY NetFacts, SockAssumption
  <2> QED BY <2>1, <1>4, <1>11 DEF NetInv, DeliveryInv
<1> QED BY <1>8, <1>9, <1>10, <1>12, <1>13 DEF DeliveryInv

\* The steps that change no buffer add only true datagrams.
LEMMA DeliveryQuiet ==
  ASSUME EmptyMsgs = {}, FullInv, Quiet
  PROVE  DeliveryInv'
<1> USE DEF FullInv
<1>1. QuietEffect /\ \A t \in Sock : alive'[t] => alive[t]
  <2>1. QuietEffect
    BY QuietChanges DEF CountInv
  <2>2. ASSUME NEW t \in Sock PROVE alive'[t] => alive[t]
    BY DEF Quiet, RTimeout, Exit, SResend, RReack, RIgnore, Lose, lifevars,
           CountInv, TypeOK
  <2> QED BY <2>1, <2>2
<1>2. ASSUME NEW t \in Sock
      PROVE  /\ SendBufferInv(t)' /\ SendCursorInv(t)'
             /\ ReceiveBufferInv(t)' /\ CrossInv(t)'
  <2>1. SendSame(t) /\ RecvSame(t) /\ RecvSame(Peer[t])
    BY <1>1 DEF QuietEffect, SendSame, RecvSame, sendvars, recvvars
  <2>2. acked'[t] = acked[t] /\ framed'[t] = framed[t]
    BY <1>1 DEF QuietEffect
  <2> QED BY <2>1, <2>2, SendKept, RecvKept, CrossKept DEF DeliveryInv
<1>3. framed' = framed /\ accepted' = accepted /\ isfree' = isfree /\ NetInv
  BY <1>1 DEF QuietEffect, DeliveryInv
<1>4. ASSUME NEW s \in Sock, SResend(s) PROVE NetInv'
  <2>1. ASSUME NEW j \in Unacked(s), NEW e, e = DataGram(s, sdata[s][j])
        PROVE  /\ e.of = s /\ e.to = Peer[s] /\ e.kind = "data"
               /\ e.msg = framed[s] /\ framed[s] >= 1 /\ framed[s] \in Nat
               /\ e.frame = FrameOf(framed[s])
    <3>1. j \in BusySend(s) /\ sdata[s][j].frame # 0
      BY <2>1 DEF Unacked, BusySend
    <3> QED BY <2>1, <3>1, FramedSlot DEF DataGram
  <2>2. net' = net \cup { DataGram(s, sdata[s][j]) : j \in Unacked(s) }
    BY <1>4 DEF SResend
  <2>3. \A n \in Nat : n < n + Lifetime
    BY FrameAssumption DEF Lifetime
  <2>4. ASSUME NEW e \in net'
        PROVE  /\ 1 <= e.msg /\ e.msg <= framed[e.of]
               /\ framed[e.of] < e.msg + Lifetime
               /\ e.frame = FrameOf(e.msg)
               /\ e.kind = "data" => e.to = Peer[e.of]
               /\ e.kind = "ack" => /\ e.to = e.of
                                    /\ isfree[Peer[e.of]] = 0 =>
                                          e.msg <= accepted[Peer[e.of]]
    <3>1. CASE e \in net
      BY <3>1, <1>3 DEF NetInv
    <3>2. CASE e \notin net
      <4>1. PICK j \in Unacked(s) : e = DataGram(s, sdata[s][j])
        BY <3>2, <2>2
      <4> QED BY <4>1, <2>1, <2>3
    <3> QED BY <3>1, <3>2
  <2> QED BY <2>4, <1>3 DEF NetInv
<1>5. ASSUME NEW s \in Sock, NEW d \in net, RReack(s, d) PROVE NetInv'
  <2> DEFINE e == AckOf(d, insertsize[s])
  <2>1. /\ net' = net \cup {e} /\ d.kind = "data" /\ d.to = s
        /\ d.frame # togetframe[s]
    <3>1. insertsize[s] \in Nat /\ insertsize[s] # 0
      BY <1>5 DEF RReack, CountInv, TypeOK
    <3>2. togetframe[s] \in RecvWindow(togetframe[s], insertsize[s])
      BY <3>1 DEF RecvWindow
    <3> QED BY <3>2, <1>5 DEF RReack, Arrives
  <2>2. /\ 1 <= d.msg /\ d.msg <= framed[d.of] /\ framed[d.of] < d.msg + Lifetime
        /\ d.frame = FrameOf(d.msg) /\ Peer[d.of] = s
    BY <2>1, NetFacts
  <2>3. isfree[s] = 0 => d.msg <= accepted[s]
    BY <2>1, FrameTells
  <2>4. e.of = d.of /\ e.to = d.of /\ e.kind = "ack" /\ e.msg = d.msg /\ e.frame = d.frame
    BY DEF AckOf
  <2> HIDE DEF e
  <2> QED BY <2>1, <2>2, <2>3, <2>4, <1>3 DEF NetInv
<1>6. ASSUME net' \subseteq net PROVE NetInv'
  BY <1>3, <1>6, NetKept
<1>7. NetInv'
  BY <1>4, <1>5, <1>6 DEF Quiet, RTimeout, Exit, RIgnore, Lose
<1> QED BY <1>2, <1>7 DEF DeliveryInv

(***************************************************************************)
(* The invariant and what follows from it.                                 *)
(***************************************************************************)

\* The invariant holds initially.
LEMMA FullInit == Init => FullInv
BY CountInit, DeliveryInit DEF FullInv

\* Every step preserves the invariant.
LEMMA FullStep ==
  ASSUME EmptyMsgs = {}
  PROVE  FullInv /\ [Next]_vars => FullInv'
<1> SUFFICES ASSUME FullInv, [Next]_vars PROVE FullInv'
  OBVIOUS
<1>1. CountInv'
  BY CountStep DEF FullInv
<1>2. DeliveryInv'
  <2>1. CASE UNCHANGED vars
    <3>1. ASSUME NEW t \in Sock
          PROVE  /\ SendBufferInv(t)' /\ SendCursorInv(t)'
                 /\ ReceiveBufferInv(t)' /\ CrossInv(t)'
      <4>1. SendSame(t) /\ RecvSame(t) /\ RecvSame(Peer[t])
        BY <2>1 DEF vars, SendSame, RecvSame, sendvars, recvvars, lifevars
      <4>2. acked'[t] = acked[t] /\ framed'[t] = framed[t]
        BY <2>1 DEF vars
      <4> QED BY <4>1, <4>2, SendKept, RecvKept, CrossKept DEF FullInv, DeliveryInv
    <3>2. NetInv'
      BY <2>1, NetKept DEF vars, lifevars, FullInv, DeliveryInv
    <3> QED BY <3>1, <3>2 DEF DeliveryInv
  <2>2. CASE Quiet
    BY <2>2, DeliveryQuiet
  <2>3. ASSUME NEW s \in Sock, m_sendto(s) \/ m_recvfrom(s) \/ SSend(s) \/ GC(s)
        PROVE  DeliveryInv'
    BY <2>3, DeliverySendto, DeliveryRecvfrom, DeliverySend, DeliveryGC
  <2>4. ASSUME NEW s \in Sock, NEW d \in net, RAccept(s, d) \/ RAck(s, d)
        PROVE  DeliveryInv'
    BY <2>4, DeliveryAccept, DeliveryAck
  <2> QED BY <2>1, <2>2, <2>3, <2>4, NextCases
<1> QED BY <1>1, <1>2 DEF FullInv

\* The inductive invariant holds in every reachable state.
LEMMA FullHolds ==
  ASSUME EmptyMsgs = {}
  PROVE  Spec => []FullInv
<1>1. Init => FullInv
  BY FullInit
<1>2. FullInv /\ [Next]_vars => FullInv'
  BY FullStep
<1> QED BY <1>1, <1>2, PTL DEF Spec

\* Send buffers, datagrams, receive buffers and deliveries of a stream agree on
\* where each message is, as the frame numbers come round (all of m_sendto,
\* m_recvfrom, R, S and the collector).
THEOREM DeliveryHolds ==
  ASSUME EmptyMsgs = {}
  PROVE  Spec => []DeliveryInv
<1>1. Spec => []FullInv
  BY FullHolds
<1>2. FullInv => DeliveryInv
  BY DEF FullInv
<1> QED BY <1>1, <1>2, PTL

\* Between acked and sent a message is in the send buffer, between read and
\* accepted in the receive buffer, and below that it was read.
LEMMA NothingVanishes == FullInv => NoMessageVanishes
<1> SUFFICES ASSUME FullInv, NEW s \in Sock, isfree[Peer[s]] = 0, NEW n \in 1..sent[s]
             PROVE  \/ \E j \in BusySend(s) : sdata[s][j].msg = n
                    \/ \E j \in BusyRecv(Peer[s]) : rdata[Peer[s]][j].msg = n
                    \/ \E k \in DOMAIN delivered[Peer[s]] : delivered[Peer[s]][k] = n
  BY DEF NoMessageVanishes
<1> DEFINE q == Peer[s]
<1>1. /\ q \in Sock /\ sent[s] \in Nat /\ acked[s] \in Nat /\ n \in Nat /\ n >= 1
      /\ SendBufferInv(s) /\ CrossInv(s) /\ ReceiveBufferInv(q)
      /\ Gone(q) \in Nat /\ fetchsize[q] \in Nat /\ Gone(q) = Len(delivered[q])
      /\ delivered[q] \in Seq(Nat) /\ isfree[q] = 0
  BY SockAssumption, StoredNear DEF FullInv, CountInv, TypeOK, DeliveryInv, Gone
<1>2. CASE n > acked[s]
  <2>1. n \in (acked[s] + 1)..sent[s]
    BY <1>1, <1>2
  <2>2. SlotOf(n) \in BusySend(s) /\ sdata[s][SlotOf(n)].msg = n
    BY <2>1, <1>1, SentSlot, SlotOfType DEF BusySend
  <2> QED BY <2>2
<1>3. CASE n <= acked[s] /\ n > Gone(q)
  <2>1. n <= Gone(q) + fetchsize[q]
    BY <1>1, <1>3 DEF CrossInv, ReceiveBufferInv
  <2>2. n \in (Gone(q) + 1)..(Gone(q) + fetchsize[q])
    BY <2>1, <1>1, <1>3
  <2>3. \E j \in BusyRecv(q) : Holds(q, rdata[q][j], n)
    BY <2>2, <1>1 DEF ReceiveBufferInv
  <2> QED BY <2>3, <1>1 DEF Holds
<1>4. CASE n <= Gone(q)
  <2>1. n \in 1..Len(delivered[q]) /\ n \in DOMAIN delivered[q]
    BY <1>1, <1>4
  <2>2. delivered[q][n] = n
    BY <2>1, <1>1 DEF ReceiveBufferInv
  <2> QED BY <2>1, <2>2
<1> QED BY <1>1, <1>2, <1>3, <1>4

\* The cursors point at idle, unframed or readable slots whenever the counters
\* say there are such slots.
LEMMA ErrorsDead == FullInv => ErrorBranchesDead
<1> SUFFICES ASSUME FullInv, NEW s \in Sock
             PROVE  /\ ssize[s] # Buf => sdata[s][snext[s]].isbusy = 0
                    /\ ssize[s] > 0 /\ wndsize[s] > 0 =>
                          /\ sdata[s][snextframed[s]].isbusy = 1
                          /\ sdata[s][snextframed[s]].frame = 0
                    /\ fetchsize[s] # 0 => Readable(s) # {}
                    /\ insertsize[s] # 0 => Idle(s) # {}
  BY DEF ErrorBranchesDead
<1>1. /\ sent[s] \in Nat /\ acked[s] \in Nat /\ framed[s] \in Nat /\ Buf \in Nat
      /\ Buf > 0 /\ ssize[s] \in Nat /\ wndsize[s] \in Nat /\ fetchsize[s] \in Nat
      /\ ssize[s] = Cardinality(BusySend(s)) /\ isfree[s] \in {0, 1}
      /\ snext[s] \in Slot /\ sdata[s][snext[s]] \in SendSlot
      /\ SendBufferInv(s) /\ SendCursorInv(s) /\ ReceiveBufferInv(s)
  BY FrameAssumption DEF FullInv, CountInv, TypeOK, CountersMatchSlots, DeliveryInv
<1>2. ASSUME sdata[s][snext[s]].isbusy # 0 PROVE ssize[s] = Buf
  <2>1. snext[s] \in BusySend(s)
    BY <1>1, <1>2 DEF BusySend, SendSlot
  <2>2. PICK n \in (acked[s] + 1)..sent[s] : snext[s] = SlotOf(n) /\ n \in Nat /\ n >= 1
    BY <2>1, BusySlot
  <2>3. snext[s] = SlotOf(sent[s] + 1)
    BY <2>2, <1>1 DEF SendCursorInv
  <2>4. sent[s] = acked[s] + Buf
    <3> SUFFICES ASSUME sent[s] < acked[s] + Buf PROVE FALSE
      BY <1>1 DEF SendBufferInv
    <3>1. /\ sent[s] + 1 \in Nat /\ sent[s] + 1 >= 1 /\ (sent[s] + 1) - n < Buf
          /\ n - (sent[s] + 1) < Buf /\ n # sent[s] + 1
      BY <1>1, <2>2
    <3> QED BY <3>1, <2>2, <2>3, SlotOfInjective
  <2>5. BusySend(s) = Slot
    <3> SUFFICES ASSUME NEW j \in Slot PROVE j \in BusySend(s)
      BY DEF BusySend
    <3>1. PICK m \in (acked[s] + 1)..(acked[s] + Buf) : SlotOf(m) = j
      BY <1>1, SlotOfCovers
    <3>2. sdata[s][SlotOf(m)].isbusy = 1
      BY <1>1, <2>4, SentSlot
    <3> QED BY <3>1, <3>2 DEF BusySend
  <2> QED BY <2>5, <1>1, SlotCount
<1>3. ASSUME ssize[s] > 0, wndsize[s] > 0
      PROVE  sdata[s][snextframed[s]].isbusy = 1 /\ sdata[s][snextframed[s]].frame = 0
  <2>1. BusySend(s) # {}
    BY <1>1, <1>3, FS_EmptySet
  <2>2. PICK j \in BusySend(s) : TRUE
    BY <2>1
  <2>3. PICK n \in (acked[s] + 1)..sent[s] : n \in Nat
    BY <2>2, BusySlot
  <2>4. framed[s] = acked[s] /\ isfree[s] = 0
    BY <1>1, <1>3, <2>3 DEF SendBufferInv, SendCursorInv
  <2>5. PICK m \in (acked[s] + 1)..sent[s] : m = framed[s] + 1
    BY <2>3, <2>4, <1>1
  <2>6. snextframed[s] = SlotOf(m) /\ ~ (m <= framed[s])
    BY <2>4, <2>5, <1>1 DEF SendCursorInv
  <2> QED BY <2>6, <1>1, SentSlot
<1>4. ASSUME fetchsize[s] # 0 PROVE Readable(s) # {}
  <2>1. PICK k \in (Gone(s) + 1)..(Gone(s) + fetchsize[s]) : k = Gone(s) + 1
    BY <1>1, <1>4, StoredNear
  <2>2. PICK j \in BusyRecv(s) : Holds(s, rdata[s][j], k)
    BY <1>1 DEF ReceiveBufferInv
  <2>3. rdata[s][j].frame = readframe[s]
    BY <2>1, <2>2, <1>1 DEF Holds, ReceiveBufferInv
  <2>4. j \in Readable(s)
    BY <2>3 DEF Readable, BusyRecv
  <2> QED BY <2>4
<1>5. insertsize[s] # 0 => Idle(s) # {}
  BY IdleExists DEF FullInv
<1> QED BY <1>2, <1>3, <1>4, <1>5

\* A message m_sendto has accepted is in the send buffer, in the peer's receive
\* buffer or with the peer's user, as long as the peer's socket exists.
THEOREM MessagesSafe ==
  ASSUME EmptyMsgs = {}
  PROVE  Spec => []NoMessageVanishes
<1>1. Spec => []FullInv
  BY FullHolds
<1> QED BY <1>1, NothingVanishes, PTL

\* The branches the code reports as errors (msocket.c 335, initmsocket.c 646, 411) are
\* never taken.
THEOREM ErrorsNeverTaken ==
  ASSUME EmptyMsgs = {}
  PROVE  Spec => []ErrorBranchesDead
<1>1. Spec => []FullInv
  BY FullHolds
<1> QED BY <1>1, ErrorsDead, PTL

(***************************************************************************)
(* The refinement of ReliableChannel.                                      *)
(***************************************************************************)

\* The channel of every direction as the refinement mapping computes it.
Got == [s \in Sock |-> delivered[Peer[s]]]
Up == [s \in Sock |-> isfree[Peer[s]] = 0]

\* The initial state of the sockets is that of empty, open channels.
LEMMA ChannelInit == Init => Channel!ChanInit
BY SockAssumption DEF Init, Channel!ChanInit

\* What was read and is not acknowledged, sent and stored adds up.
LEMMA ReadBehindSent ==
  ASSUME FullInv, NEW s \in Sock, isfree[Peer[s]] = 0
  PROVE  LET q == Peer[s] IN
         /\ q \in Sock /\ Peer[q] = s /\ Len(delivered[q]) \in Nat
         /\ sent[s] \in Nat /\ fetchsize[q] \in Nat /\ fetchsize[q] <= Buf
         /\ acked[s] \in Nat /\ acked[s] <= Len(delivered[q]) + fetchsize[q]
         /\ Len(delivered[q]) + fetchsize[q] <= sent[s]
<1> DEFINE q == Peer[s]
<1>1. q \in Sock /\ Peer[q] = s
  BY SockAssumption
<1>2. /\ Len(delivered[q]) \in Nat /\ sent[s] \in Nat /\ framed[s] \in Nat
      /\ acked[s] \in Nat /\ fetchsize[q] \in Nat /\ accepted[q] \in Nat
  BY <1>1 DEF FullInv, CountInv, TypeOK
<1>3. accepted[q] = Len(delivered[q]) + fetchsize[q]
  BY <1>1 DEF FullInv, DeliveryInv, ReceiveBufferInv, Gone
<1>4. acked[s] <= accepted[q] /\ accepted[q] <= framed[s] /\ framed[s] <= sent[s]
  BY <1>1 DEF FullInv, DeliveryInv, CrossInv, SendBufferInv
<1>5. fetchsize[q] <= Buf
  BY <1>1, StoredNear
<1> QED BY <1>1, <1>2, <1>3, <1>4, <1>5

\* m_sendto takes a message: its slot and the peer's slots bound what is under
\* way.
LEMMA SendtoTakes ==
  ASSUME FullInv, NEW s \in Sock, m_sendto(s)
  PROVE  Channel!Take(s)
<1>1. sent[s] < acked[s] + Buf
  BY SendRoom
<1>2. Up[s] => sent[s] - Len(Got[s]) < 2 * Buf
  <2> SUFFICES ASSUME isfree[Peer[s]] = 0
               PROVE  sent[s] - Len(delivered[Peer[s]]) < 2 * Buf
    BY DEF Up, Got
  <2> QED BY <1>1, ReadBehindSent, FrameAssumption
<1>3. sent' = [sent EXCEPT ![s] = @ + 1] /\ Got' = Got /\ Up' = Up
  BY DEF m_sendto, lifevars, Got, Up
<1> QED BY <1>2, <1>3 DEF Channel!Take, Got, Up

\* m_recvfrom delivers the next message of the peer's stream.
LEMMA RecvfromDelivers ==
  ASSUME FullInv, NEW q \in Sock, m_recvfrom(q)
  PROVE  Channel!Deliver(Peer[q])
<1> DEFINE s == Peer[q]
           j == FirstSlot(Readable(q))
<1>1. s \in Sock /\ Peer[s] = q
  BY SockAssumption
<1>2. rdata[q][j].msg = Gone(q) + 1 /\ isfree[q] = 0
  BY OldestRead
<1>3. delivered' = [delivered EXCEPT ![q] = Append(@, Len(@) + 1)]
  <2>1. delivered' = [delivered EXCEPT ![q] = Append(@, rdata[q][j].msg)]
    BY DEF m_recvfrom
  <2> QED BY <2>1, <1>2 DEF Gone
<1>4. Got' = [Got EXCEPT ![s] = Append(@, Len(@) + 1)]
  <2>1. delivered \in [Sock -> Seq(Nat)]
    BY DEF FullInv, CountInv, TypeOK
  <2>2. \A t \in Sock : Peer[t] \in Sock /\ (Peer[t] = q <=> t = s)
    BY <1>1, SockAssumption
  <2> QED BY <1>1, <1>3, <2>1, <2>2 DEF Got
<1>5. Up[s] /\ Len(Got[s]) < sent[s]
  <2>1. Got[s] = delivered[q] /\ Up[s]
    BY <1>1, <1>2 DEF Got, Up
  <2> HIDE DEF s
  <2>2. Len(delivered[q]) + fetchsize[q] <= sent[s] /\ fetchsize[q] \in Nat
        /\ Len(delivered[q]) \in Nat /\ sent[s] \in Nat
    BY <1>1, <1>2, ReadBehindSent
  <2>3. fetchsize[q] # 0
    BY DEF m_recvfrom
  <2> QED BY <2>1, <2>2, <2>3
<1>6. sent' = sent /\ Up' = Up
  BY DEF m_recvfrom, lifevars, Up
<1> QED BY <1>4, <1>5, <1>6 DEF Channel!Deliver, Got, Up

\* Collecting a socket shuts the channel towards it.
LEMMA CollectShuts ==
  ASSUME FullInv, NEW q \in Sock, GC(q)
  PROVE  Channel!Shut(Peer[q])
<1> DEFINE s == Peer[q]
<1>1. s \in Sock /\ Peer[s] = q
  BY SockAssumption
<1>2. isfree' = [isfree EXCEPT ![q] = 1] /\ isfree[q] = 0 /\ isfree \in [Sock -> {0, 1}]
  BY DEF GC, FullInv, CountInv, TypeOK
<1>3. Up' = [Up EXCEPT ![s] = FALSE] /\ Up[s]
  <2>1. \A t \in Sock : Peer[t] \in Sock /\ (Peer[t] = q <=> t = s)
    BY <1>1, SockAssumption
  <2> HIDE DEF s
  <2>2. ASSUME NEW t \in Sock
        PROVE  (isfree'[Peer[t]] = 0) = (IF t = s THEN FALSE ELSE isfree[Peer[t]] = 0)
    <3>1. isfree'[Peer[t]] = IF t = s THEN 1 ELSE isfree[Peer[t]]
      BY <1>2, <2>1
    <3>2. CASE t = s
      <4>1. ~ (isfree'[Peer[t]] = 0)
        BY <3>1, <3>2
      <4> QED BY <3>2, <4>1, Zenon
    <3>3. CASE t # s
      BY <3>1, <3>3, Zenon
    <3> QED BY <3>2, <3>3
  <2> QED BY <1>1, <1>2, <2>2, Zenon DEF Up
<1>4. sent' = sent /\ Got' = Got
  BY DEF GC, Got
<1> QED BY <1>3, <1>4 DEF Channel!Shut, Got, Up

\* The other steps are internal.
LEMMA RestStutters ==
  ASSUME FullInv,
         \/ Quiet
         \/ \E s \in Sock : SSend(s) \/ \E d \in net : RAccept(s, d) \/ RAck(s, d)
  PROVE  UNCHANGED Channel!chan
<1>1. sent' = sent /\ delivered' = delivered /\ isfree' = isfree
  <2>1. CASE Quiet
    BY <2>1, QuietChanges DEF QuietEffect, FullInv, CountInv
  <2>2. ASSUME NEW s \in Sock, SSend(s) \/ \E d \in net : RAccept(s, d) \/ RAck(s, d)
        PROVE  sent' = sent /\ delivered' = delivered /\ isfree' = isfree
    BY <2>2 DEF SSend, RAccept, RAck, lifevars
  <2> QED BY <2>1, <2>2
<1> QED BY <1>1 DEF Channel!chan

\* Every step of the sockets is a step of the channel or changes nothing of it.
LEMMA StepImplements ==
  ASSUME FullInv, [Next]_vars
  PROVE  [Channel!ChanNext]_(Channel!chan)
<1>1. CASE UNCHANGED vars
  BY <1>1 DEF vars, lifevars, Channel!chan
<1>2. CASE \/ Quiet
           \/ \E s \in Sock : SSend(s) \/ \E d \in net : RAccept(s, d) \/ RAck(s, d)
  BY <1>2, RestStutters
<1>3. ASSUME NEW s \in Sock, m_sendto(s) \/ m_recvfrom(s) \/ GC(s)
      PROVE  Channel!ChanNext
  <2>1. Peer[s] \in Sock
    BY SockAssumption
  <2> QED BY <1>3, <2>1, SendtoTakes, RecvfromDelivers, CollectShuts DEF Channel!ChanNext
<1> QED BY <1>1, <1>2, <1>3, NextCases

\* Whatever the network loses, duplicates or reorders within the lifetime of a
\* datagram, the library is a reliable channel: what m_recvfrom returns is what
\* the peer gave m_sendto, in order, each message once, with at most two
\* buffers under way.
THEOREM MTPImplementsChannel ==
  ASSUME EmptyMsgs = {}
  PROVE  Spec => ImplementsChannel
<1>1. Init => Channel!ChanInit
  BY ChannelInit
<1>2. FullInv /\ [Next]_vars => [Channel!ChanNext]_(Channel!chan)
  BY StepImplements
<1>3. Spec => []FullInv
  BY FullHolds
<1>4. ImplementsChannel <=> Channel!ChanInit /\ [][Channel!ChanNext]_(Channel!chan)
  BY DEF ImplementsChannel, Channel!ChanSpec
<1> QED BY <1>1, <1>2, <1>3, <1>4, PTL DEF Spec
=============================================================================
