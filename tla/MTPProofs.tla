----------------------------- MODULE MTPProofs -----------------------------
(***************************************************************************)
(* Proofs about the data transfer of module MTP, for every number of       *)
(* sockets, buffer size, MAX_SEQ and bound on messages.                    *)
(***************************************************************************)
EXTENDS MTP, MTPLemmas

(***************************************************************************)
(* Sets of slots.                                                          *)
(***************************************************************************)

\* "The first slot of" picks one of them.
LEMMA FirstSlotIn ==
  ASSUME NEW S \in SUBSET Slot, S # {}
  PROVE  FirstSlot(S) \in S /\ FirstSlot(S) \in Slot
<1>1. S \in SUBSET Nat
  BY FrameAssumption DEF Slot
<1>2. \E j \in S : \A k \in S : j <= k
  BY <1>1, LeastNat
<1> QED BY <1>2 DEF FirstSlot

(***************************************************************************)
(* The counters of the shared table.                                       *)
(***************************************************************************)

\* The counters agree with the slots, and the slots have their types: the
\* part of the invariant that needs nothing about the network.
CountInv == TypeOK /\ CountersMatchSlots /\ OneOutstanding

\* The table as initialised has empty buffers.
LEMMA CountInit == Init => CountInv
<1> SUFFICES ASSUME Init PROVE CountInv
  OBVIOUS
<1> USE DEF Init
<1>1. /\ Buf \in Nat /\ Buf > 0 /\ 1 \in Frame
      /\ MaxSeq \in Nat
  BY FrameAssumption DEF Frame
<1>2. TypeOK
  BY <1>1, SlotArith DEF TypeOK, SendSlot, RecvSlot, EmptySendSlot, EmptyRecvSlot
<1>3. \A s \in Sock : BusySend(s) = {} /\ BusyRecv(s) = {} /\ Outstanding(s) = {}
  BY DEF BusySend, BusyRecv, Outstanding, EmptySendSlot, EmptyRecvSlot
<1>4. \A s \in Sock : /\ Cardinality(BusySend(s)) = 0
                     /\ Cardinality(BusyRecv(s)) = 0
                     /\ Cardinality(Outstanding(s)) = 0
  BY <1>3, FS_EmptySet, Zenon
<1>5. CountersMatchSlots
  BY <1>1, <1>4 DEF CountersMatchSlots
<1>6. OneOutstanding
  BY <1>4 DEF OneOutstanding
<1> QED BY <1>2, <1>5, <1>6 DEF CountInv

\* m_sendto preserves the counters.
LEMMA CountSendto ==
  ASSUME CountInv, NEW s \in Sock, m_sendto(s)
  PROVE  CountInv'
<1> USE DEF CountInv
<1> DEFINE j == snext[s]
           x == [isbusy |-> 1, frame |-> 0, ack |-> 0, msg |-> sent[s] + 1]
<1>1. j \in Slot /\ x \in SendSlot /\ ssize[s] \in Nat
  BY DEF TypeOK, SendSlot
<1>2. sdata' = [sdata EXCEPT ![s][j] = x]
  BY DEF m_sendto
<1>3. /\ \A i \in Slot : sdata'[s][i] = IF i = j THEN x ELSE sdata[s][i]
      /\ \A t \in Sock : t # s => sdata'[t] = sdata[t]
      /\ sdata' \in [Sock -> [Slot -> SendSlot]]
  <2> HIDE DEF x, j
  <2> QED BY <1>1, <1>2 DEF TypeOK
<1>4. TypeOK'
  BY <1>1, <1>3, SlotArith DEF TypeOK, m_sendto, recvvars, lifevars
<1>5. BusySend(s)' = BusySend(s) \cup {j} /\ j \notin BusySend(s)
  BY <1>1, <1>3 DEF BusySend, m_sendto
<1>6. Outstanding(s)' = Outstanding(s)
  BY <1>1, <1>3 DEF Outstanding, m_sendto
<1>7. Cardinality(BusySend(s)') = Cardinality(BusySend(s)) + 1
  <2>1. IsFiniteSet(BusySend(s))
    BY SlotsFinite DEF BusySend
  <2> QED BY <2>1, <1>5, FS_AddElement
<1>8. \A t \in Sock : t # s => /\ BusySend(t)' = BusySend(t)
                               /\ Outstanding(t)' = Outstanding(t)
                               /\ ssize'[t] = ssize[t]
  BY <1>3 DEF BusySend, Outstanding, m_sendto, TypeOK
<1>9. \A t \in Sock : BusyRecv(t)' = BusyRecv(t)
  BY DEF BusyRecv, m_sendto, recvvars
<1>10. CountersMatchSlots'
  BY <1>1, <1>5, <1>7, <1>8, <1>9 DEF CountersMatchSlots, m_sendto, recvvars, TypeOK
<1>11. OneOutstanding'
  BY <1>6, <1>8 DEF OneOutstanding, m_sendto
<1> QED BY <1>4, <1>10, <1>11

\* Framing a message moves one unit of window to the outstanding frames.
LEMMA CountSend ==
  ASSUME CountInv, NEW s \in Sock, SSend(s)
  PROVE  CountInv'
<1> USE DEF CountInv
<1> DEFINE j == snextframed[s]
           x == [sdata[s][j] EXCEPT !.frame = currframe[s]]
<1>1. /\ j \in Slot /\ sdata[s][j] \in SendSlot /\ currframe[s] \in Frame
      /\ wndsize[s] \in Nat /\ wndsize[s] > 0
      /\ sdata[s][j].isbusy = 1 /\ sdata[s][j].frame = 0
  BY DEF TypeOK, SSend
<1>2. /\ x \in SendSlot /\ x.isbusy = 1 /\ x.frame \in Frame /\ x.frame # 0
      /\ x.msg \in Nat /\ x.msg = sdata[s][j].msg /\ x.ack = sdata[s][j].ack
  BY <1>1 DEF SendSlot, Frame
<1>3. sdata' = [sdata EXCEPT ![s][j] = x]
  BY DEF SSend
<1>4. /\ \A i \in Slot : sdata'[s][i] = IF i = j THEN x ELSE sdata[s][i]
      /\ \A t \in Sock : t # s => sdata'[t] = sdata[t]
      /\ sdata' \in [Sock -> [Slot -> SendSlot]]
  <2> HIDE DEF x, j
  <2> QED BY <1>1, <1>2, <1>3 DEF TypeOK
<1>5. DataGram(s, x) \in Datagram
  BY <1>2, SockAssumption DEF DataGram, Datagram
<1>6. net' \in SUBSET Datagram
  BY <1>5 DEF SSend, TypeOK
<1>7. TypeOK'
  <2> HIDE DEF x, j
  <2>1. currframe' \in [Sock -> Frame]
    BY <1>1, NextFrameType DEF SSend, TypeOK
  <2>2. snextframed' \in [Sock -> Slot]
    BY SlotArith DEF SSend, TypeOK
  <2>3. wndsize' \in [Sock -> Nat] /\ framed' \in [Sock -> Nat]
    BY <1>1 DEF SSend, TypeOK
  <2> QED BY <1>4, <1>6, <2>1, <2>2, <2>3 DEF TypeOK, SSend, recvvars, lifevars
<1>8. BusySend(s)' = BusySend(s)
  BY <1>1, <1>2, <1>4 DEF BusySend
<1>9. Outstanding(s)' = Outstanding(s) \cup {j} /\ j \notin Outstanding(s)
  <2> HIDE DEF x, j
  <2> QED BY <1>1, <1>2, <1>4 DEF Outstanding
<1>10. Cardinality(Outstanding(s)') = Cardinality(Outstanding(s)) + 1
  <2>1. IsFiniteSet(Outstanding(s))
    BY SlotsFinite DEF Outstanding
  <2> QED BY <2>1, <1>9, FS_AddElement
<1>11. \A t \in Sock : t # s => /\ BusySend(t)' = BusySend(t)
                                /\ Outstanding(t)' = Outstanding(t)
                                /\ wndsize'[t] = wndsize[t]
  BY <1>4 DEF BusySend, Outstanding, SSend, TypeOK
<1>12. CountersMatchSlots'
  <2>1. \A t \in Sock : BusyRecv(t)' = BusyRecv(t)
    BY DEF BusyRecv, SSend, recvvars
  <2> QED BY <2>1, <1>8, <1>11 DEF CountersMatchSlots, SSend, recvvars
<1>13. OneOutstanding'
  <2>1. Cardinality(Outstanding(s)) \in Nat
    BY SlotsFinite DEF Outstanding
  <2>2. wndsize'[s] = wndsize[s] - 1
    BY DEF SSend, TypeOK
  <2> QED BY <2>1, <2>2, <1>1, <1>10, <1>11 DEF OneOutstanding
<1> QED BY <1>7, <1>12, <1>13

\* An acknowledgement moves every slot it matches from outstanding to idle.
LEMMA CountAck ==
  ASSUME CountInv, NEW s \in Sock, NEW d \in net, RAck(s, d)
  PROVE  CountInv'
<1> USE DEF CountInv
<1> DEFINE hit == AckMatches(s, d)
           freed(i) == [isbusy |-> 0, frame |-> 0, ack |-> 1, msg |-> sdata[s][i].msg]
<1>1. d \in Datagram /\ d.frame # 0
  BY DEF TypeOK, Datagram, Frame
<1>2. hit \in SUBSET Slot /\ hit \subseteq BusySend(s) /\ hit \subseteq Outstanding(s)
  BY <1>1 DEF AckMatches, BusySend, Outstanding
<1>3. \A i \in Slot : freed(i) \in SendSlot /\ freed(i).isbusy = 0
  BY DEF TypeOK, SendSlot
<1>4. /\ \A i \in Slot : sdata'[s][i] = IF i \in hit THEN freed(i) ELSE sdata[s][i]
      /\ \A t \in Sock : t # s => sdata'[t] = sdata[t]
      /\ sdata' \in [Sock -> [Slot -> SendSlot]]
  <2>1. sdata' = [sdata EXCEPT ![s] = [i \in Slot |->
                      IF i \in hit THEN freed(i) ELSE sdata[s][i]]]
    BY DEF RAck
  <2> HIDE DEF freed, hit
  <2> QED BY <1>3, <2>1 DEF TypeOK
<1>5. BusySend(s)' = BusySend(s) \ hit
  <2> HIDE DEF freed, hit
  <2> QED BY <1>3, <1>4 DEF BusySend
<1>6. Outstanding(s)' = Outstanding(s) \ hit
  <2> HIDE DEF freed, hit
  <2> QED BY <1>3, <1>4 DEF Outstanding
<1>7. /\ Cardinality(BusySend(s)') = Cardinality(BusySend(s)) - Cardinality(hit)
      /\ Cardinality(BusySend(s)) \in Nat /\ Cardinality(BusySend(s)') \in Nat
      /\ Cardinality(hit) \in Nat
  <2>1. IsFiniteSet(BusySend(s)) /\ BusySend(s) \in SUBSET Slot
    BY SlotsFinite DEF BusySend
  <2>2. BusySend(s) \cap hit = hit
    BY <1>2
  <2> QED BY <2>1, <2>2, <1>2, <1>5, FS_Difference, SlotsFinite
<1>8. /\ Cardinality(Outstanding(s)') = Cardinality(Outstanding(s)) - Cardinality(hit)
      /\ Cardinality(Outstanding(s)) \in Nat
  <2>1. IsFiniteSet(Outstanding(s)) /\ Outstanding(s) \in SUBSET Slot
    BY SlotsFinite DEF Outstanding
  <2>2. Outstanding(s) \cap hit = hit
    BY <1>2
  <2> QED BY <2>1, <2>2, <1>6, FS_Difference, SlotsFinite
<1>9. /\ ssize' = [ssize EXCEPT ![s] = @ - Cardinality(hit)]
      /\ wndsize' = [wndsize EXCEPT ![s] = @ + Cardinality(hit)]
      /\ acked' = [acked EXCEPT ![s] = @ + Cardinality(hit)]
      /\ readfds' \in SUBSET Sock
  BY DEF RAck, Arrives, TypeOK
<1>10. ssize[s] = Cardinality(BusySend(s)) /\ wndsize[s] \in Nat
  BY DEF CountersMatchSlots, TypeOK
<1> HIDE DEF hit, freed
<1>11. TypeOK'
  <2>1. ssize' \in [Sock -> Nat]
    BY <1>5, <1>7, <1>9, <1>10 DEF TypeOK
  <2>2. /\ wndsize \in [Sock -> Nat] /\ acked \in [Sock -> Nat]
        /\ Cardinality(hit) \in Nat
    BY <1>7 DEF TypeOK
  <2> HIDE DEF CountInv
  <2>3. wndsize' \in [Sock -> Nat]
    BY <1>9, <2>2
  <2>4. acked' \in [Sock -> Nat]
    BY <1>9, <2>2
  <2> QED BY <1>4, <1>9, <2>1, <2>3, <2>4 DEF CountInv, TypeOK, RAck, recvvars, lifevars
<1>12. \A t \in Sock : t # s => /\ BusySend(t)' = BusySend(t)
                                /\ Outstanding(t)' = Outstanding(t)
                                /\ wndsize'[t] = wndsize[t]
                                /\ ssize'[t] = ssize[t]
  BY <1>4, <1>9 DEF BusySend, Outstanding, TypeOK
<1>13. ssize'[s] = Cardinality(BusySend(s)') /\ wndsize'[s] = wndsize[s] + Cardinality(hit)
  BY <1>7, <1>9, <1>10 DEF TypeOK
<1>14. CountersMatchSlots'
  <2>1. \A t \in Sock : BusyRecv(t)' = BusyRecv(t)
    BY DEF BusyRecv, RAck, recvvars
  <2> QED BY <2>1, <1>12, <1>13 DEF CountersMatchSlots, RAck, recvvars
<1>15. OneOutstanding'
  BY <1>7, <1>8, <1>10, <1>12, <1>13 DEF OneOutstanding
<1> QED BY <1>11, <1>14, <1>15

\* Reading a message frees its slot and moves one unit of space back.
LEMMA CountRecvfrom ==
  ASSUME CountInv, NEW s \in Sock, m_recvfrom(s)
  PROVE  CountInv'
<1> USE DEF CountInv
<1> DEFINE j == FirstSlot(Readable(s))
           x == [isbusy |-> 0, frame |-> 0, msg |-> rdata[s][j].msg]
<1>1. j \in Readable(s) /\ j \in Slot
  <2>1. Readable(s) \in SUBSET Slot /\ Readable(s) # {}
    BY DEF Readable, m_recvfrom
  <2> QED BY <2>1, FirstSlotIn
<1>2. rdata[s][j] \in RecvSlot /\ rdata[s][j].isbusy = 1 /\ rdata[s][j].msg \in Nat
  BY <1>1 DEF TypeOK, Readable, RecvSlot
<1>3. x \in RecvSlot /\ x.isbusy = 0
  BY <1>2 DEF RecvSlot
<1>4. /\ rdata' = [rdata EXCEPT ![s][j] = x]
      /\ delivered' = [delivered EXCEPT ![s] = Append(@, rdata[s][j].msg)]
      /\ fetchsize[s] # 0 /\ fetchsize[s] \in Nat /\ insertsize[s] \in Nat
      /\ fetchsize' = [fetchsize EXCEPT ![s] = @ - 1]
      /\ insertsize' = [insertsize EXCEPT ![s] = @ + 1]
      /\ readframe' = [readframe EXCEPT ![s] = NextFrame(@)]
  BY DEF m_recvfrom, TypeOK
<1> HIDE DEF j, x
<1>5. /\ \A i \in Slot : rdata'[s][i] = IF i = j THEN x ELSE rdata[s][i]
      /\ \A t \in Sock : t # s => rdata'[t] = rdata[t]
      /\ rdata' \in [Sock -> [Slot -> RecvSlot]]
  BY <1>1, <1>3, <1>4 DEF TypeOK
<1>6. TypeOK'
  <2>1. /\ fetchsize' \in [Sock -> Nat] /\ insertsize' \in [Sock -> Nat]
    BY <1>4 DEF TypeOK
  <2>2. readframe' \in [Sock -> Frame]
    BY <1>4, NextFrameType DEF TypeOK
  <2>3. delivered' \in [Sock -> Seq(Nat)]
    BY <1>2, <1>4 DEF TypeOK
  <2> QED BY <1>5, <2>1, <2>2, <2>3 DEF TypeOK, m_recvfrom, sendvars, lifevars
<1>7. BusyRecv(s)' = BusyRecv(s) \ {j} /\ j \in BusyRecv(s)
  BY <1>1, <1>2, <1>3, <1>5 DEF BusyRecv
<1>8. Cardinality(BusyRecv(s)') = Cardinality(BusyRecv(s)) - 1
  <2>1. IsFiniteSet(BusyRecv(s))
    BY SlotsFinite DEF BusyRecv
  <2> QED BY <2>1, <1>7, FS_RemoveElement
<1>9. \A t \in Sock : t # s => /\ BusyRecv(t)' = BusyRecv(t)
                               /\ fetchsize'[t] = fetchsize[t]
                               /\ insertsize'[t] = insertsize[t]
  BY <1>4, <1>5 DEF BusyRecv, TypeOK
<1>10. \A t \in Sock : BusySend(t)' = BusySend(t) /\ Outstanding(t)' = Outstanding(t)
  BY DEF BusySend, Outstanding, m_recvfrom, sendvars
<1>11. fetchsize'[s] = fetchsize[s] - 1 /\ insertsize'[s] = insertsize[s] + 1
  BY <1>4 DEF TypeOK
<1>12. CountersMatchSlots'
  <2>1. Buf \in Nat
    BY FrameAssumption
  <2> QED BY <2>1, <1>4, <1>8, <1>9, <1>10, <1>11
          DEF CountersMatchSlots, m_recvfrom, sendvars
<1>13. OneOutstanding'
  BY <1>10 DEF OneOutstanding, m_recvfrom, sendvars
<1> QED BY <1>6, <1>12, <1>13

\* A receive buffer with space left has an idle slot, so wheretoinsert is one.
LEMMA IdleExists ==
  ASSUME CountInv, NEW s \in Sock, insertsize[s] # 0
  PROVE  /\ Idle(s) # {}
         /\ FirstSlot(Idle(s)) \in Slot
         /\ FirstSlot(Idle(s)) \notin BusyRecv(s)
<1>1. Cardinality(BusyRecv(s)) # Buf
  BY FrameAssumption DEF CountInv, CountersMatchSlots, TypeOK
<1>2. BusyRecv(s) # Slot
  BY <1>1, SlotCount
<1>3. Idle(s) = Slot \ BusyRecv(s)
  BY DEF Idle, BusyRecv, CountInv, TypeOK, RecvSlot
<1>4. Idle(s) # {} /\ Idle(s) \in SUBSET Slot
  BY <1>2, <1>3 DEF BusyRecv
<1> QED BY <1>3, <1>4, FirstSlotIn

\* Accepting a frame takes an idle slot and one unit of space.
LEMMA CountAccept ==
  ASSUME CountInv, NEW s \in Sock, NEW d \in net, RAccept(s, d)
  PROVE  CountInv'
<1> DEFINE j == FirstSlot(Idle(s))
           x == [isbusy |-> 1, frame |-> d.frame, msg |-> d.msg]
<1>1. d \in Datagram /\ d.frame \in Frame /\ d.msg \in Nat /\ d.of \in Sock
  BY DEF CountInv, TypeOK, Datagram
<1>2. x \in RecvSlot /\ x.isbusy = 1
  BY <1>1 DEF RecvSlot
<1>3. j \in Slot /\ j \notin BusyRecv(s) /\ Idle(s) # {}
  BY IdleExists DEF RAccept
<1>4. /\ rdata' = [rdata EXCEPT ![s][j] = x]
      /\ insertsize[s] # 0 /\ fetchsize[s] \in Nat /\ insertsize[s] \in Nat
      /\ fetchsize' = [fetchsize EXCEPT ![s] = @ + 1]
      /\ insertsize' = [insertsize EXCEPT ![s] = @ - 1]
      /\ togetframe' = [togetframe EXCEPT ![s] = NextFrame(d.frame)]
      /\ net' = net \cup { AckOf(d, insertsize[s] - 1) }
      /\ accepted' = [accepted EXCEPT ![s] = @ + 1]
      /\ readfds' \in SUBSET Sock
  BY <1>3 DEF RAccept, Arrives, CountInv, TypeOK
<1> USE DEF CountInv
<1> HIDE DEF j, x
<1>5. /\ \A i \in Slot : rdata'[s][i] = IF i = j THEN x ELSE rdata[s][i]
      /\ \A t \in Sock : t # s => rdata'[t] = rdata[t]
      /\ rdata' \in [Sock -> [Slot -> RecvSlot]]
  BY <1>2, <1>3, <1>4 DEF TypeOK
<1>6. TypeOK'
  <2>1. fetchsize' \in [Sock -> Nat] /\ insertsize' \in [Sock -> Nat]
    BY <1>4 DEF TypeOK
  <2>2. togetframe' \in [Sock -> Frame] /\ accepted' \in [Sock -> Nat]
    <3>1. NextFrame(d.frame) \in Frame
      BY <1>1, NextFrameType
    <3> QED BY <1>4, <3>1 DEF TypeOK
  <2>3. AckOf(d, insertsize[s] - 1) \in Datagram
    BY <1>1, <1>4 DEF AckOf, Datagram
  <2> QED BY <1>4, <1>5, <2>1, <2>2, <2>3 DEF TypeOK, RAccept, sendvars, lifevars
<1>7. BusyRecv(s)' = BusyRecv(s) \cup {j} /\ j \notin BusyRecv(s)
  BY <1>2, <1>3, <1>5 DEF BusyRecv
<1>8. Cardinality(BusyRecv(s)') = Cardinality(BusyRecv(s)) + 1
  <2>1. IsFiniteSet(BusyRecv(s))
    BY SlotsFinite DEF BusyRecv
  <2> QED BY <2>1, <1>7, FS_AddElement
<1>9. \A t \in Sock : t # s => /\ BusyRecv(t)' = BusyRecv(t)
                               /\ fetchsize'[t] = fetchsize[t]
                               /\ insertsize'[t] = insertsize[t]
  BY <1>4, <1>5 DEF BusyRecv, TypeOK
<1>10. \A t \in Sock : BusySend(t)' = BusySend(t) /\ Outstanding(t)' = Outstanding(t)
  BY DEF BusySend, Outstanding, RAccept, sendvars
<1>11. fetchsize'[s] = fetchsize[s] + 1 /\ insertsize'[s] = insertsize[s] - 1
  BY <1>4 DEF TypeOK
<1>12. CountersMatchSlots'
  <2>1. Buf \in Nat
    BY FrameAssumption
  <2> QED BY <2>1, <1>4, <1>8, <1>9, <1>10, <1>11
          DEF CountersMatchSlots, RAccept, sendvars
<1>13. OneOutstanding'
  BY <1>10 DEF OneOutstanding, RAccept, sendvars
<1> QED BY <1>6, <1>12, <1>13

\* The collector leaves empty buffers and matching counters.
LEMMA CountGC ==
  ASSUME CountInv, NEW s \in Sock, GC(s)
  PROVE  CountInv'
<1> USE DEF CountInv
<1>1. /\ EmptySendSlot \in SendSlot /\ EmptyRecvSlot \in RecvSlot
      /\ 1 \in Frame /\ Buf \in Nat /\ 0 \in Slot
  BY FrameAssumption, SlotArith
     DEF EmptySendSlot, EmptyRecvSlot, SendSlot, RecvSlot, Frame
<1>2. TypeOK'
  BY <1>1 DEF TypeOK, GC
<1>3. \A t \in Sock :
        /\ sdata'[t] = IF t = s THEN [j \in Slot |-> EmptySendSlot] ELSE sdata[t]
        /\ rdata'[t] = IF t = s THEN [j \in Slot |-> EmptyRecvSlot] ELSE rdata[t]
        /\ ssize'[t] = IF t = s THEN 0 ELSE ssize[t]
        /\ fetchsize'[t] = IF t = s THEN 0 ELSE fetchsize[t]
        /\ insertsize'[t] = IF t = s THEN Buf ELSE insertsize[t]
        /\ wndsize'[t] = IF t = s THEN 1 ELSE wndsize[t]
  BY DEF GC, TypeOK
<1>4. BusySend(s)' = {} /\ BusyRecv(s)' = {} /\ Outstanding(s)' = {}
  BY <1>3 DEF BusySend, BusyRecv, Outstanding, EmptySendSlot, EmptyRecvSlot
<1>5. /\ Cardinality(BusySend(s)') = 0
      /\ Cardinality(BusyRecv(s)') = 0
      /\ Cardinality(Outstanding(s)') = 0
  BY <1>4, FS_EmptySet, Zenon
<1>6. \A t \in Sock : t # s => /\ BusySend(t)' = BusySend(t)
                               /\ BusyRecv(t)' = BusyRecv(t)
                               /\ Outstanding(t)' = Outstanding(t)
  BY <1>3 DEF BusySend, BusyRecv, Outstanding
<1>7. CountersMatchSlots'
  BY <1>1, <1>3, <1>5, <1>6 DEF CountersMatchSlots
<1>8. OneOutstanding'
  BY <1>3, <1>5, <1>6 DEF OneOutstanding
<1> QED BY <1>2, <1>7, <1>8

\* The steps that change no buffer.
Quiet ==
  \/ RTimeout
  \/ \E s \in Sock : Exit(s) \/ SResend(s)
                     \/ \E d \in net : RReack(s, d) \/ RIgnore(s, d)
  \/ \E d \in net : Lose(d)

\* What they leave alone, and what they may change.
QuietEffect ==
  /\ UNCHANGED <<sendvars, recvvars, isfree,
                 sent, framed, acked, accepted, delivered>>
  /\ net' \in SUBSET Datagram
  /\ readfds' \in SUBSET Sock
  /\ alive' \in [Sock -> BOOLEAN]

\* No quiet step changes a buffer or breaks a type.
LEMMA QuietChanges ==
  ASSUME TypeOK, Quiet
  PROVE  QuietEffect
<1> USE DEF TypeOK, lifevars, QuietEffect
<1>1. CASE RTimeout
  BY <1>1 DEF RTimeout
<1>2. ASSUME NEW s \in Sock, Exit(s)
      PROVE  QuietEffect
  BY <1>2 DEF Exit
<1>3. ASSUME NEW s \in Sock, SResend(s)
      PROVE  QuietEffect
  <2>1. ASSUME NEW j \in Unacked(s)
        PROVE  DataGram(s, sdata[s][j]) \in Datagram
    <3>1. sdata[s][j] \in SendSlot /\ sdata[s][j].frame # 0
      BY <2>1 DEF Unacked
    <3>2. sdata[s][j].frame \in Frame /\ sdata[s][j].msg \in Nat
      BY <3>1 DEF SendSlot
    <3> QED BY <3>2, SockAssumption DEF DataGram, Datagram
  <2>2. net' \in SUBSET Datagram
    BY <1>3, <2>1 DEF SResend
  <2> QED BY <1>3, <2>2 DEF SResend
<1>4. ASSUME NEW s \in Sock, NEW d \in net, RReack(s, d)
      PROVE  QuietEffect
  <2>1. AckOf(d, insertsize[s]) \in Datagram
    BY DEF AckOf, Datagram
  <2> QED BY <1>4, <2>1 DEF RReack, Arrives
<1>5. ASSUME NEW s \in Sock, NEW d \in net, RIgnore(s, d)
      PROVE  QuietEffect
  BY <1>5 DEF RIgnore, Arrives
<1>6. ASSUME NEW d \in net, Lose(d)
      PROVE  QuietEffect
  BY <1>6 DEF Lose, Arrives
<1> QED BY <1>1, <1>2, <1>3, <1>4, <1>5, <1>6 DEF Quiet

\* Steps that change no buffer preserve the counters.
LEMMA CountQuiet ==
  ASSUME CountInv, QuietEffect
  PROVE  CountInv'
<1> USE DEF CountInv, QuietEffect, sendvars, recvvars
<1>1. TypeOK'
  BY DEF TypeOK
<1>2. CountersMatchSlots'
  BY DEF CountersMatchSlots, BusySend, BusyRecv
<1>3. OneOutstanding'
  BY DEF OneOutstanding, Outstanding
<1> QED BY <1>1, <1>2, <1>3

\* A stuttering step changes no buffer.
LEMMA StutterQuiet ==
  ASSUME TypeOK, UNCHANGED vars
  PROVE  QuietEffect
BY DEF QuietEffect, vars, TypeOK, lifevars

\* Every step is one of these.
LEMMA NextCases ==
  ASSUME Next
  PROVE  \/ Quiet
         \/ \E s \in Sock : \/ m_sendto(s) \/ m_recvfrom(s) \/ SSend(s) \/ GC(s)
                            \/ \E d \in net : RAccept(s, d) \/ RAck(s, d)
BY DEF Next, Quiet, RHandle

\* Every step preserves types and counters.
LEMMA CountStep == CountInv /\ [Next]_vars => CountInv'
<1> SUFFICES ASSUME CountInv, [Next]_vars PROVE CountInv'
  OBVIOUS
<1>1. TypeOK
  BY DEF CountInv
<1>2. CASE UNCHANGED vars
  BY <1>1, <1>2, StutterQuiet, CountQuiet
<1>3. CASE Quiet
  BY <1>1, <1>3, QuietChanges, CountQuiet
<1>4. ASSUME NEW s \in Sock, m_sendto(s) \/ m_recvfrom(s) \/ SSend(s) \/ GC(s)
      PROVE  CountInv'
  BY <1>4, CountSendto, CountRecvfrom, CountSend, CountGC
<1>5. ASSUME NEW s \in Sock, NEW d \in net, RAccept(s, d) \/ RAck(s, d)
      PROVE  CountInv'
  BY <1>5, CountAccept, CountAck
<1> QED BY <1>2, <1>3, <1>4, <1>5, NextCases

\* The counting invariant holds in every reachable state.
LEMMA CountHolds == Spec => []CountInv
<1>1. Init => CountInv
  BY CountInit
<1>2. CountInv /\ [Next]_vars => CountInv'
  BY CountStep
<1> QED BY <1>1, <1>2, PTL DEF Spec

\* The shared table (initmsocket.c 773-813 and every thread) always has its types:
\* cursors stay inside of the buffers, frame numbers below MaxSeq.
THEOREM TypesCorrect == Spec => []TypeOK
<1>1. CountInv => TypeOK
  BY DEF CountInv
<1> QED BY <1>1, CountHolds, PTL

\* size, fetchsize and insertsize always agree with the slots they count (msocket.c
\* 348, 428-433, initmsocket.c 428-431, 518-522).
THEOREM CountersCorrect == Spec => []CountersMatchSlots
<1>1. CountInv => CountersMatchSlots
  BY DEF CountInv
<1> QED BY <1>1, CountHolds, PTL

\* At most one frame of a socket is unacknowledged (initmsocket.c 646-659).
THEOREM StopAndWait == Spec => []OneOutstanding
<1>1. CountInv => OneOutstanding
  BY DEF CountInv
<1> QED BY <1>1, CountHolds, PTL

(***************************************************************************)
(* Unread messages.                                                        *)
(***************************************************************************)

\* What one step does to the unread messages.
UnreadStep ==
  \A s \in Sock : \A j \in BusyRecv(s) :
      \/ rdata'[s][j] = rdata[s][j]
      \/ delivered'[s] = Append(delivered[s], rdata[s][j].msg)

\* Every step keeps the unread messages.
LEMMA UnreadNext ==
  ASSUME CountInv, Next
  PROVE  UnreadStep
<1> USE DEF UnreadStep
<1>1. CASE UNCHANGED rdata
  BY <1>1
<1>2. ASSUME NEW t \in Sock, m_recvfrom(t)
      PROVE  UnreadStep
  <2> DEFINE i == FirstSlot(Readable(t))
             x == [isbusy |-> 0, frame |-> 0, msg |-> rdata[t][i].msg]
  <2>1. /\ rdata' = [rdata EXCEPT ![t][i] = x]
        /\ delivered' = [delivered EXCEPT ![t] = Append(@, rdata[t][i].msg)]
    BY <1>2 DEF m_recvfrom
  <2> HIDE DEF i, x
  <2> QED BY <2>1 DEF CountInv, TypeOK, BusyRecv
<1>3. ASSUME NEW t \in Sock, NEW d \in net, RAccept(t, d)
      PROVE  UnreadStep
  <2> DEFINE i == FirstSlot(Idle(t))
             x == [isbusy |-> 1, frame |-> d.frame, msg |-> d.msg]
  <2>1. i \in Slot /\ i \notin BusyRecv(t) /\ Idle(t) # {}
    BY <1>3, IdleExists DEF RAccept
  <2>2. rdata' = [rdata EXCEPT ![t][i] = x]
    BY <1>3, <2>1 DEF RAccept
  <2> HIDE DEF i, x
  <2> QED BY <2>1, <2>2 DEF CountInv, TypeOK, BusyRecv
<1>4. ASSUME NEW t \in Sock, GC(t)
      PROVE  UnreadStep
  <2>1. Cardinality(BusyRecv(t)) = 0
    BY <1>4 DEF GC, CountInv, CountersMatchSlots
  <2>2. BusyRecv(t) = {}
    <3>1. IsFiniteSet(BusyRecv(t))
      BY SlotsFinite DEF BusyRecv
    <3> QED BY <2>1, <3>1, FS_EmptySet, Zenon
  <2>3. \A s \in Sock : s # t => rdata'[s] = rdata[s]
    BY <1>4 DEF GC, CountInv, TypeOK
  <2> QED BY <2>2, <2>3
<1>5. CASE Quiet
  BY <1>5, <1>1, QuietChanges DEF CountInv, QuietEffect, recvvars
<1>6. ASSUME NEW t \in Sock, m_sendto(t) \/ SSend(t) \/ \E d \in net : RAck(t, d)
      PROVE  UnreadStep
  BY <1>6, <1>1 DEF m_sendto, SSend, RAck, recvvars
<1> QED BY <1>2, <1>3, <1>4, <1>5, <1>6, NextCases

\* No step ever overwrites or discards a stored message the user has not read:
\* the only way out of a receive slot is m_recvfrom returning that message.
THEOREM UnreadNeverLost == Spec => UnreadKept
<1>1. CountInv /\ [Next]_vars => [UnreadStep]_vars
  BY UnreadNext
<1>2. UnreadKept <=> [][UnreadStep]_vars
  BY PTL DEF UnreadKept, UnreadStep
<1> QED BY <1>1, <1>2, CountHolds, PTL DEF Spec
=============================================================================
