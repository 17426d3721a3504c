------------------------- MODULE MTPSendRaceProofs -------------------------
(***************************************************************************)
(* Proofs about the send buffer of module MTPSendRace, for every buffer    *)
(* size, MAX_SEQ and number of messages, R being outside of the lock as it *)
(* is in the code: its types, and that it is a reliable channel in every   *)
(* execution in which the two races of MTPSendRace do not happen.          *)
(***************************************************************************)
EXTENDS MTPSendRace, MTPLemmas

(***************************************************************************)
(* Types, in every execution.                                              *)
(***************************************************************************)

\* A slot that holds a message holds one of the user's, but while the user
\* is about to fill it.
FilledInv ==
    /\ \A j \in Slot : \/ isbusy[j] = 1 /\ ~ (upc = "fill" /\ j = next)
                       \/ frame[j] # 0
                       => msg[j] # 0
    /\ \A d \in frames : d.frame # 0 => d.msg # 0

\* TypeOK is inductive with what the threads know at each place, and because
\* the user and the S thread exclude each other.
TypeInv ==
    /\ TypeOK
    /\ sem3 = "user" <=> upc # "idle"
    /\ sem3 = "S" <=> spc # "idle"
    /\ upc # "idle" => sent < MsgLimit
    /\ spc \in {"header", "load", "store", "send"} => sj \in Slot
    /\ rpc \notin {"idle", "test"} => rj \in Slot
    /\ FilledInv

\* The buffer as initialised.
LEMMA TypesAtFirst == Init => TypeInv
<1> SUFFICES ASSUME Init PROVE TypeInv
  OBVIOUS
<1> USE DEF Init
<1>1. /\ Buf \in Nat /\ Buf > 0 /\ 0 \in Slot /\ 0 \in 0..Buf /\ 1 \in Frame
      /\ MsgLimit \in Nat /\ 0 \in 0..MsgLimit
  BY FrameAssumption, RaceAssumption DEF Slot, Frame
<1>2. TypeOK
  BY <1>1 DEF TypeOK
<1>3. FilledInv
  BY DEF FilledInv
<1> QED BY <1>1, <1>2, <1>3 DEF TypeInv

\* m_sendto keeps the types.
LEMMA TypesUser ==
  ASSUME TypeInv,
         UserEnter \/ UserRefused \/ UserClaim \/ UserFill \/ UserLoadSize \/ UserStoreSize
  PROVE  TypeInv'
<1> USE DEF TypeInv, slots, user, sender, receiver, wire
<1>1. CASE UserEnter
  <2>1. TypeOK'
    BY <1>1 DEF TypeOK, UserEnter
  <2>2. FilledInv'
    BY <1>1 DEF TypeOK, FilledInv, UserEnter
  <2> QED BY <1>1, <2>1, <2>2 DEF UserEnter
<1>2. CASE UserRefused
  <2>1. TypeOK'
    BY <1>2 DEF TypeOK, UserRefused
  <2>2. FilledInv'
    BY <1>2 DEF TypeOK, FilledInv, UserRefused
  <2> QED BY <1>2, <2>1, <2>2 DEF UserRefused
<1>3. CASE UserClaim
  <2>1. TypeOK'
    BY <1>3 DEF TypeOK, UserClaim
  <2>2. FilledInv'
    BY <1>3 DEF TypeOK, FilledInv, UserClaim
  <2> QED BY <1>3, <2>1, <2>2 DEF UserClaim
<1>4. CASE UserFill
  <2>1. TypeOK'
    BY <1>4, RaceAssumption DEF TypeOK, UserFill
  <2>2. FilledInv'
    BY <1>4 DEF TypeOK, FilledInv, UserFill
  <2> QED BY <1>4, <2>1, <2>2 DEF UserFill
<1>5. CASE UserLoadSize
  <2>1. TypeOK'
    BY <1>5 DEF TypeOK, UserLoadSize
  <2>2. FilledInv'
    BY <1>5 DEF TypeOK, FilledInv, UserLoadSize
  <2> QED BY <1>5, <2>1, <2>2 DEF UserLoadSize
<1>6. CASE UserStoreSize
  <2>1. TypeOK'
    BY <1>6, RaceAssumption, SlotArith DEF TypeOK, UserStoreSize
  <2>2. FilledInv'
    BY <1>6 DEF TypeOK, FilledInv, UserStoreSize
  <2> QED BY <1>6, <2>1, <2>2 DEF UserStoreSize
<1> QED BY <1>1, <1>2, <1>3, <1>4, <1>5, <1>6

\* The S thread keeps the types.
LEMMA TypesSender ==
  ASSUME TypeInv,
         \/ SEnter \/ SResendTest \/ SResendSend \/ SResendDone
         \/ SFrame \/ SLoadWindow \/ SStoreWindow \/ SSendNew \/ SLeave
  PROVE  TypeInv'
<1> USE DEF TypeInv, slots, user, sender, receiver, wire
<1>1. CASE SEnter
  <2>1. TypeOK'
    BY <1>1, FrameAssumption DEF TypeOK, SEnter, Slot
  <2>2. FilledInv'
    BY <1>1 DEF TypeOK, FilledInv, SEnter
  <2> QED BY <1>1, <2>1, <2>2 DEF SEnter
<1>2. CASE SResendTest
  <2>1. TypeOK'
    BY <1>2, FrameAssumption DEF TypeOK, SResendTest, Slot
  <2>2. FilledInv'
    BY <1>2 DEF TypeOK, FilledInv, SResendTest
  <2> QED BY <1>2, <2>1, <2>2, FrameAssumption DEF SResendTest, TypeOK, Slot
<1>3. CASE SResendSend
  <2>1. TypeOK'
    BY <1>3, FrameAssumption DEF TypeOK, SResendSend, Slot, Transmit, Datagram
  <2>2. FilledInv'
    BY <1>3 DEF TypeOK, FilledInv, SResendSend, Transmit, Datagram
  <2> QED BY <1>3, <2>1, <2>2 DEF SResendSend, Transmit, Datagram
<1>4. CASE SResendDone
  <2>1. TypeOK'
    BY <1>4 DEF TypeOK, SResendDone
  <2>2. FilledInv'
    BY <1>4 DEF TypeOK, FilledInv, SResendDone
  <2> QED BY <1>4, <2>1, <2>2 DEF SResendDone
<1>5. CASE SFrame
  <2>1. /\ nextframed' \in Slot /\ currframe' \in Frame /\ nextframed \in Slot
        /\ sj' = nextframed
    BY <1>5, SlotArith, NextFrameType DEF TypeOK, SFrame
  <2>2. sj' \in Slot /\ sj' \in 0..Buf
    BY <2>1, FrameAssumption DEF Slot
  <2>3. TypeOK'
    BY <1>5, <2>1, <2>2 DEF TypeOK, SFrame, CanFrame, Recent
  <2>4. FilledInv'
    BY <1>5 DEF TypeOK, FilledInv, SFrame, CanFrame, Recent
  <2> QED BY <1>5, <2>2, <2>3, <2>4 DEF SFrame
<1>6. CASE SLoadWindow
  <2>1. TypeOK'
    BY <1>6 DEF TypeOK, SLoadWindow
  <2>2. FilledInv'
    BY <1>6 DEF TypeOK, FilledInv, SLoadWindow
  <2> QED BY <1>6, <2>1, <2>2 DEF SLoadWindow
<1>7. CASE SStoreWindow
  <2>1. TypeOK'
    BY <1>7 DEF TypeOK, SStoreWindow
  <2>2. FilledInv'
    BY <1>7 DEF TypeOK, FilledInv, SStoreWindow
  <2> QED BY <1>7, <2>1, <2>2 DEF SStoreWindow
<1>8. CASE SSendNew
  <2>1. TypeOK'
    BY <1>8 DEF TypeOK, SSendNew, Transmit, Datagram
  <2>2. FilledInv'
    BY <1>8 DEF TypeOK, FilledInv, SSendNew, Transmit, Datagram
  <2> QED BY <1>8, <2>1, <2>2 DEF SSendNew, Transmit, Datagram
<1>9. CASE SLeave
  <2>1. TypeOK'
    BY <1>9, FrameAssumption DEF TypeOK, SLeave, Slot
  <2>2. FilledInv'
    BY <1>9 DEF TypeOK, FilledInv, SLeave
  <2> QED BY <1>9, <2>1, <2>2 DEF SLeave
<1> QED BY <1>1, <1>2, <1>3, <1>4, <1>5, <1>6, <1>7, <1>8, <1>9

\* The R thread keeps the types.
LEMMA TypesReceiver ==
  ASSUME TypeInv,
         \/ \E d \in acks : RTake(d)
         \/ RTest \/ RFree \/ RClearFrame \/ RSetAck \/ RLoad \/ RStoreWindow
         \/ RStoreSize \/ RDone
  PROVE  TypeInv'
<1> USE DEF TypeInv, slots, user, sender, receiver, wire
<1>1. ASSUME NEW d \in acks, RTake(d)
      PROVE  TypeInv'
  <2>1. TypeOK'
    BY <1>1, FrameAssumption DEF TypeOK, RTake, Slot, Datagram
  <2>2. FilledInv'
    BY <1>1 DEF TypeOK, FilledInv, RTake
  <2> QED BY <1>1, <2>1, <2>2 DEF RTake
<1>2. CASE RTest
  <2>1. TypeOK'
    BY <1>2, FrameAssumption DEF TypeOK, RTest, Slot
  <2>2. FilledInv'
    BY <1>2 DEF TypeOK, FilledInv, RTest
  <2> QED BY <1>2, <2>1, <2>2, FrameAssumption DEF RTest, TypeOK, Slot
<1>3. CASE RFree
  <2>1. TypeOK'
    BY <1>3 DEF TypeOK, RFree
  <2>2. FilledInv'
    BY <1>3 DEF TypeOK, FilledInv, RFree
  <2> QED BY <1>3, <2>1, <2>2 DEF RFree
<1>4. CASE RClearFrame
  <2>1. TypeOK'
    BY <1>4 DEF TypeOK, RClearFrame
  <2>2. FilledInv'
    BY <1>4 DEF TypeOK, FilledInv, RClearFrame
  <2> QED BY <1>4, <2>1, <2>2 DEF RClearFrame
<1>5. CASE RSetAck
  <2>1. TypeOK'
    BY <1>5 DEF TypeOK, RSetAck
  <2>2. FilledInv'
    BY <1>5 DEF TypeOK, FilledInv, RSetAck
  <2> QED BY <1>5, <2>1, <2>2 DEF RSetAck
<1>6. CASE RLoad
  <2>1. TypeOK'
    BY <1>6 DEF TypeOK, RLoad
  <2>2. FilledInv'
    BY <1>6 DEF TypeOK, FilledInv, RLoad
  <2> QED BY <1>6, <2>1, <2>2 DEF RLoad
<1>7. CASE RStoreWindow
  <2>1. TypeOK'
    BY <1>7 DEF TypeOK, RStoreWindow
  <2>2. FilledInv'
    BY <1>7 DEF TypeOK, FilledInv, RStoreWindow
  <2> QED BY <1>7, <2>1, <2>2 DEF RStoreWindow
<1>8. CASE RStoreSize
  <2>1. TypeOK'
    BY <1>8, FrameAssumption DEF TypeOK, RStoreSize, Slot
  <2>2. FilledInv'
    BY <1>8 DEF TypeOK, FilledInv, RStoreSize
  <2> QED BY <1>8, <2>1, <2>2 DEF RStoreSize
<1>9. CASE RDone
  <2>1. TypeOK'
    BY <1>9, FrameAssumption DEF TypeOK, RDone, Slot
  <2>2. FilledInv'
    BY <1>9 DEF TypeOK, FilledInv, RDone
  <2> QED BY <1>9, <2>1, <2>2 DEF RDone
<1> QED BY <1>1, <1>2, <1>3, <1>4, <1>5, <1>6, <1>7, <1>8, <1>9

\* So does the peer: what it stores has a frame number, so it is a message.
LEMMA TypesPeer ==
  ASSUME TypeInv, NEW d \in frames, PeerReceives(d)
  PROVE  TypeInv'
<1> USE DEF TypeInv, slots, user, sender, receiver, wire
<1> DEFINE T == Len(taken)
<1>1. taken \in Seq(1..MsgLimit) /\ d \in Datagram /\ frames \subseteq Datagram
      /\ acks \subseteq Datagram
  BY DEF TypeOK
<1>2. FrameOf(T + 1) \in Frame
  BY <1>1, FrameOfType
<1>3. d.frame = FrameOf(T + 1) => d.msg \in 1..MsgLimit
  BY <1>1, <1>2 DEF FilledInv, Datagram, Frame
<1>4. taken' \in Seq(1..MsgLimit) /\ acks' \subseteq Datagram
  <2>1. acks' \subseteq Datagram
    BY <1>1 DEF PeerReceives
  <2>2. CASE d.frame = FrameOf(T + 1)
    <3>1. taken' = Append(taken, d.msg)
      BY <2>2 DEF PeerReceives
    <3>2. d.msg \in 1..MsgLimit
      BY <2>2, <1>3
    <3> QED BY <3>1, <3>2, <2>1, <1>1
  <2>3. CASE d.frame # FrameOf(T + 1)
    BY <2>1, <2>3, <1>1 DEF PeerReceives
  <2> QED BY <2>2, <2>3
<1>5. TypeOK'
  BY <1>4 DEF PeerReceives, TypeOK
<1>6. FilledInv'
  BY DEF PeerReceives, FilledInv
<1> QED BY <1>5, <1>6 DEF PeerReceives

\* Every step keeps the types.
LEMMA TypesStep == TypeInv /\ [Next]_vars => TypeInv'
<1> SUFFICES ASSUME TypeInv, [Next]_vars PROVE TypeInv'
  OBVIOUS
<1>1. CASE UNCHANGED vars
  BY <1>1 DEF TypeInv, TypeOK, FilledInv, vars, slots, user, sender, receiver, wire
<1>2. CASE Next
  BY <1>2, TypesUser, TypesSender, TypesReceiver, TypesPeer DEF Next
<1> QED BY <1>1, <1>2

\* TypeInv is an invariant.
LEMMA TypesHold == Spec => []TypeInv
BY TypesAtFirst, TypesStep, PTL DEF Spec

\* Indices, frame numbers and messages stay in their ranges, also when R races
\* with the holders of the lock: what the peer stores is a message m_sendto
\* took, whatever R does to the slots meanwhile.
THEOREM SendTypesCorrect == Spec => []TypeOK
<1>1. TypeInv => TypeOK
  BY DEF TypeInv
<1> QED BY <1>1, TypesHold, PTL

(***************************************************************************)
(* The invariant of the executions without the two races, a messages       *)
(* having been acknowledged and f framed: where each message is, at every  *)
(* access of the three threads.                                            *)
(***************************************************************************)

\* The user has claimed the slot at next and not counted it yet.
Adding == upc \in {"fill", "load", "store"}

\* R has freed a slot, and has not given the size back yet.
Freeing == Closing \/ rpc \in {"load", "store"}

\* S has framed a message and not sent it for the first time yet.
Unsent == spc \in {"load", "store", "send"}

\* 1 while a thread is between two updates that belong together.
Pending(P) == IF P THEN 1 ELSE 0

\* The buffer holds messages a+1 .. sent, the framed ones first, and the
\* message the user is adding; the slot that R frees counts as taken until size
\* has been given back, and has its number for a while.
BufferInv(a, f) ==
    /\ a <= f /\ f <= a + 1 /\ f <= sent
    /\ sent + Pending(Adding) + Pending(Freeing) <= a + Buf
    /\ \A n \in (a + 1)..sent :
          /\ isbusy[SlotOf(n)] = 1 /\ ack[SlotOf(n)] = 0 /\ msg[SlotOf(n)] = n
          /\ frame[SlotOf(n)] = IF n <= f THEN FrameOf(n) ELSE 0
    /\ \A j \in Busy : \/ \E n \in (a + 1)..sent : j = SlotOf(n)
                       \/ Adding /\ j = next
    /\ \A j \in Slot : frame[j] # 0 => \/ f = a + 1 /\ j = SlotOf(f)
                                       \/ rpc = "frame" /\ j = rj
    /\ Cardinality(Busy) = sent - a + Pending(Adding)

\* Where the user is with the message it is adding.
UserInv ==
    /\ Adding => isbusy[next] = 1
    /\ upc \in {"load", "store"} =>
          ack[next] = 0 /\ frame[next] = 0 /\ msg[next] = sent + 1

CursorInv(f) ==
    /\ next = SlotOf(sent + 1)
    /\ nextframed = SlotOf(f + 1) /\ currframe = FrameOf(f + 1)

\* size and wndsize, and the copies that their updates work on.
CounterInv(a, f) ==
    /\ size = sent - a + Pending(Freeing)
    /\ wndsize = 1 - (f - a) + Pending(Opening) - Pending(Closing)
    /\ upc = "store" => utmp = size
    /\ spc = "store" => swnd = wndsize
    /\ rpc = "wstore" => rtmp = wndsize
    /\ rpc = "store" => rtmp = size

\* Until S has sent the message it has framed, nobody else has seen it: the
\* window is S's alone.
SenderInv(a, f) ==
    Unsent => /\ f = a + 1 /\ sj = SlotOf(f)
              /\ Len(taken) < f
              /\ \A d \in frames : d.msg < f

\* R works on the acknowledgement of a message the peer has, and frees the
\* slot of the oldest; while it has the window's unit, S frames nothing.
ReceiverInv(a, f) ==
    /\ rpc # "idle" => \E m \in 1..Len(taken) : rframe = FrameOf(m) /\ a < m + Lifetime
    /\ rpc = "free" => f = a + 1 /\ f <= Len(taken) /\ rj = SlotOf(f) /\ rframe = FrameOf(f)
    /\ rpc \in {"frame", "ack"} => a >= 1 /\ rj = SlotOf(a)
    /\ rpc = "frame" => frame[rj] = FrameOf(a) /\ msg[rj] = a
    /\ Closing => f = a

\* Datagrams are recent, and those that acknowledge tell the truth.
WireInv(a, f) ==
    /\ a <= Len(taken) /\ Len(taken) <= f
    /\ \A k \in DOMAIN taken : taken[k] = k
    /\ \A d \in frames \cup acks :
          d.msg \in 1..f /\ d.frame = FrameOf(d.msg) /\ f < d.msg + Lifetime
    /\ \A d \in acks : d.msg <= Len(taken)

TurnInv(a, f) ==
    /\ BufferInv(a, f) /\ CursorInv(f) /\ CounterInv(a, f)
    /\ SenderInv(a, f) /\ ReceiverInv(a, f) /\ WireInv(a, f)

SendInv == TypeInv /\ UserInv /\ \E a, f \in 0..sent : TurnInv(a, f)

-----------------------------------------------------------------------------
\* The types of what the invariant is about.
LEMMA SendTypes ==
  ASSUME TypeInv
  PROVE  /\ Buf \in Nat /\ Buf > 0 /\ MaxSeq \in Nat /\ MaxSeq > Buf + 1 /\ Lifetime \in Nat
         /\ sent \in Nat /\ Len(taken) \in Nat /\ next \in Slot /\ nextframed \in Slot
         /\ isbusy \in [Slot -> {0, 1}] /\ ack \in [Slot -> {0, 1}]
         /\ frame \in [Slot -> Frame \cup {0}] /\ msg \in [Slot -> 0..MsgLimit]
         /\ size \in Int /\ wndsize \in Int /\ stemp \in Int
         /\ Busy \in SUBSET Slot /\ IsFiniteSet(Busy) /\ Cardinality(Busy) \in Nat
<1>1. Busy \in SUBSET Slot
  BY DEF Busy
<1>2. IsFiniteSet(Busy) /\ Cardinality(Busy) \in Nat
  BY <1>1, SlotsFinite
<1>3. sent \in Nat /\ Len(taken) \in Nat
  BY RaceAssumption DEF TypeInv, TypeOK
<1> QED BY <1>1, <1>2, <1>3, FrameAssumption DEF TypeInv, TypeOK, Lifetime

\* The numbers among them.
LEMMA SendNumbers ==
  ASSUME TypeInv
  PROVE  /\ Buf \in Nat /\ Buf > 0 /\ MaxSeq \in Nat /\ MaxSeq > Buf + 1
         /\ sent \in Nat /\ Len(taken) \in Nat /\ size \in Int /\ wndsize \in Int
BY SendTypes

\* The user and the S thread exclude each other.
LEMMA OneHolder ==
  ASSUME TypeInv
  PROVE  /\ upc # "idle" => spc = "idle"
         /\ spc # "idle" => upc = "idle"
BY DEF TypeInv

\* The buffer as initialised holds nothing.
LEMMA SendAtFirst == Init => SendInv
<1> SUFFICES ASSUME Init PROVE SendInv
  OBVIOUS
<1>1. TypeInv
  BY TypesAtFirst
<1> USE DEF Init
<1>2. UserInv
  BY DEF UserInv, Adding
<1>3. Busy = {} /\ Cardinality(Busy) = 0
  <2>1. Busy = {}
    BY DEF Busy
  <2> QED BY <2>1, FS_EmptySet
<1>4. BufferInv(0, 0)
  BY <1>3, FrameAssumption DEF BufferInv, Adding, Freeing, Closing, Pending
<1>5. CursorInv(0)
  <2>1. SlotOf(1) = 0
    BY FrameAssumption, ModSmall DEF SlotOf
  <2> QED BY <2>1, FrameOfFirst DEF CursorInv
<1>6. CounterInv(0, 0) /\ SenderInv(0, 0) /\ ReceiverInv(0, 0)
  BY DEF CounterInv, SenderInv, ReceiverInv, Pending, Freeing, Closing, Opening, Unsent
<1>7. WireInv(0, 0)
  BY DEF WireInv
<1>8. 0 \in 0..sent
  OBVIOUS
<1> QED BY <1>1, <1>2, <1>4, <1>5, <1>6, <1>7, <1>8 DEF SendInv, TurnInv

\* The buffer is where it was if its slots and the places of the user and of R
\* are.
LEMMA BufferKept ==
  ASSUME NEW a \in Nat, NEW f \in Nat, BufferInv(a, f),
         UNCHANGED <<isbusy, frame, ack, msg, sent, next>>, Adding' = Adding,
         Freeing' = Freeing, rpc = "frame" => rpc' = "frame" /\ rj' = rj
  PROVE  BufferInv(a, f)'
<1>1. Busy' = Busy
  BY DEF Busy
<1> QED BY <1>1 DEF BufferInv

\* So are S and R.
LEMMA ThreadsKept ==
  ASSUME NEW a \in Nat, NEW f \in Nat, SenderInv(a, f), ReceiverInv(a, f),
         UNCHANGED <<frame, msg, sender, receiver, wire>>
  PROVE  SenderInv(a, f)' /\ ReceiverInv(a, f)'
BY DEF SenderInv, ReceiverInv, Unsent, Closing, sender, receiver, wire

\* Nothing has gone over the wire.
LEMMA WireKept ==
  ASSUME NEW a \in Nat, NEW f \in Nat, WireInv(a, f), UNCHANGED wire
  PROVE  WireInv(a, f)'
BY DEF WireInv, wire

\* The slot that R is freeing is not the one the user fills.
LEMMA FreedElsewhere ==
  ASSUME TypeInv, NEW a \in Nat, NEW f \in Nat, TurnInv(a, f), rpc \in {"frame", "ack"}
  PROVE  /\ Freeing /\ Closing /\ a >= 1 /\ rj = SlotOf(a) /\ f = a
         /\ Adding => rj # next
         /\ \A n \in (a + 1)..sent : SlotOf(n) # rj
<1>1. Freeing /\ Closing
  BY DEF Freeing, Closing
<1>2. a >= 1 /\ rj = SlotOf(a) /\ f = a /\ next = SlotOf(sent + 1) /\ a <= f /\ f <= sent
      /\ sent + Pending(Adding) + 1 <= a + Buf
  BY <1>1 DEF TurnInv, ReceiverInv, CursorInv, BufferInv, Pending
<1>3. ASSUME NEW n \in Nat, a < n, n < a + Buf
      PROVE  SlotOf(n) # SlotOf(a)
  <2>1. n >= 1 /\ n - a < Buf /\ a - n < Buf /\ n # a
    BY <1>2, <1>3, SendNumbers
  <2> QED BY <1>2, <2>1, SlotOfInjective
<1>4. ASSUME Adding PROVE rj # next
  <2>1. sent + 1 + 1 <= a + Buf
    BY <1>2, <1>4 DEF Pending
  <2>2. sent + 1 \in Nat /\ a < sent + 1 /\ sent + 1 < a + Buf
    BY <1>2, <2>1, SendNumbers
  <2> QED BY <1>2, <1>3, <2>2
<1>5. ASSUME NEW n \in (a + 1)..sent PROVE SlotOf(n) # rj
  <2>1. n \in Nat /\ a < n /\ n <= sent /\ sent < a + Buf
    <3>1. Pending(Adding) \in {0, 1}
      BY DEF Pending
    <3> QED BY <1>2, <3>1, SendNumbers
  <2>2. n < a + Buf
    BY <2>1, SendNumbers
  <2> QED BY <1>2, <1>3, <2>1, <2>2
<1> QED BY <1>1, <1>2, <1>4, <1>5

\* The steps of m_sendto that change nothing but the user's place.
LEMMA SendEnterLoad ==
  ASSUME TypeInv, UserInv, NEW a \in Nat, NEW f \in Nat, TurnInv(a, f),
         UserEnter \/ UserRefused \/ UserLoadSize
  PROVE  UserInv' /\ TurnInv(a, f)'
<1> USE DEF slots, user
<1>1. /\ UNCHANGED <<slots, size, next, nextframed, wndsize, currframe, sent, sender,
                     receiver, wire>>
      /\ Adding' = Adding
      /\ upc' = "store" => utmp' = size
  BY DEF UserEnter, UserRefused, UserLoadSize, Adding
<1>2. UserInv'
  BY <1>1 DEF UserEnter, UserRefused, UserLoadSize, UserInv, Adding
<1>3. Freeing' = Freeing /\ Opening' = Opening /\ Closing' = Closing
  BY <1>1 DEF Freeing, Opening, Closing, receiver, sender
<1>4. BufferInv(a, f)' /\ WireInv(a, f)' /\ SenderInv(a, f)' /\ ReceiverInv(a, f)'
  BY <1>1, <1>3, BufferKept, WireKept, ThreadsKept DEF TurnInv, receiver
<1>5. CursorInv(f)' /\ CounterInv(a, f)'
  BY <1>1, <1>3 DEF TurnInv, CursorInv, CounterInv, receiver, sender
<1> QED BY <1>2, <1>4, <1>5 DEF TurnInv

\* In a buffer that is not full by size, the slot at next is idle.
LEMMA NextIdle ==
  ASSUME TypeInv, NEW a \in Nat, NEW f \in Nat, TurnInv(a, f), upc = "check", size # Buf
  PROVE  isbusy[next] = 0 /\ sent + 1 + Pending(Freeing) <= a + Buf
<1>1. ~ Adding /\ Pending(Freeing) \in {0, 1}
  BY DEF Adding, Pending
<1>2. size = sent - a + Pending(Freeing) /\ sent + 0 + Pending(Freeing) <= a + Buf
      /\ next = SlotOf(sent + 1) /\ a <= f /\ f <= sent
  BY <1>1 DEF TurnInv, BufferInv, CounterInv, CursorInv, Pending
<1>3. sent + 1 + Pending(Freeing) <= a + Buf
  BY <1>1, <1>2, SendNumbers
<1>4. ASSUME isbusy[next] # 0 PROVE FALSE
  <2>1. next \in Busy
    BY <1>4, SendTypes DEF Busy
  <2>2. PICK n \in (a + 1)..sent : next = SlotOf(n)
    BY <1>1, <2>1 DEF TurnInv, BufferInv
  <2>3. n \in Nat /\ n >= 1 /\ sent + 1 \in Nat /\ sent + 1 >= 1 /\ n # sent + 1
        /\ (sent + 1) - n < Buf /\ n - (sent + 1) < Buf
    BY <1>1, <1>3, SendNumbers
  <2> QED BY <1>2, <2>2, <2>3, SlotOfInjective
<1> QED BY <1>3, <1>4

\* The slot at next is idle when m_sendto finds it so: the message has a slot
\* that no other message has, and that R is not freeing.
LEMMA SendClaim ==
  ASSUME TypeInv, UserInv, NEW a \in Nat, NEW f \in Nat, TurnInv(a, f),
         UserClaim
  PROVE  UserInv' /\ TurnInv(a, f)'
<1> USE DEF slots, user
<1>1. /\ isbusy' = [isbusy EXCEPT ![next] = 1] /\ isbusy[next] = 0
      /\ UNCHANGED <<frame, ack, msg, size, next, nextframed, wndsize, currframe, sent,
                     sender, receiver, wire>>
      /\ upc = "check" /\ upc' = "fill" /\ size # Buf
  BY DEF UserClaim
<1>2. ~ Adding /\ Adding' /\ Freeing' = Freeing /\ Opening' = Opening /\ Closing' = Closing
      /\ rpc' = rpc /\ rj' = rj
  BY <1>1 DEF Adding, Freeing, Opening, Closing, receiver, sender
<1>3. Busy' = Busy \cup {next} /\ next \notin Busy
  BY <1>1, SendTypes DEF Busy
<1>4. Cardinality(Busy') = Cardinality(Busy) + 1
  BY <1>3, SendTypes, FS_AddElement
<1>5. BufferInv(a, f)'
  <2>1. ASSUME NEW n \in (a + 1)..sent
        PROVE  isbusy'[SlotOf(n)] = 1
    <3>1. isbusy[SlotOf(n)] = 1
      BY DEF TurnInv, BufferInv
    <3> QED BY <1>1, <3>1, SendTypes
  <2>2. a <= f /\ f <= a + 1 /\ f <= sent /\ sent + Pending(TRUE) + Pending(Freeing) <= a + Buf
    BY <1>1, NextIdle DEF TurnInv, BufferInv, Pending
  <2>3. Cardinality(Busy') = sent - a + Pending(TRUE)
    <3>1. Cardinality(Busy) = sent - a + 0
      BY <1>2 DEF TurnInv, BufferInv, Pending
    <3> QED BY <1>4, <3>1, SendNumbers DEF Pending
  <2>4. \A j \in Busy' : (\E n \in (a + 1)..sent : j = SlotOf(n)) \/ j = next
    BY <1>2, <1>3 DEF TurnInv, BufferInv
  <2>5. \A n \in (a + 1)..sent :
            /\ ack'[SlotOf(n)] = 0 /\ msg'[SlotOf(n)] = n
            /\ frame'[SlotOf(n)] = IF n <= f THEN FrameOf(n) ELSE 0
    BY <1>1 DEF TurnInv, BufferInv
  <2>6. \A j \in Slot : frame'[j] # 0 => \/ f = a + 1 /\ j = SlotOf(f)
                                         \/ rpc' = "frame" /\ j = rj'
    BY <1>1, <1>2 DEF TurnInv, BufferInv
  <2>7. sent' = sent /\ next' = next
    BY <1>1
  <2> QED BY <1>2, <2>1, <2>2, <2>3, <2>4, <2>5, <2>6, <2>7 DEF BufferInv
<1>6. UserInv'
  BY <1>1, SendTypes DEF UserInv
<1>7. CursorInv(f)' /\ CounterInv(a, f)'
  BY <1>1, <1>2 DEF TurnInv, CursorInv, CounterInv, receiver, sender
<1>8. SenderInv(a, f)' /\ ReceiverInv(a, f)' /\ WireInv(a, f)'
  BY <1>1, ThreadsKept, WireKept DEF TurnInv
<1> QED BY <1>5, <1>6, <1>7, <1>8 DEF TurnInv

\* Filling the claimed slot touches no message of the buffer, nor the slot that
\* R is freeing.
LEMMA SendFill ==
  ASSUME TypeInv, UserInv, NEW a \in Nat, NEW f \in Nat, TurnInv(a, f),
         UserFill
  PROVE  UserInv' /\ TurnInv(a, f)'
<1> USE DEF slots, user
<1>1. /\ ack' = [ack EXCEPT ![next] = 0] /\ frame' = [frame EXCEPT ![next] = 0]
      /\ msg' = [msg EXCEPT ![next] = sent + 1]
      /\ UNCHANGED <<isbusy, size, next, nextframed, wndsize, currframe, sent,
                     sender, receiver, wire>>
      /\ upc = "fill" /\ upc' = "load"
  BY DEF UserFill
<1>2. Adding /\ Adding' /\ Busy' = Busy /\ Freeing' = Freeing /\ Opening' = Opening
      /\ Closing' = Closing /\ rpc' = rpc /\ rj' = rj
  BY <1>1 DEF Adding, Busy, Freeing, Opening, Closing, receiver, sender
<1>3. BufferInv(a, f)'
  <2>1. ASSUME NEW n \in (a + 1)..sent
        PROVE  SlotOf(n) \in Slot /\ SlotOf(n) # next
    <3>1. next = SlotOf(sent + 1) /\ sent + 1 + Pending(Freeing) <= a + Buf
      BY <1>2 DEF TurnInv, CursorInv, BufferInv, Pending
    <3>2. Pending(Freeing) \in {0, 1}
      BY DEF Pending
    <3>3. n \in Nat /\ n >= 1 /\ (sent + 1) - n < Buf /\ n - (sent + 1) < Buf /\ n # sent + 1
      BY <3>1, <3>2, SendNumbers
    <3> QED BY <3>1, <3>3, SendNumbers, SlotOfType, SlotOfInjective
  <2>2. ASSUME NEW n \in (a + 1)..sent
        PROVE  ack'[SlotOf(n)] = ack[SlotOf(n)] /\ frame'[SlotOf(n)] = frame[SlotOf(n)]
               /\ msg'[SlotOf(n)] = msg[SlotOf(n)]
    BY <1>1, <2>1, SendTypes
  <2>3. \A j \in Slot : frame'[j] # 0 => frame[j] # 0
    BY <1>1, SendTypes
  <2> QED BY <1>1, <1>2, <2>2, <2>3 DEF TurnInv, BufferInv
<1>4. UserInv'
  BY <1>1, SendTypes DEF UserInv, Adding
<1>5. CursorInv(f)' /\ CounterInv(a, f)'
  BY <1>1, <1>2 DEF TurnInv, CursorInv, CounterInv, receiver, sender
<1>6. SenderInv(a, f)'
  BY <1>1 DEF TurnInv, SenderInv, Unsent, sender, wire
<1>7. ReceiverInv(a, f)'
  <2>1. ASSUME rpc = "frame"
        PROVE  frame'[rj] = FrameOf(a) /\ msg'[rj] = a
    <3>1. rj # next /\ rj \in Slot
      BY <1>2, <2>1, FreedElsewhere DEF TypeInv
    <3> QED BY <1>1, <2>1, <3>1, SendTypes DEF TurnInv, ReceiverInv
  <2> QED BY <1>1, <1>2, <2>1 DEF TurnInv, ReceiverInv, receiver, wire
<1> QED BY <1>1, <1>3, <1>4, <1>5, <1>6, <1>7, WireKept DEF TurnInv

\* The message counts: it is the buffer's last.  R is not about to store a size
\* it loaded before.
LEMMA SendCount ==
  ASSUME TypeInv, UserInv, ~ SizeRace, NEW a \in Nat, NEW f \in Nat, TurnInv(a, f),
         UserStoreSize
  PROVE  UserInv' /\ TurnInv(a, f)' /\ sent' = sent + 1 /\ sent < a + Buf
<1> USE DEF slots, user
<1>1. /\ size' = utmp + 1 /\ next' = (next + 1) % Buf /\ sent' = sent + 1
      /\ UNCHANGED <<slots, nextframed, wndsize, currframe, sender, receiver, wire>>
      /\ upc = "store" /\ upc' = "idle" /\ rpc # "store"
  BY DEF UserStoreSize, SizeRace
<1>2. Adding /\ ~ Adding' /\ Busy' = Busy /\ Freeing' = Freeing /\ Opening' = Opening
      /\ Closing' = Closing /\ rpc' = rpc /\ rj' = rj
  BY <1>1 DEF Adding, Busy, Freeing, Opening, Closing, receiver, sender
<1>3. Pending(Freeing) \in {0, 1}
  BY DEF Pending
<1>4. next = SlotOf(sent + 1) /\ sent + 1 + Pending(Freeing) <= a + Buf /\ a <= f /\ f <= sent
      /\ f <= a + 1
  BY <1>2 DEF TurnInv, CursorInv, BufferInv, Pending
<1>5. sent < a + Buf
  BY <1>3, <1>4, SendNumbers
<1>6. BufferInv(a, f)'
  <2>1. ASSUME NEW n \in (a + 1)..(sent + 1)
        PROVE  /\ isbusy[SlotOf(n)] = 1 /\ ack[SlotOf(n)] = 0 /\ msg[SlotOf(n)] = n
               /\ frame[SlotOf(n)] = IF n <= f THEN FrameOf(n) ELSE 0
    <3>1. CASE n = sent + 1
      <4>1. ~ (n <= f)
        BY <3>1, <1>4, SendNumbers
      <4> QED BY <3>1, <4>1, <1>1, <1>2, <1>4 DEF UserInv
    <3>2. CASE n # sent + 1
      <4>1. n \in (a + 1)..sent
        BY <3>2, SendNumbers
      <4> QED BY <4>1 DEF TurnInv, BufferInv
    <3> QED BY <3>1, <3>2
  <2>2. \A j \in Busy : \E n \in (a + 1)..(sent + 1) : j = SlotOf(n)
    <3> SUFFICES ASSUME NEW j \in Busy
                 PROVE  \E n \in (a + 1)..(sent + 1) : j = SlotOf(n)
      OBVIOUS
    <3>1. CASE j = next
      BY <3>1, <1>4, SendNumbers
    <3>2. CASE j # next
      <4>1. PICK n \in (a + 1)..sent : j = SlotOf(n)
        BY <3>2 DEF TurnInv, BufferInv
      <4> QED BY <4>1, SendNumbers
    <3> QED BY <3>1, <3>2
  <2>3. Cardinality(Busy) = (sent + 1) - a + 0
    <3>1. Cardinality(Busy) = sent - a + 1
      BY <1>2 DEF TurnInv, BufferInv, Pending
    <3> QED BY <3>1, SendNumbers
  <2>4. a <= f /\ f <= a + 1 /\ f <= sent + 1
        /\ (sent + 1) + 0 + Pending(Freeing) <= a + Buf
    BY <1>3, <1>4, SendNumbers
  <2>5. \A j \in Slot : frame'[j] # 0 => \/ f = a + 1 /\ j = SlotOf(f)
                                         \/ rpc' = "frame" /\ j = rj'
    BY <1>1, <1>2 DEF TurnInv, BufferInv
  <2>6. Pending(Adding') = 0
    BY <1>2 DEF Pending
  <2> QED BY <1>1, <1>2, <2>1, <2>2, <2>3, <2>4, <2>5, <2>6 DEF BufferInv
<1>7. UserInv'
  BY <1>1 DEF UserInv, Adding
<1>8. CursorInv(f)'
  <2>1. (next + 1) % Buf = SlotOf((sent + 1) + 1)
    BY <1>4, SendNumbers, SlotOfNext
  <2> QED BY <1>1, <2>1 DEF TurnInv, CursorInv
<1>9. CounterInv(a, f)'
  <2>1. utmp = sent - a + Pending(Freeing)
    BY <1>1 DEF TurnInv, CounterInv
  <2>2. utmp + 1 = (sent + 1) - a + Pending(Freeing)
    BY <1>3, <2>1, SendNumbers
  <2> QED BY <1>1, <1>2, <2>2 DEF TurnInv, CounterInv, receiver, sender
<1>10. SenderInv(a, f)' /\ ReceiverInv(a, f)' /\ WireInv(a, f)'
  BY <1>1, ThreadsKept, WireKept DEF TurnInv
<1> QED BY <1>1, <1>5, <1>6, <1>7, <1>8, <1>9, <1>10 DEF TurnInv

\* A slot with a frame number holds the last message that was framed: it waits
\* for its acknowledgement, or R is just freeing its slot.
LEMMA FramedMessage ==
  ASSUME TypeInv, NEW a \in Nat, NEW f \in Nat, TurnInv(a, f), NEW j \in Slot, frame[j] # 0
  PROVE  /\ f >= 1 /\ f <= sent /\ j = SlotOf(f) /\ frame[j] = FrameOf(f) /\ msg[j] = f
         /\ rpc # "frame" => f = a + 1
<1>1. a <= f /\ f <= sent
  BY DEF TurnInv, BufferInv
<1>2. CASE f = a + 1 /\ j = SlotOf(f)
  <2>1. f \in (a + 1)..sent /\ f >= 1
    BY <1>1, <1>2, SendNumbers
  <2>2. frame[j] = FrameOf(f) /\ msg[j] = f
    BY <1>2, <2>1 DEF TurnInv, BufferInv
  <2> QED BY <1>1, <1>2, <2>1, <2>2
<1>3. CASE rpc = "frame" /\ j = rj
  <2>1. f = a /\ a >= 1 /\ rj = SlotOf(a)
    BY <1>3, FreedElsewhere
  <2> QED BY <1>1, <1>3, <2>1 DEF TurnInv, ReceiverInv
<1> QED BY <1>2, <1>3 DEF TurnInv, BufferInv

\* The S thread's steps that change nothing but its own place.
LEMMA SendRound ==
  ASSUME TypeInv, UserInv, NEW a \in Nat, NEW f \in Nat, TurnInv(a, f),
         SEnter \/ SResendTest \/ SResendDone \/ SLoadWindow \/ SLeave
  PROVE  UserInv' /\ TurnInv(a, f)'
<1>1. /\ UNCHANGED <<slots, size, next, nextframed, wndsize, currframe, user, receiver,
                     wire>>
      /\ Opening' = Opening
      /\ Unsent' => Unsent /\ sj' = sj
      /\ spc' = "store" => swnd' = wndsize
  BY DEF SEnter, SResendTest, SResendDone, SLoadWindow, SLeave, Opening, Unsent
<1>2. Adding' = Adding /\ Freeing' = Freeing /\ Closing' = Closing /\ rpc' = rpc /\ rj' = rj
  BY <1>1 DEF Adding, Freeing, Closing, user, receiver
<1>3. UserInv'
  BY <1>1, <1>2 DEF UserInv, user, slots
<1>4. BufferInv(a, f)' /\ WireInv(a, f)'
  BY <1>1, <1>2, BufferKept, WireKept DEF TurnInv, user, slots
<1>5. CursorInv(f)' /\ CounterInv(a, f)'
  BY <1>1, <1>2 DEF TurnInv, CursorInv, CounterInv, user, receiver
<1>6. SenderInv(a, f)'
  BY <1>1 DEF TurnInv, SenderInv, wire
<1>7. ReceiverInv(a, f)'
  BY <1>1, <1>2 DEF TurnInv, ReceiverInv, wire, receiver, slots
<1> QED BY <1>3, <1>4, <1>5, <1>6, <1>7 DEF TurnInv

\* The window's unit is taken; R has none to give back.
LEMMA SendWindow ==
  ASSUME TypeInv, UserInv, NEW a \in Nat, NEW f \in Nat, TurnInv(a, f),
         SStoreWindow
  PROVE  UserInv' /\ TurnInv(a, f)'
<1>1. /\ UNCHANGED <<slots, size, next, nextframed, currframe, sj, user, receiver, wire>>
      /\ wndsize' = swnd - 1 /\ spc = "store" /\ spc' = "send"
  BY DEF SStoreWindow
<1>2. Opening /\ ~ Opening' /\ Unsent /\ Adding' = Adding /\ Freeing' = Freeing
      /\ Closing' = Closing /\ rpc' = rpc /\ rj' = rj
  BY <1>1 DEF Opening, Unsent, Adding, Freeing, Closing, user, receiver
<1>3. ~ Closing
  <2>1. f = a + 1
    BY <1>2 DEF TurnInv, SenderInv
  <2> QED BY <2>1 DEF TurnInv, ReceiverInv
<1>4. UserInv'
  BY <1>1, <1>2 DEF UserInv, user, slots
<1>5. BufferInv(a, f)' /\ WireInv(a, f)'
  BY <1>1, <1>2, BufferKept, WireKept DEF TurnInv, user, slots
<1>6. CounterInv(a, f)'
  <2>1. swnd = 1 - (f - a) + 1 - 0
    BY <1>1, <1>2, <1>3 DEF TurnInv, CounterInv, Pending
  <2>2. wndsize' = 1 - (f - a) + 0 - 0
    BY <1>1, <2>1
  <2>3. rpc' # "wstore" /\ spc' # "store"
    BY <1>1, <1>2, <1>3 DEF Closing
  <2>4. rpc' = "store" => rtmp' = size'
    BY <1>1, <1>2 DEF TurnInv, CounterInv, receiver
  <2>5. upc' = "store" => utmp' = size'
    BY <1>1 DEF TurnInv, CounterInv, user
  <2>6. size' = sent' - a + Pending(Freeing)'
    BY <1>1, <1>2 DEF TurnInv, CounterInv, user, Pending
  <2> QED BY <1>2, <1>3, <2>2, <2>3, <2>4, <2>5, <2>6 DEF CounterInv, Pending
<1>7. CursorInv(f)' /\ SenderInv(a, f)'
  BY <1>1, <1>2 DEF TurnInv, CursorInv, SenderInv, Unsent, user, wire
<1>8. ReceiverInv(a, f)'
  BY <1>1, <1>2 DEF TurnInv, ReceiverInv, wire, receiver, slots
<1> QED BY <1>4, <1>5, <1>6, <1>7, <1>8 DEF TurnInv

\* What S sends is the last message that was framed, its number being there.
LEMMA SendTransmit ==
  ASSUME TypeInv, UserInv, ~ HeaderRace, NEW a \in Nat, NEW f \in Nat, TurnInv(a, f),
         SResendSend \/ SSendNew
  PROVE  UserInv' /\ TurnInv(a, f)'
<1>1. /\ UNCHANGED <<slots, size, next, nextframed, wndsize, currframe, user, receiver,
                     acks, taken>>
      /\ frames' = frames \cup {[frame |-> frame[sj], msg |-> msg[sj]]}
      /\ spc \in {"header", "send"} /\ spc' \in {"resend", "new"}
  BY DEF SResendSend, SSendNew, Transmit
<1>2. ~ Opening /\ ~ Opening' /\ ~ Unsent' /\ Adding' = Adding /\ Freeing' = Freeing
      /\ Closing' = Closing /\ rpc' = rpc /\ rj' = rj
  BY <1>1 DEF Opening, Unsent, Adding, Freeing, Closing, user, receiver
<1>3. UserInv'
  BY <1>1, <1>2 DEF UserInv, user, slots
<1>4. BufferInv(a, f)'
  BY <1>1, <1>2, BufferKept DEF TurnInv, user, slots
<1>5. CursorInv(f)' /\ CounterInv(a, f)' /\ SenderInv(a, f)'
  <2>1. CursorInv(f)' /\ SenderInv(a, f)'
    BY <1>1, <1>2 DEF TurnInv, CursorInv, SenderInv, user
  <2>2. CounterInv(a, f)'
    <3>1. spc' # "store"
      BY <1>1
    <3>2. Pending(Opening)' = Pending(Opening) /\ Pending(Closing)' = Pending(Closing)
          /\ Pending(Freeing)' = Pending(Freeing)
      BY <1>2 DEF Pending
    <3> QED BY <1>1, <3>1, <3>2 DEF TurnInv, CounterInv, user, receiver
  <2> QED BY <2>1, <2>2
<1>6. ReceiverInv(a, f)'
  BY <1>1, <1>2 DEF TurnInv, ReceiverInv, receiver, slots
<1>7. frame[sj] = FrameOf(f) /\ msg[sj] = f /\ f >= 1
  <2>1. sj \in Slot
    BY <1>1 DEF TypeInv
  <2>2. CASE spc = "header"
    BY <2>1, <2>2, FramedMessage DEF HeaderRace
  <2>3. CASE spc = "send"
    <3>1. f = a + 1 /\ sj = SlotOf(f) /\ f <= sent
      BY <2>3 DEF TurnInv, SenderInv, BufferInv, Unsent
    <3>2. f \in (a + 1)..sent
      BY <3>1, SendNumbers
    <3> QED BY <3>1, <3>2, SendNumbers DEF TurnInv, BufferInv
  <2> QED BY <1>1, <2>2, <2>3
<1>8. WireInv(a, f)'
  <2>1. f \in 1..f /\ f < f + Lifetime
    BY <1>7, FrameAssumption DEF Lifetime
  <2>2. \A d \in frames' \cup acks :
            d.msg \in 1..f /\ d.frame = FrameOf(d.msg) /\ f < d.msg + Lifetime
    BY <1>1, <1>7, <2>1 DEF TurnInv, WireInv
  <2> QED BY <1>1, <2>2 DEF TurnInv, WireInv
<1> QED BY <1>3, <1>4, <1>5, <1>6, <1>8 DEF TurnInv

\* Framing takes the first message that has no number, when the window says
\* that all the others are acknowledged.
LEMMA SendFrame ==
  ASSUME TypeInv, UserInv, NEW a \in Nat, NEW f \in Nat, TurnInv(a, f),
         SFrame
  PROVE  UserInv' /\ f + 1 \in 0..sent /\ TurnInv(a, f + 1)'
<1> DEFINE j == nextframed
<1>1. /\ frame' = [frame EXCEPT ![j] = currframe] /\ currframe' = NextFrame(currframe)
      /\ nextframed' = (nextframed + 1) % Buf /\ sj' = nextframed
      /\ frames' = Recent(frames, msg[j]) /\ acks' = Recent(acks, msg[j])
      /\ UNCHANGED <<isbusy, ack, msg, size, next, wndsize, swnd, user, receiver, taken>>
      /\ wndsize > 0 /\ isbusy[j] = 1 /\ frame[j] = 0
      /\ upc = "idle" /\ spc = "new" /\ spc' = "load"
  BY OneHolder DEF SFrame, CanFrame
<1>2. /\ ~ Adding /\ ~ Adding' /\ ~ Opening /\ Opening' /\ Busy' = Busy
      /\ Closing' = Closing /\ Freeing' = Freeing /\ rpc' = rpc /\ rj' = rj
  BY <1>1 DEF Adding, Opening, Closing, Freeing, Busy, user, receiver
<1>3. f = a /\ wndsize = 1 /\ ~ Closing
  <2>1. wndsize = 1 - (f - a) + 0 - Pending(Closing)
    BY <1>2 DEF TurnInv, CounterInv, Pending
  <2>2. a <= f /\ f <= a + 1
    BY DEF TurnInv, BufferInv
  <2>3. CASE Closing
    BY <1>1, <2>1, <2>2, <2>3 DEF Pending
  <2>4. CASE ~ Closing
    BY <1>1, <2>1, <2>2, <2>4 DEF Pending
  <2> QED BY <2>3, <2>4
<1>4. j = SlotOf(f + 1) /\ currframe = FrameOf(f + 1) /\ j \in Slot
      /\ sent + 0 + Pending(Freeing) <= a + Buf
  BY <1>2, SendTypes DEF TurnInv, CursorInv, BufferInv, Pending
<1>5. f + 1 \in (a + 1)..sent /\ msg[j] = f + 1 /\ sent <= a + Buf
  <2>1. PICK n \in (a + 1)..sent : j = SlotOf(n)
    BY <1>1, <1>2, <1>4 DEF TurnInv, BufferInv, Busy
  <2>2. msg[j] = n
    BY <2>1 DEF TurnInv, BufferInv
  <2>3. sent <= a + Buf
    <3>1. Pending(Freeing) \in {0, 1}
      BY DEF Pending
    <3> QED BY <1>4, <3>1, SendNumbers
  <2>4. n \in Nat /\ n >= 1 /\ n - (f + 1) < Buf /\ (f + 1) - n < Buf /\ f + 1 \in Nat
        /\ f + 1 >= 1
    BY <1>3, <2>1, <2>3, SendNumbers
  <2>5. n = f + 1
    <3>1. SlotOf(n) = SlotOf(f + 1)
      BY <1>4, <2>1
    <3> QED BY <2>4, <3>1, SlotOfInjective
  <2> QED BY <2>1, <2>2, <2>3, <2>5
<1> HIDE DEF j
<1>6. BufferInv(a, f + 1)'
  <2>1. ASSUME NEW n \in (a + 1)..sent
        PROVE  frame'[SlotOf(n)] = IF n <= f + 1 THEN FrameOf(n) ELSE 0
    <3>1. CASE n = f + 1
      <4>1. n <= f + 1
        BY <3>1
      <4> QED BY <1>1, <1>4, <3>1, <4>1, SendTypes
    <3>2. CASE n # f + 1
      <4>1. n \in Nat /\ n >= 1 /\ n - (f + 1) < Buf /\ (f + 1) - n < Buf /\ ~ (n <= f + 1)
            /\ ~ (n <= f) /\ f + 1 \in Nat /\ f + 1 >= 1
        BY <1>3, <1>5, <3>2, SendNumbers
      <4>2. SlotOf(n) # j /\ SlotOf(n) \in Slot
        BY <1>4, <3>2, <4>1, SlotOfInjective, SlotOfType
      <4>3. frame[SlotOf(n)] = 0
        BY <4>1 DEF TurnInv, BufferInv
      <4> QED BY <1>1, <4>1, <4>2, <4>3, SendTypes
    <3> QED BY <3>1, <3>2
  <2>2. a <= f + 1 /\ f + 1 <= a + 1 /\ f + 1 <= sent
    BY <1>3, <1>5, SendNumbers
  <2>3. ASSUME NEW n \in (a + 1)..sent
        PROVE  isbusy'[SlotOf(n)] = 1 /\ ack'[SlotOf(n)] = 0 /\ msg'[SlotOf(n)] = n
    BY <1>1 DEF TurnInv, BufferInv
  <2>4. /\ \A k \in Busy : \E n \in (a + 1)..sent : k = SlotOf(n)
        /\ sent + 0 + Pending(Freeing) <= a + Buf
        /\ Cardinality(Busy) = sent - a + 0
    BY <1>2 DEF TurnInv, BufferInv, Pending
  <2>5. sent' = sent
    BY <1>1 DEF user
  <2>6. ASSUME NEW k \in Slot, frame'[k] # 0
        PROVE  f + 1 = a + 1 /\ k = SlotOf(f + 1)
    <3>1. frame[k] = 0
      BY <1>3, SendNumbers DEF TurnInv, BufferInv, Closing
    <3> QED BY <1>1, <1>3, <1>4, <2>6, <3>1, SendTypes
  <2>7. Pending(Adding') = 0
    BY <1>2 DEF Pending
  <2> QED BY <1>2, <2>1, <2>2, <2>3, <2>4, <2>5, <2>6, <2>7 DEF BufferInv
<1>7. UserInv'
  BY <1>1 DEF UserInv, Adding, user
<1>8. CursorInv(f + 1)'
  <2>1. (j + 1) % Buf = SlotOf((f + 1) + 1) /\ NextFrame(currframe) = FrameOf((f + 1) + 1)
    BY <1>4, SlotOfNext, FrameOfNext
  <2> QED BY <1>1, <2>1 DEF TurnInv, CursorInv, j, user
<1>9. CounterInv(a, f + 1)'
  <2>1. wndsize' = 1 - ((f + 1) - a) + 1 - 0
    BY <1>1, <1>3
  <2>2. rpc' # "wstore" /\ spc' # "store" /\ upc' # "store"
    BY <1>1, <1>2, <1>3 DEF Closing, user
  <2>3. rpc' = "store" => rtmp' = size'
    BY <1>1, <1>2 DEF TurnInv, CounterInv, receiver
  <2>4. size' = sent' - a + Pending(Freeing)'
    BY <1>1, <1>2 DEF TurnInv, CounterInv, user, Pending
  <2> QED BY <1>2, <1>3, <2>1, <2>2, <2>3, <2>4 DEF CounterInv, Pending
<1>10. SenderInv(a, f + 1)'
  <2>1. Len(taken) < f + 1
    BY SendNumbers DEF TurnInv, WireInv
  <2>2. \A d \in frames' : d.msg < f + 1
    <3> SUFFICES ASSUME NEW d \in frames PROVE d.msg < f + 1
      BY <1>1 DEF Recent
    <3>1. d.msg \in 1..f
      BY DEF TurnInv, WireInv
    <3> QED BY <3>1
  <2> QED BY <1>1, <1>3, <1>4, <2>1, <2>2 DEF SenderInv, j
<1>11. ReceiverInv(a, f + 1)'
  <2>1. rpc # "free"
    <3>1. f # a + 1
      BY <1>3
    <3> QED BY <3>1 DEF TurnInv, ReceiverInv
  <2>2. rpc \notin {"frame", "ack"}
    BY <1>3 DEF Closing
  <2> QED BY <1>1, <1>2, <1>3, <2>1, <2>2 DEF TurnInv, ReceiverInv, receiver
<1>12. WireInv(a, f + 1)'
  <2>1. ASSUME NEW d \in frames' \cup acks'
        PROVE  /\ d \in frames \cup acks /\ d.msg \in 1..(f + 1) /\ d.frame = FrameOf(d.msg)
               /\ f + 1 < d.msg + Lifetime
    <3>1. d \in frames \cup acks /\ d.msg + Lifetime > f + 1
      BY <1>1, <1>5 DEF Recent
    <3>2. d.msg \in 1..f /\ d.frame = FrameOf(d.msg)
      BY <3>1 DEF TurnInv, WireInv
    <3> QED BY <3>1, <3>2, SendTypes
  <2>2. a <= Len(taken) /\ Len(taken) <= f + 1
    BY SendNumbers DEF TurnInv, WireInv
  <2>3. \A d \in acks' : d.msg <= Len(taken)
    BY <1>1 DEF Recent, TurnInv, WireInv
  <2> QED BY <1>1, <2>1, <2>2, <2>3 DEF TurnInv, WireInv
<1>13. f + 1 \in 0..sent
  BY <1>5, SendNumbers
<1> QED BY <1>6, <1>7, <1>8, <1>9, <1>10, <1>11, <1>12, <1>13 DEF TurnInv

\* R takes an acknowledgement off the wire, or is done with it.
LEMMA SendTake ==
  ASSUME TypeInv, UserInv, NEW a \in Nat, NEW f \in Nat, TurnInv(a, f),
         RDone \/ \E d \in acks : RTake(d)
  PROVE  UserInv' /\ TurnInv(a, f)'
<1>1. /\ UNCHANGED <<slots, size, next, nextframed, wndsize, currframe, user, sender, wire>>
      /\ rpc \in {"idle", "test"} /\ rpc' \in {"idle", "test"}
  BY DEF RDone, RTake
<1>2. /\ Adding' = Adding /\ Opening' = Opening /\ Unsent' = Unsent
      /\ ~ Freeing /\ ~ Freeing' /\ ~ Closing /\ ~ Closing'
  BY <1>1 DEF Adding, Opening, Unsent, Freeing, Closing, user, sender
<1>3. UserInv'
  BY <1>1, <1>2 DEF UserInv, user, slots
<1>4. BufferInv(a, f)' /\ WireInv(a, f)'
  <2>1. Freeing' = Freeing
    BY <1>1 DEF Freeing, Closing
  <2> QED BY <1>1, <1>2, <2>1, BufferKept, WireKept DEF TurnInv, user, slots
<1>5. CursorInv(f)' /\ CounterInv(a, f)' /\ SenderInv(a, f)'
  <2>1. CursorInv(f)' /\ SenderInv(a, f)'
    BY <1>1, <1>2 DEF TurnInv, CursorInv, SenderInv, user, sender, wire
  <2>2. CounterInv(a, f)'
    <3>1. rpc' # "wstore" /\ rpc' # "store"
      BY <1>1
    <3>2. Pending(Opening)' = Pending(Opening) /\ Pending(Closing)' = Pending(Closing)
          /\ Pending(Freeing)' = Pending(Freeing)
      BY <1>2 DEF Pending
    <3> QED BY <1>1, <3>1, <3>2 DEF TurnInv, CounterInv, user, sender
  <2> QED BY <2>1, <2>2
<1>6. ReceiverInv(a, f)'
  <2>1. CASE RDone
    BY <2>1, <1>2 DEF RDone, ReceiverInv
  <2>2. ASSUME NEW d \in acks, RTake(d)
        PROVE  ReceiverInv(a, f)'
    <3>1. rframe' = d.frame /\ rpc' = "test" /\ taken' = taken
      BY <2>2 DEF RTake, wire
    <3>2. /\ d.msg \in 1..f /\ d.frame = FrameOf(d.msg) /\ f < d.msg + Lifetime
          /\ d.msg <= Len(taken) /\ a <= f
      BY DEF TurnInv, WireInv, BufferInv
    <3>3. d.msg \in 1..Len(taken) /\ a < d.msg + Lifetime
      BY <3>2, SendTypes
    <3> QED BY <1>2, <3>1, <3>2, <3>3 DEF ReceiverInv
  <2> QED BY <1>1, <2>1, <2>2
<1> QED BY <1>3, <1>4, <1>5, <1>6 DEF TurnInv

\* The slot that an acknowledgement matches holds the message it is about: the
\* oldest, which the peer has.
LEMMA SendMatch ==
  ASSUME TypeInv, UserInv, NEW a \in Nat, NEW f \in Nat, TurnInv(a, f),
         RTest
  PROVE  UserInv' /\ TurnInv(a, f)'
<1>1. /\ UNCHANGED <<slots, size, next, nextframed, wndsize, currframe, rframe, rtmp, user,
                     sender, wire>>
      /\ rpc = "test" /\ rpc' \in {"test", "free"}
  BY DEF RTest
<1>2. /\ Adding' = Adding /\ Opening' = Opening /\ Unsent' = Unsent
      /\ ~ Freeing /\ ~ Freeing' /\ ~ Closing /\ ~ Closing'
  BY <1>1 DEF Adding, Opening, Unsent, Freeing, Closing, user, sender
<1>3. UserInv'
  BY <1>1, <1>2 DEF UserInv, user, slots
<1>4. BufferInv(a, f)' /\ WireInv(a, f)'
  <2>1. Freeing' = Freeing
    BY <1>1 DEF Freeing, Closing
  <2> QED BY <1>1, <1>2, <2>1, BufferKept, WireKept DEF TurnInv, user, slots
<1>5. CursorInv(f)' /\ CounterInv(a, f)' /\ SenderInv(a, f)'
  <2>1. CursorInv(f)' /\ SenderInv(a, f)'
    BY <1>1, <1>2 DEF TurnInv, CursorInv, SenderInv, user, sender, wire
  <2>2. CounterInv(a, f)'
    <3>1. rpc' # "wstore" /\ rpc' # "store"
      BY <1>1
    <3>2. Pending(Opening)' = Pending(Opening) /\ Pending(Closing)' = Pending(Closing)
          /\ Pending(Freeing)' = Pending(Freeing)
      BY <1>2 DEF Pending
    <3> QED BY <1>1, <3>1, <3>2 DEF TurnInv, CounterInv, user, sender
  <2> QED BY <2>1, <2>2
<1>6. PICK m \in 1..Len(taken) : rframe = FrameOf(m) /\ a < m + Lifetime
  BY <1>1 DEF TurnInv, ReceiverInv
<1>7. ASSUME rpc' = "free"
      PROVE  f = a + 1 /\ f <= Len(taken) /\ rj' = SlotOf(f) /\ rframe = FrameOf(f)
  <2>1. frame[rj] = rframe /\ rj \in Slot /\ rj' = rj
    BY <1>1, <1>7, FrameAssumption DEF RTest, TypeInv, TypeOK, Slot
  <2>2. m \in Nat /\ m >= 1
    BY <1>6, SendNumbers
  <2>3. rframe # 0
    BY <1>6, <2>2, FrameOfType DEF Frame
  <2>4. f = a + 1 /\ f >= 1 /\ rj = SlotOf(f) /\ frame[rj] = FrameOf(f)
    BY <1>1, <2>1, <2>3, FramedMessage
  <2>5. f - m < MaxSeq - 1 /\ m - f < MaxSeq - 1
    <3>1. Len(taken) <= f
      BY DEF TurnInv, WireInv
    <3>2. m <= Len(taken) /\ a < m + (MaxSeq - 2)
      BY <1>6, SendTypes DEF Lifetime
    <3> QED BY <2>2, <2>4, <3>1, <3>2, SendNumbers
  <2>6. FrameOf(m) = FrameOf(f)
    BY <1>6, <2>1, <2>4
  <2>7. m = f
    BY <2>2, <2>4, <2>5, <2>6, FrameOfInjective
  <2> QED BY <1>6, <2>1, <2>4, <2>7, SendNumbers
<1>8. ReceiverInv(a, f)'
  BY <1>1, <1>2, <1>6, <1>7 DEF ReceiverInv, wire
<1> QED BY <1>3, <1>4, <1>5, <1>8 DEF TurnInv

\* Freeing its slot acknowledges the oldest message.
LEMMA SendFree ==
  ASSUME TypeInv, UserInv, NEW a \in Nat, NEW f \in Nat, TurnInv(a, f),
         RFree
  PROVE  UserInv' /\ a + 1 \in 0..sent /\ TurnInv(a + 1, f)'
<1>1. /\ isbusy' = [isbusy EXCEPT ![rj] = 0]
      /\ UNCHANGED <<frame, ack, msg, size, next, nextframed, wndsize, currframe, rj, rframe,
                     rtmp, user, sender, wire>>
      /\ rpc = "free" /\ rpc' = "frame"
  BY DEF RFree
<1>2. /\ Adding' = Adding /\ Opening' = Opening /\ Unsent' = Unsent
      /\ ~ Freeing /\ Freeing' /\ ~ Closing /\ Closing'
  BY <1>1 DEF Adding, Opening, Unsent, Freeing, Closing, user, sender
<1>3. f = a + 1 /\ f <= Len(taken) /\ rj = SlotOf(f) /\ rframe = FrameOf(f)
  BY <1>1 DEF TurnInv, ReceiverInv
<1>4. ~ Unsent
  BY <1>3, SendNumbers DEF TurnInv, SenderInv
<1>5. f <= sent /\ f \in (a + 1)..sent /\ sent + Pending(Adding) + 0 <= a + Buf
  BY <1>2, <1>3, SendNumbers DEF TurnInv, BufferInv, Pending
<1>6. Pending(Adding) \in {0, 1}
  BY DEF Pending
<1>7. isbusy[rj] = 1 /\ rj \in Slot /\ frame[rj] = FrameOf(f) /\ msg[rj] = f
  <2>1. rj \in Slot
    BY <1>1 DEF TypeInv
  <2> QED BY <1>3, <1>5, <2>1, SendNumbers DEF TurnInv, BufferInv
<1>8. Adding => rj # next
  <2> SUFFICES ASSUME Adding PROVE rj # next
    OBVIOUS
  <2>1. next = SlotOf(sent + 1) /\ sent + 1 <= a + Buf
    <3>1. sent + 1 + 0 <= a + Buf
      BY <1>5 DEF Pending
    <3>2. next = SlotOf(sent + 1)
      BY DEF TurnInv, CursorInv
    <3> QED BY <3>1, <3>2, SendNumbers
  <2>2. /\ sent + 1 \in Nat /\ sent + 1 >= 1 /\ f >= 1 /\ sent + 1 # f
        /\ (sent + 1) - f < Buf /\ f - (sent + 1) < Buf
    BY <1>3, <1>5, <2>1, SendNumbers
  <2> QED BY <1>3, <2>1, <2>2, SlotOfInjective
<1>9. Busy' = Busy \ {rj} /\ rj \in Busy
  BY <1>1, <1>7, SendTypes DEF Busy
<1>10. Cardinality(Busy') = Cardinality(Busy) - 1
  BY <1>9, SendTypes, FS_RemoveElement
<1>11. BufferInv(a + 1, f)'
  <2>1. ASSUME NEW n \in ((a + 1) + 1)..sent
        PROVE  /\ isbusy'[SlotOf(n)] = 1 /\ ack[SlotOf(n)] = 0 /\ msg[SlotOf(n)] = n
               /\ frame[SlotOf(n)] = IF n <= f THEN FrameOf(n) ELSE 0
    <3>1. /\ n \in Nat /\ n >= 1 /\ n - f < Buf /\ f - n < Buf /\ n # f /\ f >= 1
          /\ n \in (a + 1)..sent
      BY <1>3, <1>5, <1>6, SendNumbers
    <3>2. SlotOf(n) # rj /\ SlotOf(n) \in Slot
      BY <1>3, <3>1, SlotOfInjective, SlotOfType
    <3>3. isbusy'[SlotOf(n)] = isbusy[SlotOf(n)]
      BY <1>1, <3>2, SendTypes
    <3> QED BY <3>1, <3>3 DEF TurnInv, BufferInv
  <2>2. \A j \in Busy' : (\E n \in ((a + 1) + 1)..sent : j = SlotOf(n)) \/ (Adding /\ j = next)
    <3> SUFFICES ASSUME NEW j \in Busy, j # rj, ~ (Adding /\ j = next)
                 PROVE  \E n \in ((a + 1) + 1)..sent : j = SlotOf(n)
      BY <1>9
    <3>1. PICK n \in (a + 1)..sent : j = SlotOf(n)
      BY DEF TurnInv, BufferInv
    <3>2. n # f
      BY <1>3, <3>1
    <3>3. n \in ((a + 1) + 1)..sent
      BY <1>3, <3>1, <3>2, SendNumbers
    <3> QED BY <3>1, <3>3
  <2>3. Cardinality(Busy') = sent - (a + 1) + Pending(Adding)
    <3>1. Cardinality(Busy) = sent - a + Pending(Adding)
      BY DEF TurnInv, BufferInv
    <3> QED BY <1>6, <1>10, <3>1, SendNumbers
  <2>4. a + 1 <= f /\ f <= (a + 1) + 1 /\ f <= sent /\ sent + Pending(Adding) + 1 <= (a + 1) + Buf
    BY <1>3, <1>5, <1>6, SendNumbers
  <2>5. \A j \in Slot : frame[j] # 0 => rpc' = "frame" /\ j = rj'
    BY <1>1, <1>3 DEF TurnInv, BufferInv
  <2>6. sent' = sent /\ ack' = ack /\ msg' = msg /\ frame' = frame /\ next' = next
    BY <1>1 DEF user
  <2>7. Pending(Freeing') = 1
    BY <1>2 DEF Pending
  <2> QED BY <1>2, <2>1, <2>2, <2>3, <2>4, <2>5, <2>6, <2>7 DEF BufferInv
<1>12. UserInv'
  <2>1. Adding => isbusy'[next] = 1
    BY <1>1, <1>8, SendTypes DEF UserInv
  <2> QED BY <1>1, <1>2, <2>1 DEF UserInv, user
<1>13. CounterInv(a + 1, f)'
  <2>1. size = sent - a + 0 /\ wndsize = 1 - (f - a) + 0 - 0
    <3>1. ~ Opening
      BY <1>4 DEF Opening, Unsent
    <3> QED BY <1>2, <3>1 DEF TurnInv, CounterInv, Pending
  <2>2. size = sent - (a + 1) + 1 /\ wndsize = 1 - (f - (a + 1)) + 0 - 1
    BY <2>1, <1>3, SendNumbers
  <2>3. /\ size' = size /\ wndsize' = wndsize /\ sent' = sent /\ spc' # "store" /\ ~ Opening'
        /\ rpc' # "wstore" /\ rpc' # "store" /\ (upc' = "store" => utmp' = size')
    BY <1>1, <1>2, <1>4 DEF TurnInv, CounterInv, user, sender, Opening, Unsent
  <2> QED BY <1>2, <2>2, <2>3 DEF CounterInv, Pending
<1>14. CursorInv(f)' /\ SenderInv(a + 1, f)'
  BY <1>1, <1>2, <1>4 DEF TurnInv, CursorInv, SenderInv, user
<1>15. ReceiverInv(a + 1, f)'
  <2>1. f \in 1..Len(taken) /\ a + 1 < f + Lifetime
    BY <1>3, SendTypes DEF Lifetime
  <2>2. a + 1 >= 1 /\ rpc' # "free" /\ rpc' # "idle" /\ f = a + 1
    BY <1>1, <1>3
  <2> QED BY <1>1, <1>2, <1>3, <1>7, <2>1, <2>2 DEF ReceiverInv, wire
<1>16. WireInv(a + 1, f)'
  <2>1. a + 1 <= Len(taken)
    BY <1>3
  <2> QED BY <1>1, <2>1 DEF TurnInv, WireInv, wire
<1>17. a + 1 \in 0..sent
  BY <1>3, <1>5, SendNumbers
<1> QED BY <1>11, <1>12, <1>13, <1>14, <1>15, <1>16, <1>17 DEF TurnInv

\* Clearing the freed slot touches no message of the buffer, nor the one the
\* user adds.
LEMMA SendClear ==
  ASSUME TypeInv, UserInv, NEW a \in Nat, NEW f \in Nat, TurnInv(a, f),
         RClearFrame \/ RSetAck
  PROVE  UserInv' /\ TurnInv(a, f)'
<1>1. /\ UNCHANGED <<isbusy, msg, size, next, nextframed, wndsize, currframe, rj, rframe, rtmp,
                     user, sender, wire>>
      /\ rpc \in {"frame", "ack"} /\ rpc' \in {"ack", "wload"}
      /\ \A j \in Slot : j # rj => frame'[j] = frame[j] /\ ack'[j] = ack[j]
      /\ \A j \in Slot : frame'[j] # 0 => frame[j] # 0
      /\ rpc = "frame" => frame'[rj] = 0
  <2>1. frame \in [Slot -> Frame \cup {0}] /\ ack \in [Slot -> {0, 1}] /\ rj \in 0..Buf
    BY DEF TypeInv, TypeOK
  <2>2. CASE RClearFrame
    <3>1. rj \in Slot
      BY <2>2 DEF RClearFrame, TypeInv
    <3> QED BY <2>1, <2>2, <3>1 DEF RClearFrame
  <2>3. CASE RSetAck
    BY <2>1, <2>3 DEF RSetAck
  <2> QED BY <2>2, <2>3
<1>2. /\ Adding' = Adding /\ Opening' = Opening /\ Unsent' = Unsent /\ Busy' = Busy
      /\ Freeing /\ Freeing' /\ Closing /\ Closing'
  BY <1>1 DEF Adding, Opening, Unsent, Freeing, Closing, Busy, user, sender
<1>3. a >= 1 /\ rj = SlotOf(a) /\ f = a /\ (Adding => rj # next)
      /\ \A n \in (a + 1)..sent : SlotOf(n) # rj
  BY <1>1, FreedElsewhere
<1>4. BufferInv(a, f)'
  <2>1. ASSUME NEW n \in (a + 1)..sent
        PROVE  ack'[SlotOf(n)] = ack[SlotOf(n)] /\ frame'[SlotOf(n)] = frame[SlotOf(n)]
    <3>1. n \in Nat /\ n >= 1
      BY SendNumbers
    <3> QED BY <1>1, <1>3, <3>1, SlotOfType
  <2>2. ASSUME NEW j \in Slot, frame'[j] # 0
        PROVE  FALSE
    <3>1. f # a + 1
      BY <1>3
    <3>2. rpc = "frame" /\ j = rj
      BY <1>1, <2>2, <3>1 DEF TurnInv, BufferInv
    <3> QED BY <1>1, <2>2, <3>2
  <2>3. \A n \in (a + 1)..sent :
            /\ isbusy'[SlotOf(n)] = 1 /\ ack'[SlotOf(n)] = 0 /\ msg'[SlotOf(n)] = n
            /\ frame'[SlotOf(n)] = IF n <= f THEN FrameOf(n) ELSE 0
    BY <1>1, <2>1 DEF TurnInv, BufferInv
  <2>4. sent' = sent /\ next' = next /\ Freeing' = Freeing
    BY <1>1, <1>2 DEF user
  <2> QED BY <1>2, <2>2, <2>3, <2>4 DEF TurnInv, BufferInv
<1>5. UserInv'
  <2>1. upc \in {"load", "store"} => ack'[next] = ack[next] /\ frame'[next] = frame[next]
    BY <1>1, <1>3, SendTypes DEF Adding
  <2> QED BY <1>1, <1>2, <2>1 DEF UserInv, user
<1>6. CursorInv(f)' /\ SenderInv(a, f)'
  BY <1>1, <1>2 DEF TurnInv, CursorInv, SenderInv, user, sender, wire
<1>7. ReceiverInv(a, f)'
  <2>1. rpc' # "frame" /\ rpc' # "free" /\ rpc' # "idle" /\ rpc # "idle"
    BY <1>1
  <2> QED BY <1>1, <1>3, <2>1 DEF TurnInv, ReceiverInv, wire
<1>8. CounterInv(a, f)'
  <2>1. rpc' # "wstore" /\ rpc' # "store"
    BY <1>1
  <2>2. Pending(Opening)' = Pending(Opening) /\ Pending(Closing)' = Pending(Closing)
        /\ Pending(Freeing)' = Pending(Freeing)
    BY <1>2 DEF Pending
  <2> QED BY <1>1, <2>1, <2>2 DEF TurnInv, CounterInv, user, sender
<1> QED BY <1>1, <1>4, <1>5, <1>6, <1>7, <1>8, WireKept DEF TurnInv

\* R gives the window and the size back: S is not at the window, as the message
\* it would have framed is acknowledged, nor m_sendto about to store a size it
\* loaded before.
LEMMA SendReturn ==
  ASSUME TypeInv, UserInv, ~ SizeRace, NEW a \in Nat, NEW f \in Nat, TurnInv(a, f),
         RLoad \/ RStoreWindow \/ RStoreSize
  PROVE  UserInv' /\ TurnInv(a, f)'
<1>1. /\ UNCHANGED <<slots, next, nextframed, currframe, rframe, user, sender, wire>>
      /\ rpc \in {"wload", "wstore", "load", "store"}
      /\ rpc' \in {"wstore", "load", "store", "test"}
      /\ Closing' => Closing
  BY DEF RLoad, RStoreWindow, RStoreSize, Closing
<1>2. Adding' = Adding /\ Opening' = Opening /\ Unsent' = Unsent
  BY <1>1 DEF Adding, Opening, Unsent, user, sender
<1>3. UserInv'
  BY <1>1, <1>2 DEF UserInv, user, slots
<1>4. Freeing /\ Pending(Freeing) = 1
  BY <1>1 DEF Freeing, Closing, Pending
<1>5. BufferInv(a, f)'
  <2>1. Busy' = Busy /\ sent' = sent /\ next' = next /\ rpc # "frame"
        /\ UNCHANGED <<isbusy, frame, ack, msg>>
    BY <1>1 DEF Busy, user, slots
  <2>2. sent + Pending(Adding) + Pending(Freeing)' <= a + Buf
    <3>1. sent + Pending(Adding) + 1 <= a + Buf
      BY <1>4 DEF TurnInv, BufferInv
    <3>2. Pending(Freeing)' \in {0, 1} /\ Pending(Adding) \in {0, 1}
      BY DEF Pending
    <3> QED BY <3>1, <3>2, SendNumbers
  <2> QED BY <1>2, <2>1, <2>2 DEF TurnInv, BufferInv
<1>6. WireInv(a, f)' /\ CursorInv(f)' /\ SenderInv(a, f)'
  BY <1>1, <1>2, WireKept DEF TurnInv, CursorInv, SenderInv, user, sender, wire
<1>7. ReceiverInv(a, f)'
  <2>1. rpc # "idle" /\ rpc' \notin {"free", "frame", "ack"}
    BY <1>1
  <2> QED BY <1>1, <2>1 DEF TurnInv, ReceiverInv, wire
<1>8. CounterInv(a, f)'
  <2>1. /\ size = sent - a + 1 /\ (upc = "store" => utmp = size)
        /\ wndsize = 1 - (f - a) + Pending(Opening) - Pending(Closing)
        /\ (spc = "store" => swnd = wndsize)
    BY <1>4 DEF TurnInv, CounterInv
  <2>2. sent' = sent /\ upc' = upc /\ utmp' = utmp /\ spc' = spc /\ swnd' = swnd
        /\ Pending(Opening)' = Pending(Opening)
    BY <1>1, <1>2 DEF user, sender, Pending
  <2>3. CASE RLoad
    <3>1. size' = size /\ wndsize' = wndsize /\ Freeing' /\ Closing' = Closing
          /\ (rpc' = "wstore" => rtmp' = wndsize) /\ (rpc' = "store" => rtmp' = size)
      BY <2>3 DEF RLoad, Freeing, Closing
    <3> QED BY <2>1, <2>2, <3>1 DEF CounterInv, Pending
  <2>4. CASE RStoreWindow
    <3>1. Closing /\ ~ Closing' /\ Freeing' /\ rpc' = "load" /\ rpc = "wstore"
          /\ wndsize' = rtmp + 1 /\ size' = size
      BY <2>4 DEF RStoreWindow, Closing, Freeing
    <3>2. f = a /\ rtmp = wndsize
      BY <3>1 DEF TurnInv, ReceiverInv, CounterInv
    <3>3. ~ Unsent
      BY <3>2, SendNumbers DEF TurnInv, SenderInv
    <3>4. spc # "store" /\ Pending(Opening) = 0
      BY <3>3 DEF Unsent, Opening, Pending
    <3>5. wndsize' = 1 - (f - a) + 0 - 0
      <4>1. wndsize = 1 - (f - a) + 0 - 1
        BY <2>1, <3>1, <3>4 DEF Pending
      <4> QED BY <3>1, <3>2, <4>1
    <3> QED BY <2>1, <2>2, <3>1, <3>4, <3>5 DEF CounterInv, Pending
  <2>5. CASE RStoreSize
    <3>1. ~ Closing /\ ~ Closing' /\ ~ Freeing' /\ rpc' = "test" /\ rpc = "store"
          /\ size' = rtmp - 1 /\ wndsize' = wndsize
      BY <2>5 DEF RStoreSize, Closing, Freeing
    <3>2. rtmp = size /\ upc # "store"
      BY <3>1 DEF TurnInv, CounterInv, SizeRace
    <3>3. size' = sent - a + 0
      BY <2>1, <3>1, <3>2, SendNumbers
    <3> QED BY <2>1, <2>2, <3>1, <3>2, <3>3 DEF CounterInv, Pending
  <2> QED BY <2>3, <2>4, <2>5
<1> QED BY <1>3, <1>5, <1>6, <1>7, <1>8 DEF TurnInv

\* The frame with the expected number is the next message, however late the
\* others are; a message that S has not sent yet is not among them.
LEMMA SendArrives ==
  ASSUME TypeInv, UserInv, NEW a \in Nat, NEW f \in Nat, TurnInv(a, f),
         NEW d \in frames, PeerReceives(d)
  PROVE  /\ UserInv' /\ TurnInv(a, f)'
         /\ taken' # taken => taken' = Append(taken, Len(taken) + 1) /\ Len(taken) < sent
<1> DEFINE T == Len(taken)
<1>1. /\ UNCHANGED <<slots, size, next, nextframed, wndsize, currframe, user, sender, receiver,
                     frames>>
      /\ acks' = acks \cup {d}
      /\ taken' = IF d.frame = FrameOf(T + 1) THEN Append(taken, d.msg) ELSE taken
  BY DEF PeerReceives
<1>2. d.msg \in 1..f /\ d.frame = FrameOf(d.msg) /\ f < d.msg + Lifetime
      /\ (Unsent => d.msg < f)
  BY DEF TurnInv, WireInv, SenderInv
<1>3. a <= T /\ T <= f /\ f <= a + 1 /\ f <= sent
  BY DEF TurnInv, WireInv, BufferInv
<1>4. taken \in Seq(1..MsgLimit) /\ T \in Nat
  BY DEF TypeInv, TypeOK
<1>5. d.msg <= T + 1 /\ d.msg >= 1 /\ d.msg \in Nat
  BY <1>2, <1>3, <1>4
<1>6. d.frame = FrameOf(T + 1) <=> d.msg = T + 1
  <2>1. MaxSeq \in Nat /\ MaxSeq > 2 /\ Lifetime = MaxSeq - 2
    BY SendNumbers DEF Lifetime
  <2>2. d.msg - (T + 1) < MaxSeq - 1 /\ (T + 1) - d.msg < MaxSeq - 1
    BY <1>2, <1>3, <1>4, <1>5, <2>1
  <2>3. T + 1 \in Nat /\ T + 1 >= 1
    BY <1>4
  <2>4. ASSUME d.frame = FrameOf(T + 1) PROVE d.msg = T + 1
    <3> HIDE DEF T
    <3>1. FrameOf(d.msg) = FrameOf(T + 1)
      BY <1>2, <2>4
    <3> QED BY <1>5, <2>2, <2>3, <3>1, FrameOfInjective
  <2> QED BY <1>2, <2>4
<1>7. taken' = IF d.msg = T + 1 THEN Append(taken, T + 1) ELSE taken
  BY <1>1, <1>6
<1>8. /\ Adding' = Adding /\ Opening' = Opening /\ Unsent' = Unsent /\ Freeing' = Freeing
      /\ Closing' = Closing /\ rpc' = rpc /\ rj' = rj
  BY <1>1 DEF Adding, Opening, Unsent, Freeing, Closing, user, sender, receiver
<1>9. UserInv' /\ BufferInv(a, f)'
  BY <1>1, <1>8, BufferKept DEF TurnInv, UserInv, user, slots
<1>10. CursorInv(f)' /\ CounterInv(a, f)'
  BY <1>1, <1>8 DEF TurnInv, CursorInv, CounterInv, user, sender, receiver
<1> HIDE DEF T
<1>11. /\ Len(taken') \in Nat /\ T <= Len(taken') /\ d.msg <= Len(taken') /\ Len(taken') <= f
       /\ \A k \in DOMAIN taken' : taken'[k] = k
       /\ Len(taken') \in {T, d.msg}
  <2> USE DEF T
  <2>1. CASE d.msg = T + 1
    <3>1. taken' = Append(taken, T + 1) /\ T + 1 <= f
      BY <1>2, <1>7, <2>1
    <3>2. Len(taken') = T + 1 /\ DOMAIN taken' = 1..(T + 1)
      BY <3>1, <1>4
    <3>3. ASSUME NEW k \in 1..(T + 1) PROVE taken'[k] = k
      BY <3>1, <1>4 DEF TurnInv, WireInv
    <3> QED BY <2>1, <3>1, <3>2, <3>3, <1>4
  <2>2. CASE d.msg # T + 1
    BY <2>2, <1>3, <1>4, <1>5, <1>7 DEF TurnInv, WireInv
  <2> QED BY <2>1, <2>2
<1>12. SenderInv(a, f)'
  <2>1. Unsent => Len(taken') < f
    BY <1>2, <1>11 DEF TurnInv, SenderInv, T
  <2> QED BY <1>1, <1>8, <2>1 DEF TurnInv, SenderInv, sender
<1>13. ReceiverInv(a, f)'
  <2>1. ASSUME NEW m \in 1..T
        PROVE  m \in 1..Len(taken')
    BY <1>4, <1>11
  <2>2. f <= T => f <= Len(taken')
    BY <1>3, <1>4, <1>11
  <2> QED BY <1>1, <1>8, <2>1, <2>2 DEF TurnInv, ReceiverInv, T, receiver, slots
<1>14. WireInv(a, f)'
  <2>1. a <= Len(taken')
    BY <1>3, <1>4, <1>11
  <2>2. \A e \in acks' : e.msg <= Len(taken')
    <3> SUFFICES ASSUME NEW e \in acks, e # d PROVE e.msg <= Len(taken')
      BY <1>1, <1>11
    <3>1. e.msg \in 1..f /\ e.msg <= T
      BY DEF TurnInv, WireInv, T
    <3> QED BY <3>1, <1>4, <1>11
  <2>3. \A e \in frames' \cup acks' :
            e.msg \in 1..f /\ e.frame = FrameOf(e.msg) /\ f < e.msg + Lifetime
    BY <1>1, <1>2 DEF TurnInv, WireInv
  <2> QED BY <1>11, <2>1, <2>2, <2>3 DEF WireInv
<1>15. taken' # taken => taken' = Append(taken, T + 1) /\ T < sent
  <2>1. taken' # taken => d.msg = T + 1
    BY <1>7
  <2>2. d.msg = T + 1 => T < sent
    BY <1>2, <1>3, <1>4, SendNumbers
  <2> QED BY <1>7, <2>1, <2>2
<1> QED BY <1>9, <1>10, <1>12, <1>13, <1>14, <1>15 DEF TurnInv, T

\* Every step from a state without a race keeps the invariant.
LEMMA SendStep == SendInv /\ ~ Races /\ [Next]_vars => SendInv'
<1> SUFFICES ASSUME SendInv, ~ Races, [Next]_vars PROVE SendInv'
  OBVIOUS
<1>1. TypeInv' /\ TypeInv /\ UserInv /\ ~ SizeRace /\ ~ HeaderRace
  BY TypesStep DEF SendInv, Races
<1>2. PICK a \in 0..sent : \E f \in 0..sent : TurnInv(a, f)
  BY DEF SendInv
<1>3. PICK f \in 0..sent : TurnInv(a, f)
  BY <1>2
<1>4. a \in Nat /\ f \in Nat /\ sent \in Nat
  BY <1>1, SendTypes
<1>5. CASE UNCHANGED vars
  <2>1. /\ Adding' = Adding /\ Opening' = Opening /\ Freeing' = Freeing /\ Closing' = Closing
        /\ rpc' = rpc /\ rj' = rj
    BY <1>5 DEF vars, Adding, Opening, Freeing, Closing, user, sender, receiver
  <2>2. UserInv' /\ BufferInv(a, f)' /\ WireInv(a, f)' /\ SenderInv(a, f)' /\ ReceiverInv(a, f)'
    BY <1>1, <1>3, <1>4, <1>5, <2>1, BufferKept, WireKept, ThreadsKept
    DEF vars, slots, user, TurnInv, UserInv
  <2>3. CursorInv(f)' /\ CounterInv(a, f)'
    BY <1>3, <1>5, <2>1 DEF vars, user, sender, receiver, TurnInv, CursorInv, CounterInv
  <2>4. sent' = sent
    BY <1>5 DEF vars, user
  <2> QED BY <1>1, <2>2, <2>3, <2>4 DEF SendInv, TurnInv
<1>6. CASE UserStoreSize
  <2>1. UserInv' /\ TurnInv(a, f)' /\ sent' = sent + 1
    BY <1>1, <1>3, <1>4, <1>6, SendCount
  <2>2. a \in 0..sent' /\ f \in 0..sent'
    BY <1>4, <2>1
  <2> QED BY <1>1, <2>1, <2>2 DEF SendInv
<1>7. CASE SFrame
  <2>1. UserInv' /\ f + 1 \in 0..sent /\ TurnInv(a, f + 1)'
    BY <1>1, <1>3, <1>4, <1>7, SendFrame
  <2>2. sent' = sent
    BY <1>7 DEF SFrame, user
  <2> QED BY <1>1, <2>1, <2>2 DEF SendInv
<1>8. CASE RFree
  <2>1. UserInv' /\ a + 1 \in 0..sent /\ TurnInv(a + 1, f)'
    BY <1>1, <1>3, <1>4, <1>8, SendFree
  <2>2. sent' = sent
    BY <1>8 DEF RFree, user
  <2> QED BY <1>1, <2>1, <2>2 DEF SendInv
<1>9. CASE UserEnter \/ UserRefused \/ UserLoadSize \/ UserClaim \/ UserFill
  <2>1. UserInv' /\ TurnInv(a, f)'
    BY <1>1, <1>3, <1>4, <1>9, SendEnterLoad, SendClaim, SendFill
  <2>2. sent' = sent
    BY <1>9 DEF UserEnter, UserRefused, UserLoadSize, UserClaim, UserFill
  <2> QED BY <1>1, <2>1, <2>2 DEF SendInv
<1>10. CASE \/ SEnter \/ SResendTest \/ SResendDone \/ SLoadWindow \/ SLeave
            \/ SStoreWindow \/ SResendSend \/ SSendNew
  <2>1. UserInv' /\ TurnInv(a, f)'
    BY <1>1, <1>3, <1>4, <1>10, SendRound, SendWindow, SendTransmit
  <2>2. sent' = sent
    BY <1>10 DEF SEnter, SResendTest, SResendDone, SLoadWindow, SLeave, SStoreWindow,
    SResendSend, SSendNew, user
  <2> QED BY <1>1, <2>1, <2>2 DEF SendInv
<1>11. CASE \/ RTest \/ RClearFrame \/ RSetAck \/ RLoad \/ RStoreWindow \/ RStoreSize \/ RDone
            \/ \E d \in acks : RTake(d)
  <2>1. UserInv' /\ TurnInv(a, f)'
    BY <1>1, <1>3, <1>4, <1>11, SendTake, SendMatch, SendClear, SendReturn
  <2>2. sent' = sent
    BY <1>11 DEF RTest, RClearFrame, RSetAck, RLoad, RStoreWindow, RStoreSize, RDone, RTake, user
  <2> QED BY <1>1, <2>1, <2>2 DEF SendInv
<1>12. ASSUME NEW d \in frames, PeerReceives(d)
       PROVE  SendInv'
  <2>1. UserInv' /\ TurnInv(a, f)'
    BY <1>1, <1>3, <1>4, <1>12, SendArrives
  <2>2. sent' = sent
    BY <1>12 DEF PeerReceives, user
  <2> QED BY <1>1, <2>1, <2>2 DEF SendInv
<1> QED BY <1>5, <1>6, <1>7, <1>8, <1>9, <1>10, <1>11, <1>12 DEF Next

\* In an execution without the two races, the invariant holds.
LEMMA SendHolds == Spec /\ []~ Races => []SendInv
BY SendAtFirst, SendStep, PTL DEF Spec

(***************************************************************************)
(* What the invariant says of the properties.  RaceFree, which the run     *)
(* checks, is the executions the theorems are about.                       *)
(***************************************************************************)

\* RaceFree is the executions of the code in which the two races do not happen.
LEMMA SendRaceFreeIs == RaceFree <=> Spec /\ []~ Races
<1>1. Init => ~ Races
  BY DEF Init, Races, SizeRace, HeaderRace
<1>2. UNCHANGED vars => Races' = Races
  BY DEF vars, slots, user, sender, receiver, Races, SizeRace, HeaderRace
<1>3. ~ Races /\ [Next /\ ~ Races']_vars => ~ Races'
  BY <1>2
<1>4. [Next /\ ~ Races']_vars => [Next]_vars
  OBVIOUS
<1>5. [Next]_vars /\ ~ Races' => [Next /\ ~ Races']_vars
  OBVIOUS
<1> QED BY <1>1, <1>3, <1>4, <1>5, PTL DEF Spec, RaceFree

\* While nobody is changing the buffer, size counts its busy slots, R freeing
\* them outside of the lock at any access of m_sendto and S, as long as no size
\* is stored over another's update (msocket.c 348, initmsocket.c 522) and no
\* header is built from a cleared slot.
THEOREM SizeExact == Spec /\ []~ Races => []SizeCounts
<1>1. SendInv => SizeCounts
  <2> SUFFICES ASSUME SendInv, upc = "idle", rpc = "idle"
               PROVE  size = Cardinality(Busy)
    BY DEF SizeCounts
  <2>1. PICK a, f \in 0..sent : TurnInv(a, f)
    BY DEF SendInv
  <2>2. ~ Adding /\ ~ Freeing
    BY DEF Adding, Freeing, Closing
  <2> QED BY <2>1, <2>2 DEF TurnInv, BufferInv, CounterInv, Pending
<1> QED BY <1>1, SendHolds, PTL

\* A message m_sendto accepted is with the peer, or in the buffer and still to
\* be acknowledged, at every access of every execution without the two races:
\* no acknowledgement, however late, frees the slot of another message.
THEOREM NoneLost == Spec /\ []~ Races => []NothingLost
<1>1. SendInv => NothingLost
  <2> SUFFICES ASSUME SendInv, NEW n \in 1..sent
               PROVE  \/ \E k \in DOMAIN taken : taken[k] = n
                      \/ \E j \in Busy : msg[j] = n /\ ack[j] = 0
    BY DEF NothingLost
  <2>1. PICK a, f \in 0..sent : TurnInv(a, f)
    BY DEF SendInv
  <2>2. TypeInv /\ sent \in Nat /\ taken \in Seq(1..MsgLimit) /\ Len(taken) \in Nat
    BY SendTypes DEF SendInv, TypeInv, TypeOK
  <2>3. CASE n <= a
    <3>1. n \in DOMAIN taken
      BY <2>1, <2>2, <2>3 DEF TurnInv, WireInv
    <3> QED BY <2>1, <3>1 DEF TurnInv, WireInv
  <2>4. CASE ~ (n <= a)
    <3>1. n \in (a + 1)..sent /\ n \in Nat /\ n >= 1
      BY <2>2, <2>4
    <3>2. isbusy[SlotOf(n)] = 1 /\ msg[SlotOf(n)] = n /\ ack[SlotOf(n)] = 0
      BY <2>1, <3>1 DEF TurnInv, BufferInv
    <3>3. SlotOf(n) \in Busy
      BY <3>1, <3>2, SlotOfType DEF Busy
    <3> QED BY <3>2, <3>3
  <2> QED BY <2>3, <2>4
<1> QED BY <1>1, SendHolds, PTL

\* The peer stores the messages in the order m_sendto took them, each once,
\* also when the frame numbers have come round, in every execution without the
\* two races.
THEOREM OrderKept == Spec /\ []~ Races => []StoredInOrder
<1>1. SendInv => StoredInOrder
  <2> SUFFICES ASSUME SendInv PROVE StoredInOrder
    OBVIOUS
  <2>1. \A k \in DOMAIN taken : taken[k] = k
    BY DEF SendInv, TurnInv, WireInv
  <2> QED BY <2>1 DEF StoredInOrder
<1> QED BY <1>1, SendHolds, PTL

\* m_sendto never meets a busy slot in a buffer that is not full
\* (msocket.c 337), though R may be in the middle of freeing one, and S leaves
\* its loop with an error (initmsocket.c 675) only when the buffer has emptied
\* since it copied size, in every execution without the two races.
THEOREM SendErrorsHarmless == Spec /\ []~ Races => []ErrorsHarmless
<1>1. SendInv => ErrorsHarmless
  <2> SUFFICES ASSUME SendInv PROVE ErrorsHarmless
    OBVIOUS
  <2>1. PICK a, f \in 0..sent : TurnInv(a, f)
    BY DEF SendInv
  <2>2. TypeInv /\ a \in Nat /\ f \in Nat
    BY SendTypes DEF SendInv
  <2>3. upc = "check" /\ size # Buf => isbusy[next] = 0
    BY <2>1, <2>2, NextIdle
  <2>4. ASSUME spc = "new", wndsize > 0, ~ CanFrame, stemp > 0, NEW j \in Busy
        PROVE  FALSE
    <3>1. ~ Opening /\ ~ Adding /\ a <= f /\ f <= a + 1 /\ nextframed = SlotOf(f + 1)
      BY <2>1, <2>2, <2>4, OneHolder DEF Opening, Adding, TurnInv, BufferInv, CursorInv
    <3>2. wndsize = 1 - (f - a) + 0 - Pending(Closing) /\ Pending(Closing) \in {0, 1}
      BY <2>1, <3>1 DEF TurnInv, CounterInv, Pending
    <3>3. f = a
      BY <2>2, <2>4, <3>1, <3>2
    <3>4. PICK n \in (a + 1)..sent : j = SlotOf(n)
      BY <2>1, <3>1 DEF TurnInv, BufferInv
    <3>5. f + 1 \in (a + 1)..sent /\ ~ (f + 1 <= f)
      BY <2>2, <3>3, <3>4, SendNumbers
    <3>6. isbusy[nextframed] = 1 /\ frame[nextframed] = 0
      BY <2>1, <3>1, <3>5 DEF TurnInv, BufferInv
    <3> QED BY <2>4, <3>6 DEF CanFrame
  <2> QED BY <2>3, <2>4 DEF ErrorsHarmless
<1> QED BY <1>1, SendHolds, PTL

\* S's wndsize-- and R's wndsize++ (initmsocket.c 659, 521) are never under way
\* together, though nothing in the code keeps R out, and between them the
\* window is 1 less the messages that are numbered and not acknowledged, in
\* every execution without the two races.
THEOREM WindowExact == Spec /\ []~ Races => []WindowCounts
<1>1. SendInv => WindowCounts
  <2> SUFFICES ASSUME SendInv PROVE WindowCounts
    OBVIOUS
  <2>1. PICK a, f \in 0..sent : TurnInv(a, f)
    BY DEF SendInv
  <2>2. TypeInv /\ a \in Nat /\ f \in Nat /\ a <= f /\ f <= a + 1 /\ f <= sent
    BY <2>1, SendTypes DEF SendInv, TurnInv, BufferInv
  <2>3. ~ (Opening /\ Closing)
    <3>1. Opening => f = a + 1
      BY <2>1 DEF TurnInv, SenderInv, Opening, Unsent
    <3>2. Closing => f = a
      BY <2>1 DEF TurnInv, ReceiverInv
    <3> QED BY <2>2, <3>1, <3>2
  <2>4. ASSUME ~ Opening, ~ Closing
        PROVE  wndsize = 1 - Cardinality({ j \in Busy : frame[j] # 0 })
    <3> DEFINE N == { j \in Busy : frame[j] # 0 }
    <3>1. wndsize = 1 - (f - a) + 0 - 0
      BY <2>1, <2>4 DEF TurnInv, CounterInv, Pending
    <3>2. \A j \in Slot : frame[j] # 0 => f = a + 1 /\ j = SlotOf(f)
      BY <2>1, <2>4 DEF TurnInv, BufferInv, Closing
    <3>3. CASE f = a
      <4>1. N = {}
        BY <2>2, <3>2, <3>3 DEF Busy
      <4>2. Cardinality(N) = 0
        BY <4>1, FS_EmptySet
      <4> QED BY <2>2, <3>1, <3>3, <4>2
    <3>4. CASE f = a + 1
      <4>1. f \in (a + 1)..sent /\ f >= 1
        BY <2>2, <3>4, SendNumbers
      <4>2. SlotOf(f) \in Slot /\ FrameOf(f) \in Frame
        BY <2>2, <4>1, SlotOfType, FrameOfType
      <4>3. isbusy[SlotOf(f)] = 1 /\ frame[SlotOf(f)] = FrameOf(f)
        BY <2>1, <2>2, <4>1 DEF TurnInv, BufferInv
      <4>4. N = {SlotOf(f)}
        BY <3>2, <4>2, <4>3 DEF Busy, Frame
      <4>5. Cardinality(N) = 1
        BY <4>4, FS_Singleton
      <4> QED BY <2>2, <3>1, <3>4, <4>5
    <3> QED BY <2>2, <3>3, <3>4
  <2> QED BY <2>3, <2>4 DEF WindowCounts
<1> QED BY <1>1, SendHolds, PTL

\* The step of the channel that a step of the buffer is.
LEMMA SendImplements ==
  ASSUME SendInv, ~ Races, [Next]_vars
  PROVE  [Channel!ChanNext]_(Channel!chan)
<1>1. PICK a, f \in 0..sent : TurnInv(a, f)
  BY DEF SendInv
<1>2. TypeInv /\ UserInv /\ sent \in Nat /\ a \in Nat /\ f \in Nat /\ Len(taken) \in Nat
      /\ Buf \in Nat
  BY SendTypes DEF SendInv
<1>3. a <= Len(taken) /\ Len(taken) <= sent
  BY <1>1, <1>2 DEF TurnInv, WireInv, BufferInv
<1>4. CASE UserStoreSize
  <2>1. sent' = sent + 1 /\ sent < a + Buf /\ taken' = taken
    BY <1>1, <1>2, <1>4, SendCount DEF UserStoreSize, wire, Races
  <2>2. sent - Len(taken) < Buf
    BY <1>2, <1>3, <2>1
  <2>3. Channel!Take("out")
    BY <2>1, <2>2 DEF Channel!Take
  <2> QED BY <2>3 DEF Channel!ChanNext
<1>5. ASSUME NEW d \in frames, PeerReceives(d)
      PROVE  [Channel!ChanNext]_(Channel!chan)
  <2>1. sent' = sent /\ (taken' # taken => taken' = Append(taken, Len(taken) + 1)
                                           /\ Len(taken) < sent)
    BY <1>1, <1>2, <1>5, SendArrives DEF PeerReceives, user
  <2>2. CASE taken' = taken
    BY <2>1, <2>2 DEF Channel!chan
  <2>3. CASE taken' # taken
    <3>1. Channel!Deliver("out")
      BY <2>1, <2>3 DEF Channel!Deliver
    <3> QED BY <3>1 DEF Channel!ChanNext
  <2> QED BY <2>2, <2>3
<1>6. ASSUME ~ UserStoreSize, \A d \in frames : ~ PeerReceives(d)
      PROVE  UNCHANGED <<sent, taken>>
  BY <1>6 DEF Next, vars, user, sender, receiver, wire, slots,
     UserEnter, UserRefused, UserClaim, UserFill, UserLoadSize,
     SEnter, SResendTest, SResendSend, SResendDone, SFrame, SLoadWindow, SStoreWindow,
     SSendNew, SLeave, RTake, RTest, RFree, RClearFrame, RSetAck, RLoad, RStoreWindow,
     RStoreSize, RDone
<1>7. UNCHANGED <<sent, taken>> => UNCHANGED Channel!chan
  BY DEF Channel!chan
<1> QED BY <1>4, <1>5, <1>6, <1>7

\* Access by access, m_sendto, S, R and the peer are an ordered channel that
\* loses and repeats nothing and takes a message only while fewer than Buf are
\* under way, in every execution without the two races.
THEOREM SendImplementsChannel == Spec /\ []~ Races => ImplementsChannel
<1>1. Init => Channel!ChanInit
  BY DEF Init, Channel!ChanInit
<1>2. SendInv /\ ~ Races /\ [Next]_vars => [Channel!ChanNext]_(Channel!chan)
  BY SendImplements
<1>3. Spec /\ []~ Races => []SendInv
  BY SendHolds
<1>4. ImplementsChannel <=> Channel!ChanInit /\ [][Channel!ChanNext]_(Channel!chan)
  BY DEF ImplementsChannel, Channel!ChanSpec
<1> QED BY <1>1, <1>2, <1>3, <1>4, PTL DEF Spec
=============================================================================
