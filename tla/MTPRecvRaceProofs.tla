------------------------- MODULE MTPRecvRaceProofs -------------------------
(***************************************************************************)
(* Proofs about the receive buffer of module MTPRecvRace, for every buffer *)
(* size, MAX_SEQ and number of messages, R being outside of the lock as it *)
(* is in the code: its types and its frame numbers, and that it is a       *)
(* reliable channel in every execution without the five races.             *)
(***************************************************************************)
EXTENDS MTPRecvRace, MTPLemmas

(***************************************************************************)
(* Types, in every execution.                                              *)
(***************************************************************************)

\* TypeOK is inductive with what R knows of its message.
TypeInv ==
    /\ TypeOK
    /\ rpc # "idle" => rmsg >= 1

\* The buffer as initialised.
LEMMA TypesAtFirst == Init => TypeInv
<1> SUFFICES ASSUME Init PROVE TypeInv
  OBVIOUS
<1>1. /\ Buf \in Nat /\ Buf > 0 /\ 0 \in Slot /\ 1 \in Frame
      /\ MsgLimit \in Nat /\ 0 \in 0..MsgLimit
  BY FrameAssumption, RecvAssumption DEF Slot, Frame
<1>2. TypeOK
  BY <1>1 DEF TypeOK, Init
<1> QED BY <1>1, <1>2 DEF TypeInv, Init

\* m_recvfrom keeps the types.
LEMMA TypesUser ==
  ASSUME TypeInv,
         \/ UserEnter \/ UserSkip \/ UserCopy \/ UserLoad
         \/ UserStoreFetch \/ UserStoreInsert \/ UserRelease \/ UserClear
  PROVE  TypeInv'
<1> USE DEF TypeInv, slots, counters, user, receiver
<1>1. CASE UserEnter
  <2>1. TypeOK'
    BY <1>1, SlotArith DEF TypeOK, UserEnter
  <2> QED BY <1>1, <2>1 DEF UserEnter
<1>2. CASE UserSkip
  <2>1. TypeOK'
    BY <1>2, SlotArith DEF TypeOK, UserSkip
  <2> QED BY <1>2, <2>1 DEF UserSkip
<1>3. CASE UserCopy
  <2>1. data[uj] \in 0..MsgLimit
    BY DEF TypeOK
  <2>2. TypeOK'
    BY <1>3, <2>1 DEF TypeOK, UserCopy
  <2> QED BY <1>3, <2>2 DEF UserCopy
<1>4. CASE UserLoad
  <2>1. TypeOK'
    BY <1>4 DEF TypeOK, UserLoad
  <2> QED BY <1>4, <2>1 DEF UserLoad
<1>5. CASE UserStoreFetch
  <2>1. TypeOK'
    BY <1>5, NextFrameType DEF TypeOK, UserStoreFetch
  <2> QED BY <1>5, <2>1 DEF UserStoreFetch
<1>6. CASE UserStoreInsert
  <2>1. TypeOK'
    BY <1>6 DEF TypeOK, UserStoreInsert
  <2> QED BY <1>6, <2>1 DEF UserStoreInsert
<1>7. CASE UserRelease
  <2>1. TypeOK'
    BY <1>7 DEF TypeOK, UserRelease
  <2> QED BY <1>7, <2>1 DEF UserRelease
<1>8. CASE UserClear
  <2>1. TypeOK'
    BY <1>8, SlotArith DEF TypeOK, UserClear
  <2> QED BY <1>8, <2>1 DEF UserClear
<1> QED BY <1>1, <1>2, <1>3, <1>4, <1>5, <1>6, <1>7, <1>8

\* R keeps the types.
LEMMA TypesReceiver ==
  ASSUME TypeInv,
         \/ \E n \in 1..MsgLimit : RArrive(n)
         \/ RWindow \/ RSkip \/ RFound \/ RLoad \/ RStoreFetch \/ RStoreInsert
         \/ RBusy \/ RFrame \/ RData \/ RAck
  PROVE  TypeInv'
<1> USE DEF TypeInv, slots, counters, user, receiver
<1>1. ASSUME NEW n \in 1..MsgLimit, RArrive(n)
      PROVE  TypeInv'
  <2>1. n \in 0..MsgLimit /\ n >= 1
    BY RecvAssumption
  <2>2. TypeOK'
    BY <1>1, <2>1 DEF TypeOK, RArrive
  <2> QED BY <1>1, <2>1, <2>2 DEF RArrive
<1>2. CASE RWindow
  <2>1. TypeOK'
    BY <1>2, SlotArith DEF TypeOK, RWindow
  <2> QED BY <1>2, <2>1 DEF RWindow
<1>3. CASE RSkip
  <2>1. rj + 1 \in Slot
    BY <1>3, FrameAssumption DEF RSkip, TypeOK, Slot
  <2>2. TypeOK'
    BY <1>3, <2>1 DEF TypeOK, RSkip
  <2> QED BY <1>3, <2>2 DEF RSkip
<1>4. CASE RFound
  <2>1. TypeOK'
    BY <1>4, SlotArith, NextFrameType DEF TypeOK, RFound
  <2> QED BY <1>4, <2>1 DEF RFound
<1>5. CASE RLoad
  <2>1. TypeOK'
    BY <1>5 DEF TypeOK, RLoad
  <2> QED BY <1>5, <2>1 DEF RLoad
<1>6. CASE RStoreFetch
  <2>1. TypeOK'
    BY <1>6 DEF TypeOK, RStoreFetch
  <2> QED BY <1>6, <2>1 DEF RStoreFetch
<1>7. CASE RStoreInsert
  <2>1. TypeOK'
    BY <1>7 DEF TypeOK, RStoreInsert
  <2> QED BY <1>7, <2>1 DEF RStoreInsert
<1>8. CASE RBusy
  <2>1. TypeOK'
    BY <1>8 DEF TypeOK, RBusy
  <2> QED BY <1>8, <2>1 DEF RBusy
<1>9. CASE RFrame
  <2>1. FrameOf(rmsg) \in Frame
    BY <1>9, RecvAssumption, FrameOfType DEF RFrame, TypeOK
  <2>2. TypeOK'
    BY <1>9, <2>1 DEF TypeOK, RFrame
  <2> QED BY <1>9, <2>2 DEF RFrame
<1>10. CASE RData
  <2>1. TypeOK'
    BY <1>10 DEF TypeOK, RData
  <2> QED BY <1>10, <2>1 DEF RData
<1>11. CASE RAck
  <2>1. TypeOK'
    BY <1>11, SlotArith, RecvAssumption DEF TypeOK, RAck
  <2> QED BY <1>11, <2>1 DEF RAck
<1> QED BY <1>1, <1>2, <1>3, <1>4, <1>5, <1>6, <1>7, <1>8, <1>9, <1>10, <1>11

\* Every step keeps the types.
LEMMA TypesStep == TypeInv /\ [Next]_vars => TypeInv'
<1> SUFFICES ASSUME TypeInv, [Next]_vars PROVE TypeInv'
  OBVIOUS
<1>1. CASE UNCHANGED vars
  BY <1>1 DEF vars, slots, counters, user, receiver, TypeInv, TypeOK
<1> QED BY <1>1, TypesUser, TypesReceiver DEF Next

\* The types hold throughout.
LEMMA TypesHold == Spec => []TypeInv
BY TypesAtFirst, TypesStep, PTL DEF Spec

\* Every variable of the receive buffer keeps its type, also when R stores a
\* datagram while the user is inside m_recvfrom: the races misplace messages,
\* never an index or a frame number out of its range.
THEOREM RecvTypesCorrect == Spec => []TypeOK
<1>1. TypeInv => TypeOK
  BY DEF TypeInv
<1> QED BY <1>1, TypesHold, PTL

(***************************************************************************)
(* Where the messages are, at every access of the two threads, in the      *)
(* executions without the five races.                                      *)
(***************************************************************************)

\* 1 while a thread is between two updates that belong together.
Pending(b) == IF b THEN 1 ELSE 0

Busy == { j \in Slot : isbusy[j] = 1 }

Got == Len(delivered)

\* The user has read a slot and not released it: fetchsize, then insertsize
\* still count the message.
Counting == upc \in {"fload", "fstore"}
Reading == Counting \/ upc \in {"iload", "istore"}
Holding == Reading \/ upc = "busy"

\* R has found a slot and not marked it yet; has marked it and not filled it
\* yet; has not acknowledged its message yet.
Claiming == rpc \in {"fload", "fstore", "iload", "istore", "busy"}
Writing == rpc \in {"frame", "data"}
Filling == Writing \/ rpc = "ack"

\* R has counted its message in fetchsize; has taken its room from insertsize.
Counted == Filling \/ rpc \in {"iload", "istore", "busy"}
Taken == Filling \/ rpc = "busy"

\* The slot holds a message that nobody has read: R has filled it, the
\* acknowledgement may be still to come.
Stored(j) ==
    /\ isbusy[j] = 1
    /\ Holding => j # uj
    /\ Writing => j # rj

ContentsInv ==
    /\ Got <= InBuffer
    /\ \A k \in DOMAIN delivered : delivered[k] = k
    /\ \A j \in Slot : Stored(j) => data[j] \in (Got + 1)..InBuffer /\ frame[j] = FrameOf(data[j])
    /\ \A n \in (Got + 1)..InBuffer : \E j \in Slot : Stored(j) /\ data[j] = n
    /\ \A i, j \in Slot : Stored(i) /\ Stored(j) /\ data[i] = data[j] => i = j

\* There is room for the message R works on.
RoomInv ==
    /\ acked - Got + Pending(Reading) <= Buf
    /\ rpc # "idle" => acked - Got + Pending(Reading) < Buf

\* The counters, but for what an interrupted update still has to add, and the
\* copies that the updates work on.
SizeInv ==
    /\ Cardinality(Busy) = acked - Got + Pending(Holding) + Pending(Filling)
    /\ fetchsize = acked - Got + Pending(Counting) + Pending(Counted)
    /\ insertsize = Buf - (acked - Got) - Pending(Reading) - Pending(Taken)

CopyInv ==
    /\ upc = "fstore" => utmp = fetchsize
    /\ upc = "istore" => utmp = insertsize
    /\ rpc = "fstore" => rtmp = fetchsize
    /\ rpc = "istore" => rtmp = insertsize

CursorInv ==
    /\ togetframe = IF Claiming \/ Filling THEN FrameOf(acked + 2) ELSE FrameOf(acked + 1)
    /\ readframe = IF Counting THEN FrameOf(Got) ELSE FrameOf(Got + 1)
    /\ Counting => Got >= 1

\* R works on the message it expects, or still has to find out whether it is.
ArrivedInv ==
    /\ rpc = "window" => rmsg <= acked + 1 /\ rmsg + Lifetime > acked
    /\ rpc = "scan" \/ Claiming \/ Filling => rmsg = acked + 1

NumberInv == CursorInv /\ ArrivedInv

\* The slots in the hands of the two threads are not the same, but that R may
\* claim a slot whose number the user has not cleared yet.  An idle slot has no
\* number otherwise.
HandsInv ==
    /\ Holding => isbusy[uj] = 1 /\ (Writing => uj # rj)
    /\ Claiming => isbusy[rj] = 0
    /\ Writing => isbusy[rj] = 1
    /\ rpc = "data" => frame[rj] = FrameOf(rmsg)
    /\ upc = "frame" /\ isbusy[uj] = 1 => rpc = "frame" /\ uj = rj
    /\ \A j \in Slot : isbusy[j] = 0 \/ (rpc = "frame" /\ j = rj) =>
          frame[j] = 0 \/ (upc = "frame" /\ j = uj)

RecvInv ==
    /\ TypeInv
    /\ ContentsInv
    /\ RoomInv
    /\ SizeInv
    /\ CopyInv
    /\ NumberInv
    /\ HandsInv

-----------------------------------------------------------------------------
\* The types of what the invariant is about.
LEMMA RecvTypes ==
  ASSUME TypeInv
  PROVE  /\ Buf \in Nat /\ Buf > 0 /\ MaxSeq \in Nat /\ MaxSeq > Buf + 1 /\ Lifetime \in Nat
         /\ Lifetime = MaxSeq - 2
         /\ acked \in Nat /\ Got \in Nat /\ rmsg \in Nat /\ uj \in Slot /\ rj \in Slot
         /\ isbusy \in [Slot -> {0, 1}] /\ data \in [Slot -> 0..MsgLimit]
         /\ frame \in [Slot -> Frame \cup {0}]
         /\ fetchsize \in Int /\ insertsize \in Int /\ utmp \in Int /\ rtmp \in Int
         /\ delivered \in Seq(0..MsgLimit)
         /\ Busy \in SUBSET Slot /\ IsFiniteSet(Busy) /\ Cardinality(Busy) \in Nat
<1>1. Busy \in SUBSET Slot
  BY DEF Busy
<1>2. IsFiniteSet(Busy) /\ Cardinality(Busy) \in Nat
  BY <1>1, SlotsFinite
<1>3. acked \in Nat /\ Got \in Nat /\ rmsg \in Nat
  BY RecvAssumption DEF TypeInv, TypeOK, Got
<1> QED BY <1>1, <1>2, <1>3, FrameAssumption DEF TypeInv, TypeOK, Lifetime

\* The numbers among them.
LEMMA RecvNumbers ==
  ASSUME TypeInv
  PROVE  /\ Buf \in Nat /\ Buf > 0 /\ MaxSeq \in Nat /\ MaxSeq > Buf + 1
         /\ acked \in Nat /\ Got \in Nat /\ InBuffer \in Nat
BY RecvTypes DEF InBuffer

\* A step of the user leaves R where it is, and the message R works on.
LEMMA UserAlone ==
  ASSUME \/ UserEnter \/ UserSkip \/ UserCopy \/ UserLoad
         \/ UserStoreFetch \/ UserStoreInsert \/ UserRelease \/ UserClear
  PROVE  /\ UNCHANGED <<rpc, rj, rtmp, rmsg, acked, togetframe, data>>
         /\ Claiming' = Claiming /\ Writing' = Writing /\ Filling' = Filling
         /\ Counted' = Counted /\ Taken' = Taken /\ InBuffer' = InBuffer
<1>1. UNCHANGED <<rpc, rj, rtmp, rmsg, acked, togetframe, data>>
  BY DEF UserEnter, UserSkip, UserCopy, UserLoad, UserStoreFetch, UserStoreInsert,
         UserRelease, UserClear, slots, counters, receiver
<1> QED BY <1>1 DEF Claiming, Writing, Filling, Counted, Taken, InBuffer

\* A step of R leaves the user where it is, and what it has read.
LEMMA ReceiverAlone ==
  ASSUME \/ \E n \in 1..MsgLimit : RArrive(n)
         \/ RWindow \/ RSkip \/ RFound \/ RLoad \/ RStoreFetch \/ RStoreInsert
         \/ RBusy \/ RFrame \/ RData \/ RAck
  PROVE  /\ UNCHANGED <<upc, uj, utmp, readframe, delivered>>
         /\ Counting' = Counting /\ Reading' = Reading /\ Holding' = Holding /\ Got' = Got
<1>1. UNCHANGED <<upc, uj, utmp, readframe, delivered>>
  BY DEF RArrive, RWindow, RSkip, RFound, RLoad, RStoreFetch, RStoreInsert, RBusy,
         RFrame, RData, RAck, user
<1> QED BY <1>1 DEF Counting, Reading, Holding, Got

\* The contents are kept if the stored slots are.
LEMMA ContentsKept ==
  ASSUME ContentsInv, InBuffer' = InBuffer, delivered' = delivered,
         \A j \in Slot : /\ Stored(j)' <=> Stored(j)
                         /\ Stored(j) => frame'[j] = frame[j] /\ data'[j] = data[j]
  PROVE  ContentsInv'
<1>1. Got' = Got
  BY DEF Got
<1>2. Got' <= InBuffer' /\ \A k \in DOMAIN delivered' : delivered'[k] = k
  BY <1>1 DEF ContentsInv
<1>3. ASSUME NEW j \in Slot, Stored(j)'
      PROVE  data'[j] \in (Got' + 1)..InBuffer' /\ frame'[j] = FrameOf(data'[j])
  BY <1>1, <1>3 DEF ContentsInv
<1>4. ASSUME NEW n \in (Got' + 1)..InBuffer'
      PROVE  \E j \in Slot : Stored(j)' /\ data'[j] = n
  <2>1. PICK j \in Slot : Stored(j) /\ data[j] = n
    BY <1>1 DEF ContentsInv
  <2> QED BY <2>1
<1>5. ASSUME NEW i \in Slot, NEW j \in Slot, Stored(i)', Stored(j)', data'[i] = data'[j]
      PROVE  i = j
  <2>1. Stored(i) /\ Stored(j) /\ data[i] = data[j]
    BY <1>5
  <2> QED BY <2>1 DEF ContentsInv
<1> QED BY <1>2, <1>3, <1>4, <1>5 DEF ContentsInv

\* The sizes are kept by a step that changes nothing they count.
LEMMA SizesKept ==
  ASSUME SizeInv, RoomInv, UNCHANGED <<isbusy, fetchsize, insertsize, acked>>, Got' = Got,
         Counting' = Counting, Reading' = Reading, Holding' = Holding,
         Filling' = Filling, Counted' = Counted, Taken' = Taken
  PROVE  SizeInv' /\ ((rpc = "idle" => rpc' = "idle") => RoomInv')
<1>1. Busy' = Busy
  BY DEF Busy
<1> QED BY <1>1 DEF SizeInv, RoomInv, Pending

\* The slot the user wants holds the message to read next, unless R has marked
\* it and is still writing to it.
LEMMA WantedNext ==
  ASSUME RecvInv, upc = "scan", NEW j \in Slot, Wanted(j), Writing => j # rj
  PROVE  Stored(j) /\ data[j] = Got + 1
<1>1. TypeInv /\ ~ Holding /\ readframe = FrameOf(Got + 1)
  BY DEF RecvInv, Holding, Reading, Counting, NumberInv, CursorInv
<1>2. Stored(j) /\ frame[j] = FrameOf(Got + 1)
  BY <1>1 DEF Stored, Wanted
<1>3. data[j] \in (Got + 1)..InBuffer /\ frame[j] = FrameOf(data[j])
  BY <1>2 DEF RecvInv, ContentsInv
<1>4. InBuffer <= Got + Buf
  <2>1. /\ acked - Got + 0 <= Buf
        /\ rpc = "ack" => acked - Got + 0 < Buf
    BY DEF RecvInv, RoomInv, Pending, Reading, Counting
  <2>2. InBuffer = acked \/ (rpc = "ack" /\ InBuffer = acked + 1)
    BY <1>1, RecvNumbers DEF InBuffer
  <2> QED BY <1>1, <2>1, <2>2, RecvNumbers
<1>5. data[j] \in Nat /\ data[j] >= 1 /\ Got + 1 \in Nat /\ Got + 1 >= 1
      /\ data[j] - (Got + 1) < MaxSeq - 1 /\ (Got + 1) - data[j] < MaxSeq - 1
  BY <1>1, <1>3, <1>4, RecvNumbers
<1>6. data[j] = Got + 1
  BY <1>2, <1>3, <1>5, FrameOfInjective
<1> QED BY <1>2, <1>6

\* The buffer as initialised holds nothing.
LEMMA RecvAtFirst == Init => RecvInv
<1> SUFFICES ASSUME Init PROVE RecvInv
  OBVIOUS
<1>1. TypeInv
  BY TypesAtFirst
<1> USE DEF Init
<1>2. Busy = {} /\ Cardinality(Busy) = 0
  <2>1. Busy = {}
    BY DEF Busy
  <2> QED BY <2>1, FS_EmptySet
<1>3. Got = 0 /\ InBuffer = 0 /\ ~ Holding /\ ~ Reading /\ ~ Counting
      /\ ~ Claiming /\ ~ Writing /\ ~ Filling /\ ~ Counted /\ ~ Taken
  BY DEF Got, InBuffer, Holding, Reading, Counting, Claiming, Writing, Filling, Counted, Taken
<1>4. ContentsInv
  <2>1. \A j \in Slot : ~ Stored(j)
    BY DEF Stored
  <2> QED BY <1>3, <2>1 DEF ContentsInv
<1>5. SizeInv /\ RoomInv
  BY <1>2, <1>3, FrameAssumption DEF SizeInv, RoomInv, Pending
<1>6. NumberInv
  BY <1>3, FrameOfFirst DEF NumberInv, CursorInv, ArrivedInv
<1>7. CopyInv /\ HandsInv
  BY <1>3 DEF CopyInv, HandsInv
<1> QED BY <1>1, <1>4, <1>5, <1>6, <1>7 DEF RecvInv

(***************************************************************************)
(* The frame numbers, in every execution.                                  *)
(***************************************************************************)

\* m_recvfrom moves readframe on once for each message it copies.
LEMMA NumbersUser ==
  ASSUME TypeInv, NumberInv,
         \/ UserEnter \/ UserSkip \/ UserCopy \/ UserLoad
         \/ UserStoreFetch \/ UserStoreInsert \/ UserRelease \/ UserClear
  PROVE  NumberInv'
<1> USE DEF slots, counters, user, receiver
<1>1. UNCHANGED <<togetframe, rpc, rmsg, acked>>
  BY DEF UserEnter, UserSkip, UserCopy, UserLoad, UserStoreFetch, UserStoreInsert,
         UserRelease, UserClear
<1>2. ArrivedInv' /\ (Claiming' <=> Claiming) /\ (Filling' <=> Filling)
  BY <1>1 DEF NumberInv, ArrivedInv, Claiming, Filling, Writing
<1> SUFFICES /\ readframe' = IF Counting' THEN FrameOf(Got') ELSE FrameOf(Got' + 1)
             /\ Counting' => Got' >= 1
  BY <1>1, <1>2 DEF NumberInv, CursorInv
<1>3. CASE UserCopy
  <2>1. /\ ~ Counting /\ Counting' /\ readframe' = readframe
        /\ delivered' = Append(delivered, data[uj])
    BY <1>3 DEF UserCopy, Counting
  <2>2. Got' = Got + 1 /\ Got + 1 >= 1
    BY <2>1, RecvTypes DEF Got
  <2> QED BY <2>1, <2>2 DEF NumberInv, CursorInv
<1>4. CASE UserStoreFetch
  <2>1. /\ Counting /\ ~ Counting' /\ readframe' = NextFrame(readframe) /\ Got' = Got
    BY <1>4 DEF UserStoreFetch, Counting, Got
  <2>2. readframe = FrameOf(Got) /\ Got >= 1 /\ Got \in Nat
    BY <2>1, RecvNumbers DEF NumberInv, CursorInv
  <2>3. NextFrame(FrameOf(Got)) = FrameOf(Got + 1)
    BY <2>2, FrameOfNext
  <2> QED BY <2>1, <2>2, <2>3
<1>5. CASE \/ UserEnter \/ UserSkip \/ UserLoad \/ UserStoreInsert \/ UserRelease
           \/ UserClear
  <2>1. (Counting' <=> Counting) /\ readframe' = readframe /\ Got' = Got
    BY <1>5 DEF UserEnter, UserSkip, UserLoad, UserStoreInsert, UserRelease, UserClear,
       Counting, Got
  <2> QED BY <2>1 DEF NumberInv, CursorInv
<1> QED BY <1>3, <1>4, <1>5

\* R moves togetframe on once for each message it acknowledges: the only recent
\* message with the number of togetframe is the next one.
LEMMA NumbersReceiver ==
  ASSUME TypeInv, NumberInv,
         \/ \E n \in 1..MsgLimit : RArrive(n)
         \/ RWindow \/ RSkip \/ RFound \/ RLoad \/ RStoreFetch \/ RStoreInsert
         \/ RBusy \/ RFrame \/ RData \/ RAck
  PROVE  NumberInv'
<1> USE DEF slots, counters, user, receiver
<1>1. UNCHANGED <<readframe, upc, delivered>>
  BY DEF RArrive, RWindow, RSkip, RFound, RLoad, RStoreFetch, RStoreInsert, RBusy,
         RFrame, RData, RAck
<1>2. (Counting' <=> Counting) /\ Got' = Got
  BY <1>1 DEF Counting, Got
<1> SUFFICES /\ togetframe' = IF Claiming' \/ Filling' THEN FrameOf(acked' + 2)
                                                       ELSE FrameOf(acked' + 1)
             /\ ArrivedInv'
  BY <1>1, <1>2 DEF NumberInv, CursorInv
<1>3. ASSUME NEW n \in 1..MsgLimit, RArrive(n)
      PROVE  togetframe' = FrameOf(acked' + 1) /\ ~ Claiming' /\ ~ Filling' /\ ArrivedInv'
  <2>1. /\ rpc = "idle" /\ rpc' = "window" /\ rmsg' = n /\ acked' = acked
        /\ togetframe' = togetframe /\ n <= acked + 1 /\ n + Lifetime > acked
    BY <1>3 DEF RArrive
  <2> QED BY <2>1 DEF NumberInv, CursorInv, ArrivedInv, Claiming, Filling, Writing
<1>4. CASE RWindow
  <2>1. /\ rpc = "window" /\ rpc' \in {"idle", "scan"} /\ rmsg' = rmsg /\ acked' = acked
        /\ togetframe' = togetframe /\ (rpc' = "scan" => FrameOf(rmsg) = togetframe)
    BY <1>4 DEF RWindow
  <2>2. togetframe = FrameOf(acked + 1) /\ rmsg <= acked + 1 /\ rmsg + Lifetime > acked
        /\ ~ Claiming' /\ ~ Filling'
    BY <2>1 DEF NumberInv, CursorInv, ArrivedInv, Claiming, Filling, Writing
  <2>3. rmsg \in Nat /\ rmsg >= 1 /\ Lifetime = MaxSeq - 2
    BY <2>1, RecvTypes DEF TypeInv
  <2>4. /\ acked + 1 \in Nat /\ acked + 1 >= 1
        /\ rmsg - (acked + 1) < MaxSeq - 1 /\ (acked + 1) - rmsg < MaxSeq - 1
    BY <2>2, <2>3, RecvNumbers
  <2>5. FrameOf(rmsg) = FrameOf(acked + 1) => rmsg = acked + 1
    BY <2>3, <2>4, FrameOfInjective
  <2> QED BY <2>1, <2>2, <2>5 DEF ArrivedInv
<1>5. CASE RSkip
  BY <1>5 DEF RSkip, NumberInv, CursorInv, ArrivedInv, Claiming, Filling, Writing
<1>6. CASE RFound
  <2>1. /\ rpc = "scan" /\ rpc' = "fload" /\ rmsg' = rmsg /\ acked' = acked
        /\ togetframe' = NextFrame(togetframe)
    BY <1>6 DEF RFound
  <2>2. togetframe = FrameOf(acked + 1) /\ rmsg = acked + 1 /\ Claiming'
    BY <2>1 DEF NumberInv, CursorInv, ArrivedInv, Claiming, Filling, Writing
  <2>3. acked + 1 \in Nat /\ acked + 1 >= 1 /\ (acked + 1) + 1 = acked + 2
    BY RecvNumbers
  <2>4. NextFrame(FrameOf(acked + 1)) = FrameOf(acked + 2)
    BY <2>3, FrameOfNext
  <2> QED BY <2>1, <2>2, <2>4 DEF ArrivedInv
<1>7. CASE RLoad \/ RStoreFetch \/ RStoreInsert \/ RBusy \/ RFrame \/ RData
  <2>1. /\ UNCHANGED <<togetframe, rmsg, acked>>
        /\ Claiming \/ Filling
        /\ Claiming' \/ Filling'
        /\ rpc' # "window"
    BY <1>7 DEF RLoad, RStoreFetch, RStoreInsert, RBusy, RFrame, RData, Claiming, Filling, Writing
  <2> QED BY <2>1 DEF NumberInv, CursorInv, ArrivedInv
<1>8. CASE RAck
  <2>1. /\ Filling /\ rpc' = "idle" /\ acked' = rmsg /\ togetframe' = togetframe
    BY <1>8 DEF RAck, Filling, Writing
  <2>2. rmsg = acked + 1 /\ togetframe = FrameOf(acked + 2)
    BY <2>1 DEF NumberInv, CursorInv, ArrivedInv
  <2>3. acked + 2 = (acked + 1) + 1
    BY RecvNumbers
  <2> QED BY <2>1, <2>2, <2>3 DEF ArrivedInv, Claiming, Filling, Writing
<1> QED BY <1>3, <1>4, <1>5, <1>6, <1>7, <1>8

\* The numbers are in step throughout.
LEMMA NumbersHold == Spec => [](TypeInv /\ NumberInv)
<1>1. Init => TypeInv /\ NumberInv
  BY TypesAtFirst, RecvAtFirst DEF RecvInv
<1>2. TypeInv /\ NumberInv /\ [Next]_vars => NumberInv'
  <2> SUFFICES ASSUME TypeInv, NumberInv, [Next]_vars PROVE NumberInv'
    OBVIOUS
  <2>1. CASE UNCHANGED vars
    BY <2>1 DEF vars, user, receiver, NumberInv, CursorInv, ArrivedInv, Claiming, Filling, Writing,
       Counting, Got
  <2> QED BY <2>1, NumbersUser, NumbersReceiver DEF Next
<1> QED BY <1>1, <1>2, TypesStep, PTL DEF Spec

\* togetframe numbers the message after the last one acknowledged, readframe
\* the one after the last one read, with R outside of the lock as in the code:
\* a race can damage the counters and the slots, not the numbering.
THEOREM RecvNumbersInStep == Spec => []NumbersInStep
<1>1. NumberInv => NumbersInStep
  BY DEF NumberInv, CursorInv, NumbersInStep, Claiming, Filling, Writing, Counting, Got
<1> QED BY <1>1, NumbersHold, PTL

(***************************************************************************)
(* m_recvfrom.                                                             *)
(***************************************************************************)

\* Looking for the slot changes nothing.
LEMMA RecvSearch ==
  ASSUME RecvInv, UserEnter \/ UserSkip
  PROVE  RecvInv'
<1> USE DEF slots, counters, user, receiver
<1>1. TypeInv /\ TypeInv' /\ NumberInv'
  BY TypesUser, NumbersUser DEF RecvInv
<1>2. /\ upc \in {"idle", "scan"} /\ upc' \in {"idle", "scan"}
      /\ UNCHANGED <<isbusy, frame, data, insertsize, fetchsize, rpc, rj, rtmp, rmsg, acked,
                     delivered>>
  BY DEF UserEnter, UserSkip
<1>3. /\ ~ Holding /\ ~ Holding' /\ Holding' = Holding /\ Reading' = Reading
      /\ Counting' = Counting /\ Got' = Got
  BY <1>2 DEF Holding, Reading, Counting, Got
<1>4. /\ Claiming' = Claiming /\ Writing' = Writing /\ Filling' = Filling
      /\ Counted' = Counted /\ Taken' = Taken /\ InBuffer' = InBuffer
  BY UserAlone
<1>5. \A j \in Slot : Stored(j)' <=> Stored(j)
  BY <1>2, <1>3, <1>4 DEF Stored
<1>6. ContentsInv'
  BY <1>2, <1>4, <1>5, ContentsKept DEF RecvInv
<1>7. SizeInv' /\ RoomInv'
  BY <1>2, <1>3, <1>4, SizesKept DEF RecvInv
<1>8. CopyInv' /\ HandsInv'
  BY <1>2, <1>3, <1>4 DEF RecvInv, CopyInv, HandsInv
<1> QED BY <1>1, <1>6, <1>7, <1>8 DEF RecvInv

\* The payload the user copies is the next message: R has not marked the slot,
\* or has filled it.
LEMMA RecvCopy ==
  ASSUME RecvInv, ~ StaleRace', UserCopy
  PROVE  RecvInv' /\ delivered' = Append(delivered, Got + 1) /\ Got < InBuffer
         /\ InBuffer' = InBuffer
<1> USE DEF slots, counters, user, receiver
<1>1. TypeInv /\ TypeInv' /\ NumberInv'
  BY TypesUser, NumbersUser DEF RecvInv
<1>2. /\ upc = "scan" /\ Wanted(uj) /\ upc' = "fload"
      /\ delivered' = Append(delivered, data[uj])
      /\ UNCHANGED <<isbusy, frame, data, insertsize, fetchsize, togetframe, readframe,
                     uj, utmp, rpc, rj, rtmp, rmsg, acked>>
  BY DEF UserCopy
<1>3. /\ ~ Holding /\ ~ Reading /\ ~ Counting /\ Holding' /\ Reading' /\ Counting'
      /\ Busy' = Busy
  BY <1>2 DEF Holding, Reading, Counting, Busy
<1>4. /\ Claiming' = Claiming /\ Writing' = Writing /\ Filling' = Filling
      /\ Counted' = Counted /\ Taken' = Taken /\ InBuffer' = InBuffer
  BY UserAlone
<1>5. Writing => uj # rj
  <2>1. ASSUME rpc = "frame" PROVE uj # rj
    <3>1. rj \in Slot /\ readframe \in Frame
      BY <1>1, RecvTypes DEF TypeInv, TypeOK
    <3>2. frame[rj] = 0
      BY <1>2, <2>1, <3>1 DEF RecvInv, HandsInv
    <3>3. frame[uj] # 0
      BY <1>2, <3>1, FrameAssumption DEF Wanted, Frame
    <3> QED BY <3>2, <3>3
  <2>2. ASSUME rpc = "data" PROVE uj # rj
    BY <1>2, <2>2 DEF StaleRace
  <2> QED BY <2>1, <2>2 DEF Writing
<1>6. Stored(uj) /\ data[uj] = Got + 1 /\ uj \in Slot
  BY <1>1, <1>2, <1>5, RecvTypes, WantedNext
<1>7. Got + 1 \in (Got + 1)..InBuffer
  BY <1>6 DEF RecvInv, ContentsInv
<1>8. delivered' = Append(delivered, Got + 1) /\ Got' = Got + 1 /\ Got < InBuffer
      /\ Got' \in Nat
  BY <1>1, <1>2, <1>6, <1>7, RecvTypes, RecvNumbers DEF Got
<1>9. \A j \in Slot : Stored(j)' <=> Stored(j) /\ j # uj
  BY <1>2, <1>3, <1>4 DEF Stored
<1>10. ContentsInv'
  <2>1. Got' <= InBuffer'
    BY <1>1, <1>4, <1>8, RecvNumbers
  <2>2. ASSUME NEW k \in DOMAIN delivered'
        PROVE  delivered'[k] = k
    <3>1. k \in 1..(Got + 1) /\ DOMAIN delivered = 1..Got
      BY <1>1, <1>8, RecvTypes DEF Got
    <3>2. CASE k = Got + 1
      BY <1>1, <1>8, <3>2, RecvTypes DEF Got
    <3>3. CASE k \in 1..Got
      <4>1. delivered'[k] = delivered[k]
        BY <1>1, <1>8, <3>3, RecvTypes DEF Got
      <4> QED BY <3>1, <3>3, <4>1 DEF RecvInv, ContentsInv
    <3> QED BY <1>1, <3>1, <3>2, <3>3, RecvTypes
  <2>3. ASSUME NEW j \in Slot, Stored(j)'
        PROVE  data'[j] \in (Got' + 1)..InBuffer' /\ frame'[j] = FrameOf(data'[j])
    <3>1. Stored(j) /\ j # uj
      BY <1>9, <2>3
    <3>2. data[j] \in (Got + 1)..InBuffer /\ frame[j] = FrameOf(data[j])
      BY <3>1 DEF RecvInv, ContentsInv
    <3>3. data[j] # Got + 1
      BY <1>6, <3>1 DEF RecvInv, ContentsInv
    <3>4. data[j] \in (Got' + 1)..InBuffer
      BY <1>1, <1>8, <3>2, <3>3, RecvNumbers
    <3> QED BY <1>2, <1>4, <3>2, <3>4
  <2>4. ASSUME NEW n \in (Got' + 1)..InBuffer'
        PROVE  \E j \in Slot : Stored(j)' /\ data'[j] = n
    <3>1. n \in (Got + 1)..InBuffer /\ n # Got + 1
      BY <1>1, <1>4, <1>8, RecvNumbers
    <3>2. PICK j \in Slot : Stored(j) /\ data[j] = n
      BY <3>1 DEF RecvInv, ContentsInv
    <3> QED BY <1>2, <1>6, <1>9, <3>1, <3>2
  <2>5. ASSUME NEW i \in Slot, NEW j \in Slot, Stored(i)', Stored(j)', data'[i] = data'[j]
        PROVE  i = j
    BY <1>2, <1>9, <2>5 DEF RecvInv, ContentsInv
  <2> QED BY <2>1, <2>2, <2>3, <2>4, <2>5 DEF ContentsInv
<1>11. SizeInv' /\ RoomInv'
  <2>1. /\ Pending(Holding) = 0 /\ Pending(Reading) = 0 /\ Pending(Counting) = 0
        /\ Pending(Holding)' = 1 /\ Pending(Reading)' = 1 /\ Pending(Counting)' = 1
        /\ Pending(Filling)' = Pending(Filling) /\ Pending(Counted)' = Pending(Counted)
        /\ Pending(Taken)' = Pending(Taken)
        /\ Pending(Filling) \in 0..1 /\ Pending(Counted) \in 0..1 /\ Pending(Taken) \in 0..1
    BY <1>3, <1>4 DEF Pending
  <2>2. acked' = acked /\ fetchsize' = fetchsize /\ insertsize' = insertsize /\ rpc' = rpc
    BY <1>2
  <2>3. SizeInv'
    <3>1. acked - Got = acked' - Got' + 1
      BY <1>1, <1>8, <2>2, RecvNumbers
    <3>2. acked' - Got' \in Int
      BY <1>1, <1>8, <2>2, RecvNumbers
    <3>3. Cardinality(Busy)' = acked' - Got' + 1 + Pending(Filling)
      BY <1>3, <2>1, <3>1, <3>2 DEF RecvInv, SizeInv
    <3>4. fetchsize' = acked' - Got' + 1 + Pending(Counted)
      BY <2>1, <2>2, <3>1, <3>2 DEF RecvInv, SizeInv
    <3>5. insertsize' = Buf - (acked' - Got') - 1 - Pending(Taken)
      BY <1>1, <2>1, <2>2, <3>1, <3>2, RecvNumbers DEF RecvInv, SizeInv
    <3> QED BY <2>1, <3>3, <3>4, <3>5 DEF SizeInv
  <2>4. RoomInv'
    BY <1>1, <1>8, <2>1, <2>2, RecvNumbers DEF RecvInv, RoomInv
  <2> QED BY <2>3, <2>4
<1>12. HandsInv'
  BY <1>2, <1>4, <1>5, <1>6 DEF RecvInv, HandsInv, Stored
<1>13. CopyInv'
  BY <1>2 DEF RecvInv, CopyInv
<1> QED BY <1>1, <1>4, <1>8, <1>10, <1>11, <1>12, <1>13 DEF RecvInv

\* The loads of m_recvfrom copy the counters as they are.
LEMMA RecvUserLoad ==
  ASSUME RecvInv, UserLoad
  PROVE  RecvInv'
<1> USE DEF slots, counters, user, receiver
<1>1. TypeInv /\ TypeInv' /\ NumberInv'
  BY TypesUser, NumbersUser DEF RecvInv
<1>2. /\ \/ upc = "fload" /\ utmp' = fetchsize /\ upc' = "fstore"
         \/ upc = "iload" /\ utmp' = insertsize /\ upc' = "istore"
      /\ UNCHANGED <<isbusy, frame, data, insertsize, fetchsize, uj, rpc, rj, rtmp, rmsg,
                     acked, delivered>>
  BY DEF UserLoad
<1>3. /\ Holding /\ Holding' /\ Reading /\ Reading' /\ Counting' = Counting /\ Got' = Got
  BY <1>2 DEF Holding, Reading, Counting, Got
<1>4. /\ Claiming' = Claiming /\ Writing' = Writing /\ Filling' = Filling
      /\ Counted' = Counted /\ Taken' = Taken /\ InBuffer' = InBuffer
  BY UserAlone
<1>5. \A j \in Slot : Stored(j)' <=> Stored(j)
  BY <1>2, <1>3, <1>4 DEF Stored
<1>6. ContentsInv'
  BY <1>2, <1>4, <1>5, ContentsKept DEF RecvInv
<1>7. SizeInv' /\ RoomInv'
  BY <1>2, <1>3, <1>4, SizesKept DEF RecvInv
<1>8. CopyInv' /\ HandsInv'
  BY <1>2, <1>3, <1>4 DEF RecvInv, CopyInv, HandsInv
<1> QED BY <1>1, <1>6, <1>7, <1>8 DEF RecvInv

\* fetchsize counts one message less; R has no copy of it to store.
LEMMA RecvUserFetch ==
  ASSUME RecvInv, ~ FetchRace, UserStoreFetch
  PROVE  RecvInv'
<1> USE DEF slots, counters, user, receiver
<1>1. TypeInv /\ TypeInv' /\ NumberInv'
  BY TypesUser, NumbersUser DEF RecvInv
<1>2. /\ upc = "fstore" /\ fetchsize' = utmp - 1 /\ upc' = "iload" /\ rpc # "fstore"
      /\ UNCHANGED <<isbusy, frame, data, insertsize, uj, utmp, rpc, rj, rtmp, rmsg, acked,
                     delivered>>
  BY DEF UserStoreFetch, FetchRace
<1>3. /\ Holding /\ Holding' /\ Reading /\ Reading' /\ Counting /\ ~ Counting'
      /\ Got' = Got /\ Busy' = Busy
  BY <1>2 DEF Holding, Reading, Counting, Got, Busy
<1>4. /\ Claiming' = Claiming /\ Writing' = Writing /\ Filling' = Filling
      /\ Counted' = Counted /\ Taken' = Taken /\ InBuffer' = InBuffer
  BY UserAlone
<1>5. \A j \in Slot : Stored(j)' <=> Stored(j)
  BY <1>2, <1>3, <1>4 DEF Stored
<1>6. ContentsInv'
  BY <1>2, <1>4, <1>5, ContentsKept DEF RecvInv
<1>7. SizeInv' /\ RoomInv'
  <2>1. /\ Pending(Counting) = 1 /\ Pending(Counting)' = 0
        /\ Pending(Holding)' = Pending(Holding) /\ Pending(Reading)' = Pending(Reading)
        /\ Pending(Filling)' = Pending(Filling) /\ Pending(Counted)' = Pending(Counted)
        /\ Pending(Taken)' = Pending(Taken) /\ Pending(Counted) \in 0..1
    BY <1>3, <1>4 DEF Pending
  <2>2. fetchsize' = acked' - Got' + Pending(Counting)' + Pending(Counted)'
    <3>1. fetchsize = acked - Got + Pending(Counting) + Pending(Counted) /\ utmp = fetchsize
      BY <1>2 DEF RecvInv, SizeInv, CopyInv
    <3>2. fetchsize' = fetchsize - 1 /\ acked' = acked
      BY <1>2, <3>1
    <3> QED BY <1>1, <1>3, <2>1, <3>1, <3>2, RecvNumbers
  <2> QED BY <1>2, <1>3, <2>1, <2>2 DEF RecvInv, SizeInv, RoomInv
<1>8. CopyInv' /\ HandsInv'
  BY <1>2, <1>3, <1>4 DEF RecvInv, CopyInv, HandsInv
<1> QED BY <1>1, <1>6, <1>7, <1>8 DEF RecvInv

\* insertsize gets the room of the message; R has no copy of it to store.
LEMMA RecvUserInsert ==
  ASSUME RecvInv, ~ InsertRace, UserStoreInsert
  PROVE  RecvInv'
<1> USE DEF slots, counters, user, receiver
<1>1. TypeInv /\ TypeInv' /\ NumberInv'
  BY TypesUser, NumbersUser DEF RecvInv
<1>2. /\ upc = "istore" /\ insertsize' = utmp + 1 /\ upc' = "busy" /\ rpc # "istore"
      /\ UNCHANGED <<isbusy, frame, data, fetchsize, uj, utmp, rpc, rj, rtmp, rmsg, acked,
                     delivered>>
  BY DEF UserStoreInsert, InsertRace
<1>3. /\ Holding /\ Holding' /\ Reading /\ ~ Reading' /\ ~ Counting /\ ~ Counting'
      /\ Got' = Got /\ Busy' = Busy
  BY <1>2 DEF Holding, Reading, Counting, Got, Busy
<1>4. /\ Claiming' = Claiming /\ Writing' = Writing /\ Filling' = Filling
      /\ Counted' = Counted /\ Taken' = Taken /\ InBuffer' = InBuffer
  BY UserAlone
<1>5. \A j \in Slot : Stored(j)' <=> Stored(j)
  BY <1>2, <1>3, <1>4 DEF Stored
<1>6. ContentsInv'
  BY <1>2, <1>4, <1>5, ContentsKept DEF RecvInv
<1>7. SizeInv' /\ RoomInv'
  <2>1. /\ Pending(Reading) = 1 /\ Pending(Reading)' = 0
        /\ Pending(Holding)' = Pending(Holding) /\ Pending(Counting)' = Pending(Counting)
        /\ Pending(Filling)' = Pending(Filling) /\ Pending(Counted)' = Pending(Counted)
        /\ Pending(Taken)' = Pending(Taken) /\ Pending(Taken) \in 0..1
    BY <1>3, <1>4 DEF Pending
  <2>2. insertsize' = Buf - (acked' - Got') - Pending(Reading)' - Pending(Taken)'
    <3>1. insertsize = Buf - (acked - Got) - Pending(Reading) - Pending(Taken)
          /\ utmp = insertsize
      BY <1>2 DEF RecvInv, SizeInv, CopyInv
    <3>2. insertsize' = insertsize + 1 /\ acked' = acked
      BY <1>2, <3>1
    <3> QED BY <1>1, <1>3, <2>1, <3>1, <3>2, RecvNumbers
  <2>3. SizeInv'
    BY <1>2, <1>3, <2>1, <2>2 DEF RecvInv, SizeInv
  <2>4. acked' = acked /\ rpc' = rpc
    BY <1>2
  <2>5. /\ acked - Got + 1 <= Buf
        /\ rpc # "idle" => acked - Got + 1 < Buf
    BY <2>1 DEF RecvInv, RoomInv
  <2>6. /\ acked' - Got' + 0 <= Buf
        /\ rpc' # "idle" => acked' - Got' + 0 < Buf
    BY <1>1, <1>3, <2>4, <2>5, RecvNumbers
  <2>7. RoomInv'
    BY <2>1, <2>6 DEF RoomInv
  <2> QED BY <2>3, <2>7
<1>8. CopyInv' /\ HandsInv'
  BY <1>2, <1>3, <1>4 DEF RecvInv, CopyInv, HandsInv
<1> QED BY <1>1, <1>6, <1>7, <1>8 DEF RecvInv

\* The slot of the message read is idle again: it is not the one R writes to.
LEMMA RecvRelease ==
  ASSUME RecvInv, UserRelease
  PROVE  RecvInv'
<1> USE DEF slots, counters, user, receiver
<1>1. TypeInv /\ TypeInv' /\ NumberInv'
  BY TypesUser, NumbersUser DEF RecvInv
<1>2. /\ upc = "busy" /\ isbusy' = [isbusy EXCEPT ![uj] = 0] /\ upc' = "frame"
      /\ UNCHANGED <<frame, data, insertsize, fetchsize, uj, utmp, rpc, rj, rtmp, rmsg, acked,
                     delivered>>
  BY DEF UserRelease
<1>3. /\ Holding /\ ~ Holding' /\ ~ Reading /\ ~ Reading' /\ ~ Counting /\ ~ Counting'
      /\ Got' = Got
  BY <1>2 DEF Holding, Reading, Counting, Got
<1>4. /\ Claiming' = Claiming /\ Writing' = Writing /\ Filling' = Filling
      /\ Counted' = Counted /\ Taken' = Taken /\ InBuffer' = InBuffer
  BY UserAlone
<1>5. /\ isbusy[uj] = 1 /\ uj \in Slot /\ rj \in Slot /\ isbusy \in [Slot -> {0, 1}]
      /\ (Writing => uj # rj)
  BY <1>1, <1>3, RecvTypes DEF RecvInv, HandsInv
<1>6. \A j \in Slot : isbusy'[j] = IF j = uj THEN 0 ELSE isbusy[j]
  BY <1>2, <1>5
<1>7. \A j \in Slot : Stored(j)' <=> Stored(j)
  BY <1>2, <1>3, <1>4, <1>6 DEF Stored
<1>8. ContentsInv'
  BY <1>2, <1>4, <1>7, ContentsKept DEF RecvInv
<1>9. Busy' = Busy \ {uj} /\ uj \in Busy
  BY <1>5, <1>6 DEF Busy
<1>10. Cardinality(Busy') = Cardinality(Busy) - 1
  BY <1>1, <1>9, RecvTypes, FS_RemoveElement
<1>11. SizeInv' /\ RoomInv'
  <2>1. /\ Pending(Holding) = 1 /\ Pending(Holding)' = 0
        /\ Pending(Reading)' = Pending(Reading) /\ Pending(Counting)' = Pending(Counting)
        /\ Pending(Filling)' = Pending(Filling) /\ Pending(Counted)' = Pending(Counted)
        /\ Pending(Taken)' = Pending(Taken) /\ Pending(Filling) \in 0..1
    BY <1>3, <1>4 DEF Pending
  <2>2. Cardinality(Busy') = acked' - Got' + Pending(Holding)' + Pending(Filling)'
    <3>1. Cardinality(Busy) = acked - Got + Pending(Holding) + Pending(Filling)
          /\ acked' = acked
      BY <1>2 DEF RecvInv, SizeInv
    <3> QED BY <1>1, <1>3, <1>10, <2>1, <3>1, RecvNumbers
  <2> QED BY <1>2, <1>3, <2>1, <2>2 DEF RecvInv, SizeInv, RoomInv
<1>12. HandsInv'
  <2>1. /\ Claiming' => isbusy'[rj'] = 0
        /\ Writing' => isbusy'[rj'] = 1
    BY <1>2, <1>4, <1>5, <1>6 DEF RecvInv, HandsInv
  <2>2. isbusy'[uj'] # 1
    BY <1>2, <1>5, <1>6
  <2>3. ASSUME NEW j \in Slot, isbusy'[j] = 0 \/ (rpc' = "frame" /\ j = rj')
        PROVE  frame'[j] = 0 \/ (upc' = "frame" /\ j = uj')
    BY <1>2, <1>5, <1>6, <2>3 DEF RecvInv, HandsInv
  <2> QED BY <1>2, <1>3, <2>1, <2>2, <2>3 DEF RecvInv, HandsInv
<1>13. CopyInv'
  BY <1>2 DEF RecvInv, CopyInv
<1> QED BY <1>1, <1>8, <1>11, <1>12, <1>13 DEF RecvInv

\* Only a slot without a message loses its frame number, and no number that R
\* has written.
LEMMA RecvUserClear ==
  ASSUME RecvInv, ~ EraseRace, UserClear
  PROVE  RecvInv'
<1> USE DEF slots, counters, user, receiver
<1>1. TypeInv /\ TypeInv' /\ NumberInv'
  BY TypesUser, NumbersUser DEF RecvInv
<1>2. /\ upc = "frame" /\ frame' = [frame EXCEPT ![uj] = 0] /\ upc' = "idle"
      /\ UNCHANGED <<isbusy, data, insertsize, fetchsize, rpc, rj, rtmp, rmsg, acked,
                     delivered>>
  BY DEF UserClear
<1>3. /\ ~ Holding /\ ~ Holding' /\ Holding' = Holding /\ Reading' = Reading
      /\ Counting' = Counting /\ Got' = Got
  BY <1>2 DEF Holding, Reading, Counting, Got
<1>4. /\ Claiming' = Claiming /\ Writing' = Writing /\ Filling' = Filling
      /\ Counted' = Counted /\ Taken' = Taken /\ InBuffer' = InBuffer
  BY UserAlone
<1>5. uj \in Slot /\ rj \in Slot /\ frame \in [Slot -> Frame \cup {0}]
  BY <1>1, RecvTypes
<1>6. \A j \in Slot : frame'[j] = IF j = uj THEN 0 ELSE frame[j]
  BY <1>2, <1>5
<1>7. ~ Stored(uj)
  BY <1>2 DEF RecvInv, HandsInv, Stored, Writing
<1>8. \A j \in Slot : (Stored(j)' <=> Stored(j)) /\ (Stored(j) => frame'[j] = frame[j])
  BY <1>2, <1>3, <1>4, <1>6, <1>7 DEF Stored
<1>9. ContentsInv'
  BY <1>2, <1>4, <1>8, ContentsKept DEF RecvInv
<1>10. SizeInv' /\ RoomInv'
  BY <1>2, <1>3, <1>4, SizesKept DEF RecvInv
<1>11. HandsInv'
  <2>1. ASSUME rpc = "data" PROVE frame'[rj] = FrameOf(rmsg)
    <3>1. uj # rj
      BY <1>2, <2>1 DEF EraseRace
    <3> QED BY <1>5, <1>6, <2>1, <3>1 DEF RecvInv, HandsInv
  <2>2. ASSUME NEW j \in Slot, isbusy'[j] = 0 \/ (rpc' = "frame" /\ j = rj')
        PROVE  frame'[j] = 0
    BY <1>2, <1>6, <2>2 DEF RecvInv, HandsInv
  <2> QED BY <1>2, <1>3, <1>4, <2>1, <2>2 DEF RecvInv, HandsInv
<1>12. CopyInv'
  BY <1>2 DEF RecvInv, CopyInv
<1> QED BY <1>1, <1>9, <1>10, <1>11, <1>12 DEF RecvInv

(***************************************************************************)
(* The R thread.                                                           *)
(***************************************************************************)

\* Past the test of insertsize there is room, and the user, who is at most one
\* message ahead of the counters, only makes more.
LEMMA RecvArrive ==
  ASSUME RecvInv, NEW n \in 1..MsgLimit, RArrive(n)
  PROVE  RecvInv'
<1> USE DEF slots, counters, user, receiver
<1>1. TypeInv /\ TypeInv' /\ NumberInv'
  BY TypesReceiver, NumbersReceiver DEF RecvInv
<1>2. /\ rpc = "idle" /\ insertsize # 0 /\ rpc' = "window"
      /\ UNCHANGED <<isbusy, frame, data, insertsize, fetchsize, uj, utmp, upc, rj, rtmp, acked,
                     delivered>>
  BY DEF RArrive
<1>3. /\ ~ Claiming /\ ~ Claiming' /\ ~ Writing /\ ~ Writing' /\ Filling' = Filling
      /\ Counted' = Counted /\ Taken' = Taken /\ InBuffer' = InBuffer
  BY <1>2 DEF Claiming, Writing, Filling, Counted, Taken, InBuffer
<1>4. Counting' = Counting /\ Reading' = Reading /\ Holding' = Holding /\ Got' = Got
  BY ReceiverAlone
<1>5. \A j \in Slot : Stored(j)' <=> Stored(j)
  BY <1>2, <1>3, <1>4 DEF Stored
<1>6. ContentsInv'
  BY <1>2, <1>3, <1>5, ContentsKept DEF RecvInv
<1>7. SizeInv'
  BY <1>2, <1>3, <1>4, SizesKept DEF RecvInv
<1>8. RoomInv'
  <2>1. Pending(Taken) = 0 /\ Pending(Reading) \in 0..1 /\ Pending(Reading)' = Pending(Reading)
    BY <1>2, <1>4 DEF Taken, Filling, Writing, Pending
  <2>2. acked - Got + Pending(Reading) <= Buf
        /\ insertsize = Buf - (acked - Got) - Pending(Reading) - 0
    BY <2>1 DEF RecvInv, RoomInv, SizeInv
  <2>3. acked - Got + Pending(Reading) < Buf
    BY <1>1, <1>2, <2>1, <2>2, RecvNumbers
  <2>4. acked' = acked
    BY <1>2
  <2> QED BY <1>4, <2>1, <2>2, <2>3, <2>4 DEF RoomInv
<1>9. CopyInv' /\ HandsInv'
  BY <1>2, <1>3, <1>4 DEF RecvInv, CopyInv, HandsInv
<1> QED BY <1>1, <1>6, <1>7, <1>8, <1>9 DEF RecvInv

\* Looking at the frame number and at the slots changes nothing.
LEMMA RecvLook ==
  ASSUME RecvInv, RWindow \/ RSkip
  PROVE  RecvInv'
<1> USE DEF slots, counters, user, receiver
<1>1. TypeInv /\ TypeInv' /\ NumberInv'
  BY TypesReceiver, NumbersReceiver DEF RecvInv
<1>2. /\ rpc \in {"window", "scan"} /\ rpc' \in {"idle", "scan"}
      /\ UNCHANGED <<isbusy, frame, data, insertsize, fetchsize, uj, utmp, upc, rmsg, acked,
                     delivered>>
  BY DEF RWindow, RSkip
<1>3. /\ ~ Claiming /\ ~ Claiming' /\ ~ Writing /\ ~ Writing' /\ Filling' = Filling
      /\ Counted' = Counted /\ Taken' = Taken /\ InBuffer' = InBuffer
  BY <1>2 DEF Claiming, Writing, Filling, Counted, Taken, InBuffer
<1>4. Counting' = Counting /\ Reading' = Reading /\ Holding' = Holding /\ Got' = Got
  BY ReceiverAlone
<1>5. \A j \in Slot : Stored(j)' <=> Stored(j)
  BY <1>2, <1>3, <1>4 DEF Stored
<1>6. ContentsInv'
  BY <1>2, <1>3, <1>5, ContentsKept DEF RecvInv
<1>7. SizeInv' /\ RoomInv'
  BY <1>2, <1>3, <1>4, SizesKept DEF RecvInv
<1>8. CopyInv' /\ HandsInv'
  BY <1>2, <1>3, <1>4 DEF RecvInv, CopyInv, HandsInv
<1> QED BY <1>1, <1>6, <1>7, <1>8 DEF RecvInv

\* R works on an idle slot, unless it takes slot 0 for want of one.
LEMMA RecvFound ==
  ASSUME RecvInv, ~ FullRace', RFound
  PROVE  RecvInv'
<1> USE DEF slots, counters, user, receiver
<1>1. TypeInv /\ TypeInv' /\ NumberInv'
  BY TypesReceiver, NumbersReceiver DEF RecvInv
<1>2. /\ rpc = "scan" /\ rpc' = "fload"
      /\ UNCHANGED <<isbusy, frame, data, insertsize, fetchsize, uj, utmp, upc, rmsg, acked,
                     delivered>>
  BY DEF RFound
<1>3. /\ ~ Writing /\ ~ Writing' /\ Filling' = Filling
      /\ Counted' = Counted /\ Taken' = Taken /\ InBuffer' = InBuffer
  BY <1>2 DEF Writing, Filling, Counted, Taken, InBuffer
<1>4. Counting' = Counting /\ Reading' = Reading /\ Holding' = Holding /\ Got' = Got
  BY ReceiverAlone
<1>5. \A j \in Slot : Stored(j)' <=> Stored(j)
  BY <1>2, <1>3, <1>4 DEF Stored
<1>6. ContentsInv'
  BY <1>2, <1>3, <1>5, ContentsKept DEF RecvInv
<1>7. SizeInv' /\ RoomInv'
  BY <1>2, <1>3, <1>4, SizesKept DEF RecvInv
<1>8. isbusy'[rj'] = 0
  <2>1. isbusy'[rj'] # 1
    BY <1>2 DEF FullRace
  <2>2. isbusy'[rj'] \in {0, 1}
    BY <1>1 DEF TypeInv, TypeOK
  <2> QED BY <2>1, <2>2
<1>9. CopyInv' /\ HandsInv'
  BY <1>2, <1>3, <1>4, <1>8 DEF RecvInv, CopyInv, HandsInv
<1> QED BY <1>1, <1>6, <1>7, <1>9 DEF RecvInv

\* The loads of R copy the counters as they are.
LEMMA RecvLoad ==
  ASSUME RecvInv, RLoad
  PROVE  RecvInv'
<1> USE DEF slots, counters, user, receiver
<1>1. TypeInv /\ TypeInv' /\ NumberInv'
  BY TypesReceiver, NumbersReceiver DEF RecvInv
<1>2. /\ \/ rpc = "fload" /\ rtmp' = fetchsize /\ rpc' = "fstore"
         \/ rpc = "iload" /\ rtmp' = insertsize /\ rpc' = "istore"
      /\ UNCHANGED <<isbusy, frame, data, insertsize, fetchsize, uj, utmp, upc, rj, rmsg, acked,
                     delivered>>
  BY DEF RLoad
<1>3. /\ Claiming /\ Claiming' /\ ~ Writing /\ ~ Writing' /\ Filling' = Filling
      /\ Counted' = Counted /\ Taken' = Taken /\ InBuffer' = InBuffer
  BY <1>2 DEF Claiming, Writing, Filling, Counted, Taken, InBuffer
<1>4. Counting' = Counting /\ Reading' = Reading /\ Holding' = Holding /\ Got' = Got
  BY ReceiverAlone
<1>5. \A j \in Slot : Stored(j)' <=> Stored(j)
  BY <1>2, <1>3, <1>4 DEF Stored
<1>6. ContentsInv'
  BY <1>2, <1>3, <1>5, ContentsKept DEF RecvInv
<1>7. SizeInv' /\ RoomInv'
  BY <1>2, <1>3, <1>4, SizesKept DEF RecvInv
<1>8. CopyInv' /\ HandsInv'
  BY <1>2, <1>3, <1>4 DEF RecvInv, CopyInv, HandsInv
<1> QED BY <1>1, <1>6, <1>7, <1>8 DEF RecvInv

\* fetchsize counts the message before its slot holds it; the user has no copy
\* of it to store.
LEMMA RecvStoreFetch ==
  ASSUME RecvInv, ~ FetchRace, RStoreFetch
  PROVE  RecvInv'
<1> USE DEF slots, counters, user, receiver
<1>1. TypeInv /\ TypeInv' /\ NumberInv'
  BY TypesReceiver, NumbersReceiver DEF RecvInv
<1>2. /\ rpc = "fstore" /\ fetchsize' = rtmp + 1 /\ rpc' = "iload" /\ upc # "fstore"
      /\ UNCHANGED <<isbusy, frame, data, insertsize, uj, utmp, upc, rj, rtmp, rmsg, acked,
                     delivered>>
  BY DEF RStoreFetch, FetchRace
<1>3. /\ Claiming /\ Claiming' /\ ~ Writing /\ ~ Writing' /\ Filling' = Filling
      /\ ~ Counted /\ Counted' /\ Taken' = Taken /\ InBuffer' = InBuffer
  BY <1>2 DEF Claiming, Writing, Filling, Counted, Taken, InBuffer
<1>4. Counting' = Counting /\ Reading' = Reading /\ Holding' = Holding /\ Got' = Got
  BY ReceiverAlone
<1>5. \A j \in Slot : Stored(j)' <=> Stored(j)
  BY <1>2, <1>3, <1>4 DEF Stored
<1>6. ContentsInv'
  BY <1>2, <1>3, <1>5, ContentsKept DEF RecvInv
<1>7. SizeInv' /\ RoomInv'
  <2>1. /\ Pending(Counted) = 0 /\ Pending(Counted)' = 1
        /\ Pending(Holding)' = Pending(Holding) /\ Pending(Reading)' = Pending(Reading)
        /\ Pending(Counting)' = Pending(Counting) /\ Pending(Filling)' = Pending(Filling)
        /\ Pending(Taken)' = Pending(Taken) /\ Pending(Counting) \in 0..1
    BY <1>3, <1>4 DEF Pending
  <2>2. fetchsize' = acked' - Got' + Pending(Counting)' + Pending(Counted)'
    <3>1. fetchsize = acked - Got + Pending(Counting) + 0 /\ rtmp = fetchsize
      BY <1>2, <2>1 DEF RecvInv, SizeInv, CopyInv
    <3>2. fetchsize' = fetchsize + 1 /\ acked' = acked
      BY <1>2, <3>1
    <3> QED BY <1>1, <1>4, <2>1, <3>1, <3>2, RecvNumbers
  <2>3. Busy' = Busy /\ acked' = acked /\ insertsize' = insertsize
    BY <1>2 DEF Busy
  <2>4. SizeInv'
    BY <1>4, <2>1, <2>2, <2>3 DEF RecvInv, SizeInv
  <2>5. RoomInv'
    BY <1>2, <1>4, <2>1, <2>3 DEF RecvInv, RoomInv
  <2> QED BY <2>4, <2>5
<1>8. CopyInv' /\ HandsInv'
  BY <1>2, <1>3, <1>4 DEF RecvInv, CopyInv, HandsInv
<1> QED BY <1>1, <1>6, <1>7, <1>8 DEF RecvInv

\* insertsize gives the room of the message; the user has no copy of it to
\* store.
LEMMA RecvStoreInsert ==
  ASSUME RecvInv, ~ InsertRace, RStoreInsert
  PROVE  RecvInv'
<1> USE DEF slots, counters, user, receiver
<1>1. TypeInv /\ TypeInv' /\ NumberInv'
  BY TypesReceiver, NumbersReceiver DEF RecvInv
<1>2. /\ rpc = "istore" /\ insertsize' = rtmp - 1 /\ rpc' = "busy" /\ upc # "istore"
      /\ UNCHANGED <<isbusy, frame, data, fetchsize, uj, utmp, upc, rj, rtmp, rmsg, acked,
                     delivered>>
  BY DEF RStoreInsert, InsertRace
<1>3. /\ Claiming /\ Claiming' /\ ~ Writing /\ ~ Writing' /\ Filling' = Filling
      /\ Counted' = Counted /\ ~ Taken /\ Taken' /\ InBuffer' = InBuffer
  BY <1>2 DEF Claiming, Writing, Filling, Counted, Taken, InBuffer
<1>4. Counting' = Counting /\ Reading' = Reading /\ Holding' = Holding /\ Got' = Got
  BY ReceiverAlone
<1>5. \A j \in Slot : Stored(j)' <=> Stored(j)
  BY <1>2, <1>3, <1>4 DEF Stored
<1>6. ContentsInv'
  BY <1>2, <1>3, <1>5, ContentsKept DEF RecvInv
<1>7. SizeInv' /\ RoomInv'
  <2>1. /\ Pending(Taken) = 0 /\ Pending(Taken)' = 1
        /\ Pending(Holding)' = Pending(Holding) /\ Pending(Reading)' = Pending(Reading)
        /\ Pending(Counting)' = Pending(Counting) /\ Pending(Filling)' = Pending(Filling)
        /\ Pending(Counted)' = Pending(Counted) /\ Pending(Reading) \in 0..1
    BY <1>3, <1>4 DEF Pending
  <2>2. insertsize' = Buf - (acked' - Got') - Pending(Reading)' - Pending(Taken)'
    <3>1. insertsize = Buf - (acked - Got) - Pending(Reading) - 0 /\ rtmp = insertsize
      BY <1>2, <2>1 DEF RecvInv, SizeInv, CopyInv
    <3>2. insertsize' = insertsize - 1 /\ acked' = acked
      BY <1>2, <3>1
    <3> QED BY <1>1, <1>4, <2>1, <3>1, <3>2, RecvNumbers
  <2>3. Busy' = Busy /\ acked' = acked /\ fetchsize' = fetchsize
    BY <1>2 DEF Busy
  <2>4. SizeInv'
    BY <1>4, <2>1, <2>2, <2>3 DEF RecvInv, SizeInv
  <2>5. RoomInv'
    BY <1>2, <1>4, <2>1, <2>3 DEF RecvInv, RoomInv
  <2> QED BY <2>4, <2>5
<1>8. CopyInv' /\ HandsInv'
  BY <1>2, <1>3, <1>4 DEF RecvInv, CopyInv, HandsInv
<1> QED BY <1>1, <1>6, <1>7, <1>8 DEF RecvInv

\* The slot R marks was idle: no message is overwritten, and it is not the one
\* the user reads.
LEMMA RecvBusy ==
  ASSUME RecvInv, RBusy
  PROVE  RecvInv'
<1> USE DEF slots, counters, user, receiver
<1>1. TypeInv /\ TypeInv' /\ NumberInv'
  BY TypesReceiver, NumbersReceiver DEF RecvInv
<1>2. /\ rpc = "busy" /\ isbusy' = [isbusy EXCEPT ![rj] = 1] /\ rpc' = "frame"
      /\ UNCHANGED <<frame, data, insertsize, fetchsize, uj, utmp, upc, rj, rtmp, rmsg, acked,
                     delivered>>
  BY DEF RBusy
<1>3. /\ Claiming /\ ~ Claiming' /\ ~ Writing /\ Writing' /\ ~ Filling /\ Filling'
      /\ Counted' = Counted /\ Taken' = Taken /\ InBuffer' = InBuffer
  BY <1>2 DEF Claiming, Writing, Filling, Counted, Taken, InBuffer
<1>4. Counting' = Counting /\ Reading' = Reading /\ Holding' = Holding /\ Got' = Got
  BY ReceiverAlone
<1>5. isbusy[rj] = 0 /\ rj \in Slot /\ uj \in Slot /\ isbusy \in [Slot -> {0, 1}]
  BY <1>1, <1>3, RecvTypes DEF RecvInv, HandsInv
<1>6. \A j \in Slot : isbusy'[j] = IF j = rj THEN 1 ELSE isbusy[j]
  BY <1>2, <1>5
<1>7. \A j \in Slot : Stored(j)' <=> Stored(j)
  BY <1>2, <1>3, <1>4, <1>5, <1>6 DEF Stored
<1>8. ContentsInv'
  BY <1>2, <1>3, <1>7, ContentsKept DEF RecvInv
<1>9. Busy' = Busy \cup {rj} /\ rj \notin Busy
  BY <1>5, <1>6 DEF Busy
<1>10. Cardinality(Busy') = Cardinality(Busy) + 1
  BY <1>1, <1>9, RecvTypes, FS_AddElement
<1>11. SizeInv' /\ RoomInv'
  <2>1. /\ Pending(Filling) = 0 /\ Pending(Filling)' = 1
        /\ Pending(Holding)' = Pending(Holding) /\ Pending(Reading)' = Pending(Reading)
        /\ Pending(Counting)' = Pending(Counting) /\ Pending(Counted)' = Pending(Counted)
        /\ Pending(Taken)' = Pending(Taken) /\ Pending(Holding) \in 0..1
    BY <1>3, <1>4 DEF Pending
  <2>2. acked' = acked /\ fetchsize' = fetchsize /\ insertsize' = insertsize
    BY <1>2
  <2>3. Cardinality(Busy') = acked' - Got' + Pending(Holding)' + Pending(Filling)'
    <3>1. Cardinality(Busy) = acked - Got + Pending(Holding) + 0
      BY <2>1 DEF RecvInv, SizeInv
    <3> QED BY <1>1, <1>4, <1>10, <2>1, <2>2, <3>1, RecvNumbers
  <2>4. SizeInv'
    BY <1>4, <2>1, <2>2, <2>3 DEF RecvInv, SizeInv
  <2>5. RoomInv'
    BY <1>2, <1>4, <2>1, <2>2 DEF RecvInv, RoomInv
  <2> QED BY <2>4, <2>5
<1>12. HandsInv'
  <2>1. Holding' => isbusy'[uj'] = 1 /\ uj' # rj'
    BY <1>2, <1>4, <1>5, <1>6 DEF RecvInv, HandsInv
  <2>2. upc' = "frame" /\ isbusy'[uj'] = 1 => uj' = rj'
    BY <1>2, <1>5, <1>6 DEF RecvInv, HandsInv
  <2>3. ASSUME NEW j \in Slot, isbusy'[j] = 0 \/ (rpc' = "frame" /\ j = rj')
        PROVE  frame'[j] = 0 \/ (upc' = "frame" /\ j = uj')
    BY <1>2, <1>5, <1>6, <2>3 DEF RecvInv, HandsInv
  <2>4. isbusy'[rj'] = 1
    BY <1>2, <1>5, <1>6
  <2> QED BY <1>2, <1>3, <2>1, <2>2, <2>3, <2>4 DEF HandsInv
<1>13. CopyInv'
  BY <1>2 DEF RecvInv, CopyInv
<1> QED BY <1>1, <1>8, <1>11, <1>12, <1>13 DEF RecvInv

\* The frame number goes into the slot R has marked; the user is not about to
\* clear it.
LEMMA RecvFrame ==
  ASSUME RecvInv, ~ EraseRace', RFrame
  PROVE  RecvInv'
<1> USE DEF slots, counters, user, receiver
<1>1. TypeInv /\ TypeInv' /\ NumberInv'
  BY TypesReceiver, NumbersReceiver DEF RecvInv
<1>2. /\ rpc = "frame" /\ frame' = [frame EXCEPT ![rj] = FrameOf(rmsg)] /\ rpc' = "data"
      /\ UNCHANGED <<isbusy, data, insertsize, fetchsize, uj, utmp, upc, rj, rtmp, rmsg, acked,
                     delivered>>
  BY DEF RFrame
<1>3. /\ ~ Claiming /\ ~ Claiming' /\ Writing /\ Writing' /\ Filling' = Filling
      /\ Counted' = Counted /\ Taken' = Taken /\ InBuffer' = InBuffer
  BY <1>2 DEF Claiming, Writing, Filling, Counted, Taken, InBuffer
<1>4. Counting' = Counting /\ Reading' = Reading /\ Holding' = Holding /\ Got' = Got
  BY ReceiverAlone
<1>5. rj \in Slot /\ uj \in Slot /\ frame \in [Slot -> Frame \cup {0}]
  BY <1>1, RecvTypes
<1>6. \A j \in Slot : frame'[j] = IF j = rj THEN FrameOf(rmsg) ELSE frame[j]
  BY <1>2, <1>5
<1>7. \A j \in Slot : (Stored(j)' <=> Stored(j)) /\ (Stored(j) => frame'[j] = frame[j])
  BY <1>2, <1>3, <1>4, <1>6 DEF Stored
<1>8. ContentsInv'
  BY <1>2, <1>3, <1>7, ContentsKept DEF RecvInv
<1>9. SizeInv' /\ RoomInv'
  BY <1>2, <1>3, <1>4, SizesKept DEF RecvInv
<1>10. HandsInv'
  <2>1. upc = "frame" => uj # rj /\ isbusy[uj] # 1
    BY <1>2 DEF RecvInv, HandsInv, EraseRace
  <2>2. isbusy[rj] = 1
    BY <1>3 DEF RecvInv, HandsInv
  <2>3. ASSUME NEW j \in Slot, isbusy'[j] = 0
        PROVE  frame'[j] = 0 \/ (upc' = "frame" /\ j = uj')
    BY <1>2, <1>6, <2>2, <2>3 DEF RecvInv, HandsInv
  <2> QED BY <1>2, <1>3, <1>4, <1>5, <1>6, <2>1, <2>2, <2>3 DEF RecvInv, HandsInv
<1>11. CopyInv'
  BY <1>2 DEF RecvInv, CopyInv
<1> QED BY <1>1, <1>8, <1>9, <1>10, <1>11 DEF RecvInv

\* The payload makes the slot R has marked one more stored message: from here
\* on the user can read it.
LEMMA RecvData ==
  ASSUME RecvInv, RData
  PROVE  RecvInv' /\ InBuffer' = InBuffer + 1 /\ InBuffer - Got < Buf
<1> USE DEF slots, counters, user, receiver
<1>1. TypeInv /\ TypeInv' /\ NumberInv'
  BY TypesReceiver, NumbersReceiver DEF RecvInv
<1>2. /\ rpc = "data" /\ data' = [data EXCEPT ![rj] = rmsg] /\ rpc' = "ack"
      /\ UNCHANGED <<isbusy, frame, insertsize, fetchsize, uj, utmp, upc, rj, rtmp, rmsg, acked,
                     delivered>>
  BY DEF RData
<1>3. /\ ~ Claiming /\ ~ Claiming' /\ Writing /\ ~ Writing' /\ Filling' = Filling
      /\ Counted' = Counted /\ Taken' = Taken
  BY <1>2 DEF Claiming, Writing, Filling, Counted, Taken
<1>4. Counting' = Counting /\ Reading' = Reading /\ Holding' = Holding /\ Got' = Got
  BY ReceiverAlone
<1>5. rj \in Slot /\ data \in [Slot -> 0..MsgLimit] /\ rmsg \in Nat
  BY <1>1, RecvTypes
<1>6. /\ rmsg = acked + 1 /\ InBuffer = acked /\ InBuffer' = acked + 1
      /\ isbusy[rj] = 1 /\ frame[rj] = FrameOf(rmsg) /\ (Holding => uj # rj)
  <2>1. acked \in Nat /\ acked' = acked
    BY <1>1, <1>2, RecvNumbers
  <2>2. InBuffer = acked /\ InBuffer' = acked + 1
    BY <1>2, <2>1 DEF InBuffer
  <2>3. rmsg = acked + 1
    BY <1>2 DEF RecvInv, NumberInv, ArrivedInv, Filling, Writing
  <2> QED BY <1>2, <1>3, <2>2, <2>3 DEF RecvInv, HandsInv
<1>7. acked - Got < Buf
  <2>1. Pending(Reading) \in 0..1 /\ acked - Got + Pending(Reading) < Buf
    BY <1>2 DEF RecvInv, RoomInv, Pending
  <2> QED BY <1>1, <2>1, RecvNumbers
<1>8. \A j \in Slot : data'[j] = IF j = rj THEN rmsg ELSE data[j]
  BY <1>2, <1>5
<1>9. \A j \in Slot : Stored(j)' <=> Stored(j) \/ j = rj
  BY <1>2, <1>3, <1>4, <1>6 DEF Stored
<1>10. ~ Stored(rj)
  BY <1>3 DEF Stored
<1>11. ContentsInv'
  <2>1. Got <= acked
    BY <1>6 DEF RecvInv, ContentsInv
  <2>2. Got' <= InBuffer'
    BY <1>1, <1>4, <1>6, <2>1, RecvNumbers
  <2>3. \A k \in DOMAIN delivered' : delivered'[k] = k
    BY <1>2 DEF RecvInv, ContentsInv
  <2>4. ASSUME NEW j \in Slot, Stored(j)
        PROVE  data[j] \in (Got + 1)..acked /\ frame[j] = FrameOf(data[j])
    BY <1>6, <2>4 DEF RecvInv, ContentsInv
  <2>5. ASSUME NEW j \in Slot, Stored(j)'
        PROVE  data'[j] \in (Got' + 1)..InBuffer' /\ frame'[j] = FrameOf(data'[j])
    <3>1. CASE Stored(j)
      <4>1. data'[j] = data[j] /\ frame'[j] = frame[j]
        BY <1>2, <1>8, <1>10, <3>1
      <4> QED BY <1>1, <1>4, <1>6, <2>4, <3>1, <4>1, RecvNumbers
    <3>2. CASE j = rj
      <4>1. rmsg \in (Got + 1)..(acked + 1)
        BY <1>1, <1>6, <2>1, RecvNumbers
      <4> QED BY <1>2, <1>4, <1>6, <1>8, <3>2, <4>1
    <3> QED BY <1>9, <2>5, <3>1, <3>2
  <2>6. ASSUME NEW n \in (Got' + 1)..InBuffer'
        PROVE  \E j \in Slot : Stored(j)' /\ data'[j] = n
    <3>1. n \in (Got + 1)..acked \/ n = acked + 1
      BY <1>1, <1>4, <1>6, RecvNumbers
    <3>2. CASE n \in (Got + 1)..acked
      <4>1. PICK j \in Slot : Stored(j) /\ data[j] = n
        BY <1>6, <3>2 DEF RecvInv, ContentsInv
      <4> QED BY <1>8, <1>9, <1>10, <4>1
    <3>3. CASE n = acked + 1
      BY <1>5, <1>6, <1>8, <1>9, <3>3
    <3> QED BY <3>1, <3>2, <3>3
  <2>7. ASSUME NEW i \in Slot, NEW j \in Slot, Stored(i)', Stored(j)', data'[i] = data'[j]
        PROVE  i = j
    <3>1. (Stored(i) \/ i = rj) /\ (Stored(j) \/ j = rj)
      BY <1>9, <2>7
    <3>2. \A l \in Slot : Stored(l) => data[l] # acked + 1
      BY <1>1, <2>4, RecvNumbers
    <3>3. CASE Stored(i) /\ Stored(j)
      BY <1>8, <1>10, <2>7, <3>3 DEF RecvInv, ContentsInv
    <3>4. CASE i = rj \/ j = rj
      BY <1>6, <1>8, <1>10, <2>7, <3>1, <3>2, <3>4
    <3> QED BY <3>1, <3>3, <3>4
  <2> QED BY <2>2, <2>3, <2>5, <2>6, <2>7 DEF ContentsInv
<1>12. SizeInv' /\ RoomInv'
  BY <1>2, <1>3, <1>4, SizesKept DEF RecvInv
<1>13. HandsInv'
  BY <1>2, <1>3, <1>4 DEF RecvInv, HandsInv
<1>14. CopyInv'
  BY <1>2 DEF RecvInv, CopyInv
<1> QED BY <1>1, <1>6, <1>7, <1>11, <1>12, <1>13, <1>14 DEF RecvInv

\* The acknowledgement leaves the buffer as it is, whatever the user has done
\* with the slot since.
LEMMA RecvAck ==
  ASSUME RecvInv, RAck
  PROVE  RecvInv' /\ InBuffer' = InBuffer
<1> USE DEF slots, counters, user, receiver
<1>1. TypeInv /\ TypeInv' /\ NumberInv'
  BY TypesReceiver, NumbersReceiver DEF RecvInv
<1>2. /\ rpc = "ack" /\ acked' = rmsg /\ rpc' = "idle"
      /\ UNCHANGED <<isbusy, frame, data, insertsize, fetchsize, uj, utmp, upc, delivered>>
  BY DEF RAck
<1>3. /\ ~ Claiming /\ ~ Claiming' /\ ~ Writing /\ ~ Writing' /\ Filling /\ ~ Filling'
      /\ Counted /\ ~ Counted' /\ Taken /\ ~ Taken'
  BY <1>2 DEF Claiming, Writing, Filling, Counted, Taken
<1>4. Counting' = Counting /\ Reading' = Reading /\ Holding' = Holding /\ Got' = Got
  BY ReceiverAlone
<1>5. acked' = acked + 1 /\ InBuffer' = InBuffer
  <2>1. acked' = acked + 1 /\ acked \in Nat
    BY <1>1, <1>2, <1>3, RecvNumbers DEF RecvInv, NumberInv, ArrivedInv
  <2> QED BY <1>2, <2>1 DEF InBuffer
<1>6. \A j \in Slot : Stored(j)' <=> Stored(j)
  BY <1>2, <1>3, <1>4 DEF Stored
<1>7. ContentsInv'
  BY <1>2, <1>5, <1>6, ContentsKept DEF RecvInv
<1>8. /\ Pending(Filling) = 1 /\ Pending(Counted) = 1 /\ Pending(Taken) = 1
      /\ Pending(Filling)' = 0 /\ Pending(Counted)' = 0 /\ Pending(Taken)' = 0
      /\ Pending(Holding)' = Pending(Holding) /\ Pending(Reading)' = Pending(Reading)
      /\ Pending(Counting)' = Pending(Counting) /\ Pending(Holding) \in 0..1
      /\ Pending(Reading) \in 0..1 /\ Pending(Counting) \in 0..1
  BY <1>3, <1>4 DEF Pending
<1>9. SizeInv'
  <2>1. /\ Cardinality(Busy) = acked - Got + Pending(Holding) + 1
        /\ fetchsize = acked - Got + Pending(Counting) + 1
        /\ insertsize = Buf - (acked - Got) - Pending(Reading) - 1
    BY <1>8 DEF RecvInv, SizeInv
  <2>2. /\ Cardinality(Busy) = acked' - Got' + Pending(Holding) + 0
        /\ fetchsize = acked' - Got' + Pending(Counting) + 0
        /\ insertsize = Buf - (acked' - Got') - Pending(Reading) - 0
    BY <1>1, <1>4, <1>5, <1>8, <2>1, RecvNumbers
  <2>3. Busy' = Busy /\ fetchsize' = fetchsize /\ insertsize' = insertsize
    BY <1>2 DEF Busy
  <2> QED BY <1>8, <2>2, <2>3 DEF SizeInv
<1>10. RoomInv'
  <2>1. acked - Got + Pending(Reading) < Buf
    BY <1>2 DEF RecvInv, RoomInv
  <2>2. acked' - Got' + Pending(Reading)' <= Buf
    BY <1>1, <1>4, <1>5, <1>8, <2>1, RecvNumbers
  <2> QED BY <1>2, <2>2 DEF RoomInv
<1>11. HandsInv'
  BY <1>2, <1>3, <1>4 DEF RecvInv, HandsInv
<1>12. CopyInv'
  BY <1>2 DEF RecvInv, CopyInv
<1> QED BY <1>1, <1>5, <1>7, <1>9, <1>10, <1>11, <1>12 DEF RecvInv

(***************************************************************************)
(* The theorems.                                                           *)
(***************************************************************************)

\* Every step that begins and ends outside of the races keeps the invariant.
LEMMA RecvStep == RecvInv /\ ~ Races /\ ~ Races' /\ [Next]_vars => RecvInv'
<1> SUFFICES ASSUME RecvInv, ~ Races, ~ Races', [Next]_vars PROVE RecvInv'
  OBVIOUS
<1>1. CASE UNCHANGED vars
  <2>1. TypeInv'
    BY <1>1, TypesStep DEF RecvInv
  <2>2. /\ UNCHANGED <<isbusy, frame, data, insertsize, fetchsize, togetframe, readframe,
                       upc, uj, utmp, rpc, rj, rtmp, rmsg, acked, delivered>>
        /\ Got' = Got /\ InBuffer' = InBuffer /\ Busy' = Busy
        /\ Counting' = Counting /\ Reading' = Reading /\ Holding' = Holding
        /\ Claiming' = Claiming /\ Writing' = Writing /\ Filling' = Filling
        /\ Counted' = Counted /\ Taken' = Taken
    BY <1>1 DEF vars, slots, counters, user, receiver, Got, InBuffer, Busy, Counting, Reading,
       Holding, Claiming, Writing, Filling, Counted, Taken
  <2>3. \A j \in Slot : Stored(j)' <=> Stored(j)
    BY <2>2 DEF Stored
  <2>4. ContentsInv'
    BY <2>2, <2>3, ContentsKept DEF RecvInv
  <2>5. SizeInv' /\ RoomInv'
    BY <2>2, SizesKept DEF RecvInv
  <2>6. NumberInv' /\ CopyInv' /\ HandsInv'
    BY <2>2 DEF RecvInv, NumberInv, CursorInv, ArrivedInv, CopyInv, HandsInv
  <2> QED BY <2>1, <2>4, <2>5, <2>6 DEF RecvInv
<1>2. /\ ~ FetchRace /\ ~ InsertRace /\ ~ EraseRace
      /\ ~ StaleRace' /\ ~ EraseRace' /\ ~ FullRace'
  BY DEF Races
<1> QED BY <1>1, <1>2, RecvSearch, RecvCopy, RecvUserLoad, RecvUserFetch, RecvUserInsert,
           RecvRelease, RecvUserClear, RecvArrive, RecvLook, RecvFound, RecvLoad,
           RecvStoreFetch, RecvStoreInsert, RecvBusy, RecvFrame, RecvData, RecvAck DEF Next

\* The invariant holds throughout every execution without the five races.
LEMMA RecvHolds == Spec /\ []~ Races => []RecvInv
<1>1. RecvInv /\ ~ Races /\ ~ Races' /\ [Next]_vars => RecvInv'
  BY RecvStep
<1> QED BY <1>1, RecvAtFirst, PTL DEF Spec

\* RaceFree, which TLC explores, is the executions the theorems below are about.
LEMMA RecvRaceFreeIs == RaceFree <=> Spec /\ []~ Races
<1>1. Init => ~ Races
  BY DEF Init, Races, FetchRace, InsertRace, StaleRace, EraseRace, FullRace
<1>2. UNCHANGED vars => Races' = Races
  BY DEF vars, slots, user, receiver, Races, FetchRace, InsertRace, StaleRace, EraseRace,
     FullRace
<1>3. ~ Races /\ [Next /\ ~ Races']_vars => ~ Races'
  BY <1>2
<1>4. [Next /\ ~ Races']_vars => [Next]_vars
  OBVIOUS
<1>5. [Next]_vars /\ ~ Races' => [Next /\ ~ Races']_vars
  OBVIOUS
<1> QED BY <1>1, <1>3, <1>4, <1>5, PTL DEF Spec, RaceFree

\* While neither the user nor R is at work on the buffer, fetchsize counts the
\* busy slots and insertsize the idle ones, R changing them outside of the lock
\* at any access of m_recvfrom, as long as no counter is stored over another's
\* update (msocket.c 428 and 433, initmsocket.c 428-429) and none of the other
\* three races happens.
THEOREM RecvSizesExact == Spec /\ []~ Races => []SizesCount
<1>1. RecvInv => SizesCount
  <2> SUFFICES ASSUME RecvInv, AtRest
               PROVE  fetchsize = Cardinality(Busy) /\ insertsize = Buf - fetchsize
    BY DEF SizesCount, Busy
  <2>1. ~ Holding /\ ~ Reading /\ ~ Counting /\ ~ Filling /\ ~ Counted /\ ~ Taken
    BY DEF AtRest, Holding, Reading, Counting, Filling, Writing, Counted, Taken
  <2>2. /\ Cardinality(Busy) = acked - Got + 0 + 0 /\ fetchsize = acked - Got + 0 + 0
        /\ insertsize = Buf - (acked - Got) - 0 - 0
    BY <2>1 DEF RecvInv, SizeInv, Pending
  <2> QED BY <2>2, RecvNumbers DEF RecvInv
<1> QED BY <1>1, RecvHolds, PTL

\* m_recvfrom returns the peer's messages in order, each once, also when the
\* frame numbers have come round and R stores the next ones meanwhile, in every
\* execution without the five races.
THEOREM RecvInOrder == Spec /\ []~ Races => []GotWhatWasSent
<1>1. RecvInv => GotWhatWasSent
  BY DEF RecvInv, ContentsInv, GotWhatWasSent
<1> QED BY <1>1, RecvHolds, PTL

\* An acknowledged message the user has not got is in a busy slot with its
\* frame number, in every execution without the five races.
THEOREM RecvAckedReadable == Spec /\ []~ Races => []AckedReadable
<1>1. RecvInv => AckedReadable
  <2> SUFFICES ASSUME RecvInv, AtRest, NEW n \in (Got + 1)..acked
               PROVE  \E j \in Slot : isbusy[j] = 1 /\ frame[j] = FrameOf(n) /\ data[j] = n
    BY DEF AckedReadable, Got
  <2>1. InBuffer = acked
    BY RecvNumbers DEF RecvInv, AtRest, InBuffer
  <2>2. PICK j \in Slot : Stored(j) /\ data[j] = n
    BY <2>1 DEF RecvInv, ContentsInv
  <2> QED BY <2>2 DEF RecvInv, ContentsInv, Stored
<1> QED BY <1>1, RecvHolds, PTL

\* The step of the channel that a step of the buffer is.
LEMMA RecvImplements ==
  ASSUME RecvInv, ~ StaleRace', [Next]_vars
  PROVE  [Channel!ChanNext]_(Channel!chan)
<1>1. CASE RData
  <2>1. InBuffer' = InBuffer + 1 /\ InBuffer - Len(delivered) < Buf /\ delivered' = delivered
    BY <1>1, RecvData DEF RData, Got, user
  <2>2. Channel!Take("in")
    BY <2>1 DEF Channel!Take
  <2> QED BY <2>2 DEF Channel!ChanNext
<1>2. CASE UserCopy
  <2>1. /\ delivered' = Append(delivered, Len(delivered) + 1) /\ Len(delivered) < InBuffer
        /\ InBuffer' = InBuffer
    BY <1>2, RecvCopy DEF Got
  <2>2. Channel!Deliver("in")
    BY <2>1 DEF Channel!Deliver
  <2> QED BY <2>2 DEF Channel!ChanNext
<1>3. CASE RAck
  <2>1. InBuffer' = InBuffer /\ delivered' = delivered
    BY <1>3, RecvAck DEF RAck
  <2> QED BY <2>1 DEF Channel!chan
<1>4. CASE UserEnter \/ UserSkip \/ UserLoad \/ UserStoreFetch \/ UserStoreInsert
           \/ UserRelease \/ UserClear
  <2>1. InBuffer' = InBuffer /\ delivered' = delivered
    BY <1>4, UserAlone DEF UserEnter, UserSkip, UserLoad, UserStoreFetch, UserStoreInsert,
       UserRelease, UserClear
  <2> QED BY <2>1 DEF Channel!chan
<1>5. CASE \/ \E n \in 1..MsgLimit : RArrive(n)
           \/ RWindow \/ RSkip \/ RFound \/ RLoad \/ RStoreFetch \/ RStoreInsert
           \/ RBusy \/ RFrame
  <2>1. acked' = acked /\ delivered' = delivered /\ rpc # "ack" /\ rpc' # "ack"
    BY <1>5 DEF RArrive, RWindow, RSkip, RFound, RLoad, RStoreFetch, RStoreInsert, RBusy,
       RFrame
  <2> QED BY <2>1 DEF Channel!chan, InBuffer
<1>6. CASE UNCHANGED vars
  BY <1>6 DEF vars, receiver, InBuffer, Channel!chan
<1> QED BY <1>1, <1>2, <1>3, <1>4, <1>5, <1>6 DEF Next

\* Access by access, R and m_recvfrom are an ordered channel that loses and
\* repeats nothing and takes a message only while fewer than Buf are unread, in
\* every execution without the five races.
THEOREM RecvImplementsChannel == Spec /\ []~ Races => ImplementsChannel
<1>1. Init => Channel!ChanInit
  BY DEF Init, InBuffer, Channel!ChanInit
<1>2. RecvInv /\ ~ Races' /\ [Next]_vars => [Channel!ChanNext]_(Channel!chan)
  BY RecvImplements DEF Races
<1>3. Spec /\ []~ Races => []RecvInv
  BY RecvHolds
<1>4. ImplementsChannel <=> Channel!ChanInit /\ [][Channel!ChanNext]_(Channel!chan)
  BY DEF ImplementsChannel, Channel!ChanSpec
<1> QED BY <1>1, <1>2, <1>3, <1>4, PTL DEF Spec
=============================================================================
