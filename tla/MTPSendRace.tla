---------------------------- MODULE MTPSendRace ----------------------------
(***************************************************************************)
(* The send buffer of one socket, one shared-memory access at a time.      *)
(* m_sendto and the S thread hold sem3; the R thread, which handles        *)
(* acknowledgements, does not (initmsocket.c 282-285, 538-541 are comments)*)
(* and runs between any two of their accesses.  The build has no -O flag:  *)
(* accesses happen in program order, x++ and x-- are a load and a store.   *)
(* Two of the overlaps do harm (Races); RaceFree is the other executions.  *)
(***************************************************************************)
EXTENDS MTPFrames, Sequences, FiniteSets

CONSTANT MsgLimit      \* bound: messages the user sends

ASSUME RaceAssumption == MsgLimit \in Nat

VARIABLES
    isbusy, frame, ack, msg,                      \* sendbuffer.data[j]
    size, next, nextframed, wndsize, currframe,
    sem3,                                         \* who holds it
    upc, utmp,                                    \* the user in m_sendto
    spc, sj, stemp, swnd,                         \* the S thread
    rpc, rj, rframe, rtmp,                        \* the R thread
    frames, acks,                                 \* datagrams that may still arrive
    sent, taken                                   \* m_sendto's and the peer's messages

slots == <<isbusy, frame, ack, msg>>
user == <<upc, utmp, sent>>
sender == <<spc, sj, stemp, swnd>>
receiver == <<rpc, rj, rframe, rtmp>>
wire == <<frames, acks, taken>>
vars == <<slots, size, next, nextframed, wndsize, currframe, sem3,
          user, sender, receiver, wire>>

\* A data frame, or the acknowledgement of one: its number, and the message
\* it is about.
Datagram == [frame : Frame \cup {0}, msg : 0..MsgLimit]

TypeOK ==
    /\ isbusy \in [Slot -> {0, 1}] /\ ack \in [Slot -> {0, 1}]
    /\ frame \in [Slot -> Frame \cup {0}] /\ msg \in [Slot -> 0..MsgLimit]
    /\ size \in Int /\ wndsize \in Int
    /\ next \in Slot /\ nextframed \in Slot /\ currframe \in Frame
    /\ sem3 \in {"free", "user", "S"}
    /\ upc \in {"idle", "check", "fill", "load", "store"}
    /\ spc \in {"idle", "resend", "header", "new", "load", "store", "send"}
    /\ rpc \in {"idle", "test", "free", "frame", "ack", "wload", "wstore", "load", "store"}
    /\ utmp \in Int /\ stemp \in Int /\ swnd \in Int /\ rtmp \in Int
    /\ sj \in 0..Buf /\ rj \in 0..Buf /\ rframe \in Frame \cup {0}
    /\ frames \subseteq Datagram /\ acks \subseteq Datagram
    /\ sent \in 0..MsgLimit /\ taken \in Seq(1..MsgLimit)

Init ==
    /\ isbusy = [j \in Slot |-> 0] /\ ack = [j \in Slot |-> 0]
    /\ frame = [j \in Slot |-> 0] /\ msg = [j \in Slot |-> 0]
    /\ size = 0 /\ next = 0 /\ nextframed = 0 /\ wndsize = 1 /\ currframe = 1
    /\ sem3 = "free"
    /\ upc = "idle" /\ spc = "idle" /\ rpc = "idle"
    /\ utmp = 0 /\ stemp = 0 /\ swnd = 0 /\ rtmp = 0
    /\ sj = 0 /\ rj = 0 /\ rframe = 0
    /\ frames = {} /\ acks = {} /\ sent = 0 /\ taken = <<>>
-----------------------------------------------------------------------------
(* m_sendto *)

UserEnter ==
    /\ upc = "idle" /\ sent < MsgLimit
    /\ sem3 = "free" /\ sem3' = "user"
    /\ upc' = "check"
    /\ UNCHANGED <<slots, size, next, nextframed, wndsize, currframe,
                   utmp, sent, sender, receiver, wire>>

\* Refused when size is 5 or the slot at next is busy.
UserRefused ==
    /\ upc = "check"
    /\ size = Buf \/ isbusy[next] = 1
    /\ sem3' = "free" /\ upc' = "idle"
    /\ UNCHANGED <<slots, size, next, nextframed, wndsize, currframe,
                   utmp, sent, sender, receiver, wire>>

UserClaim ==
    /\ upc = "check"
    /\ size # Buf /\ isbusy[next] = 0
    /\ isbusy' = [isbusy EXCEPT ![next] = 1]
    /\ upc' = "fill"
    /\ UNCHANGED <<frame, ack, msg, size, next, nextframed, wndsize, currframe,
                   sem3, utmp, sent, sender, receiver, wire>>

\* ack, frame and the payload: nobody reads one of them in between.
UserFill ==
    /\ upc = "fill"
    /\ ack' = [ack EXCEPT ![next] = 0]
    /\ frame' = [frame EXCEPT ![next] = 0]
    /\ msg' = [msg EXCEPT ![next] = sent + 1]
    /\ upc' = "load"
    /\ UNCHANGED <<isbusy, size, next, nextframed, wndsize, currframe,
                   sem3, utmp, sent, sender, receiver, wire>>

UserLoadSize ==
    /\ upc = "load"
    /\ utmp' = size
    /\ upc' = "store"
    /\ UNCHANGED <<slots, size, next, nextframed, wndsize, currframe,
                   sem3, sent, sender, receiver, wire>>

\* Mutant of UserStoreSize: next does not wrap.
UserStoreSizeNoWrap ==
    /\ upc = "store"
    /\ size' = utmp + 1
    /\ next' = next + 1
    /\ sent' = sent + 1
    /\ sem3' = "free" /\ upc' = "idle"
    /\ utmp' = 0
    /\ UNCHANGED <<slots, nextframed, wndsize, currframe, sender, receiver, wire>>

UserStoreSize ==
    /\ upc = "store"
    /\ size' = utmp + 1
    /\ next' = (next + 1) % Buf
    /\ sent' = sent + 1
    /\ sem3' = "free" /\ upc' = "idle"
    /\ utmp' = 0
    /\ UNCHANGED <<slots, nextframed, wndsize, currframe, sender, receiver, wire>>
-----------------------------------------------------------------------------
(* The S thread *)

SEnter ==
    /\ spc = "idle"
    /\ sem3 = "free" /\ sem3' = "S"
    /\ spc' = "resend" /\ sj' = 0
    /\ UNCHANGED <<slots, size, next, nextframed, wndsize, currframe,
                   stemp, swnd, user, receiver, wire>>

\* First loop: test a slot ...
SResendTest ==
    /\ spc = "resend" /\ sj < Buf
    /\ IF isbusy[sj] = 1 /\ ack[sj] = 0 /\ frame[sj] # 0
       THEN spc' = "header" /\ UNCHANGED sj
       ELSE sj' = sj + 1 /\ UNCHANGED spc
    /\ UNCHANGED <<slots, size, next, nextframed, wndsize, currframe, sem3,
                   stemp, swnd, user, receiver, wire>>

Transmit(j) == frames' = frames \cup {[frame |-> frame[j], msg |-> msg[j]]}

\* ... and read its frame again to make the header.
SResendSend ==
    /\ spc = "header"
    /\ Transmit(sj)
    /\ spc' = "resend" /\ sj' = sj + 1
    /\ UNCHANGED <<slots, size, next, nextframed, wndsize, currframe, sem3,
                   stemp, swnd, user, receiver, acks, taken>>

SResendDone ==
    /\ spc = "resend" /\ sj = Buf
    /\ spc' = "new" /\ stemp' = size
    /\ UNCHANGED <<slots, size, next, nextframed, wndsize, currframe, sem3,
                   sj, swnd, user, receiver, wire>>

CanFrame == /\ stemp > 0 /\ wndsize > 0
            /\ isbusy[nextframed] = 1 /\ frame[nextframed] = 0

\* The datagrams that outlive the framing of message n.
Recent(D, n) == { d \in D : d.msg + Lifetime > n }

\* Second loop: frame the message at nextframed, take one unit of window, send.
SFrame ==
    /\ spc = "new" /\ CanFrame
    /\ frame' = [frame EXCEPT ![nextframed] = currframe]
    /\ currframe' = NextFrame(currframe)
    /\ nextframed' = (nextframed + 1) % Buf
    /\ stemp' = stemp - 1
    /\ sj' = nextframed
    /\ spc' = "load"
    /\ frames' = Recent(frames, msg[nextframed])
    /\ acks' = Recent(acks, msg[nextframed])
    /\ UNCHANGED <<isbusy, ack, msg, size, next, wndsize, sem3, swnd,
                   user, receiver, taken>>

SLoadWindow ==
    /\ spc = "load"
    /\ swnd' = wndsize
    /\ spc' = "store"
    /\ UNCHANGED <<slots, size, next, nextframed, wndsize, currframe, sem3,
                   sj, stemp, user, receiver, wire>>

SStoreWindow ==
    /\ spc = "store"
    /\ wndsize' = swnd - 1
    /\ spc' = "send"
    /\ UNCHANGED <<slots, size, next, nextframed, currframe, sem3,
                   sj, stemp, swnd, user, receiver, wire>>

SSendNew ==
    /\ spc = "send"
    /\ Transmit(sj)
    /\ spc' = "new"
    /\ UNCHANGED <<slots, size, next, nextframed, wndsize, currframe, sem3,
                   sj, stemp, swnd, user, receiver, acks, taken>>

SLeave ==
    /\ spc = "new" /\ ~CanFrame
    /\ sem3' = "free" /\ spc' = "idle"
    /\ sj' = 0 /\ stemp' = 0 /\ swnd' = 0
    /\ UNCHANGED <<slots, size, next, nextframed, wndsize, currframe,
                   user, receiver, wire>>
-----------------------------------------------------------------------------
(* The R thread handling an acknowledgement *)

RTake(d) ==
    /\ rpc = "idle" /\ d \in acks
    /\ rframe' = d.frame /\ rj' = 0 /\ rpc' = "test"
    /\ UNCHANGED <<slots, size, next, nextframed, wndsize, currframe, sem3,
                   rtmp, user, sender, wire>>

\* Mutant of RTest: the frame number is not compared.
RTestAnyFrame ==
    /\ rpc = "test" /\ rj < Buf
    /\ IF isbusy[rj] = 1 /\ ack[rj] = 0
       THEN rpc' = "free" /\ UNCHANGED rj
       ELSE rj' = rj + 1 /\ UNCHANGED rpc
    /\ UNCHANGED <<slots, size, next, nextframed, wndsize, currframe, sem3,
                   rframe, rtmp, user, sender, wire>>

RTest ==
    /\ rpc = "test" /\ rj < Buf
    /\ IF frame[rj] = rframe /\ isbusy[rj] = 1 /\ ack[rj] = 0
       THEN rpc' = "free" /\ UNCHANGED rj
       ELSE rj' = rj + 1 /\ UNCHANGED rpc
    /\ UNCHANGED <<slots, size, next, nextframed, wndsize, currframe, sem3,
                   rframe, rtmp, user, sender, wire>>

RFree ==
    /\ rpc = "free"
    /\ isbusy' = [isbusy EXCEPT ![rj] = 0]
    /\ rpc' = "frame"
    /\ UNCHANGED <<frame, ack, msg, size, next, nextframed, wndsize, currframe,
                   sem3, rj, rframe, rtmp, user, sender, wire>>

RClearFrame ==
    /\ rpc = "frame"
    /\ frame' = [frame EXCEPT ![rj] = 0]
    /\ rpc' = "ack"
    /\ UNCHANGED <<isbusy, ack, msg, size, next, nextframed, wndsize, currframe,
                   sem3, rj, rframe, rtmp, user, sender, wire>>

RSetAck ==
    /\ rpc = "ack"
    /\ ack' = [ack EXCEPT ![rj] = 1]
    /\ rpc' = "wload"
    /\ UNCHANGED <<isbusy, frame, msg, size, next, nextframed, wndsize, currframe,
                   sem3, rj, rframe, rtmp, user, sender, wire>>

\* wndsize++ and size--.
RLoad ==
    /\ rpc \in {"wload", "load"}
    /\ rtmp' = IF rpc = "wload" THEN wndsize ELSE size
    /\ rpc' = IF rpc = "wload" THEN "wstore" ELSE "store"
    /\ UNCHANGED <<slots, size, next, nextframed, wndsize, currframe,
                   sem3, rj, rframe, user, sender, wire>>

RStoreWindow ==
    /\ rpc = "wstore"
    /\ wndsize' = rtmp + 1
    /\ rpc' = "load"
    /\ UNCHANGED <<slots, size, next, nextframed, currframe, sem3, rj, rframe,
                   rtmp, user, sender, wire>>

\* Mutant of RStoreSize: the decrement is forgotten.
RStoreSizeSame ==
    /\ rpc = "store"
    /\ rj' = rj + 1 /\ rpc' = "test" /\ rtmp' = 0
    /\ UNCHANGED <<slots, size, next, nextframed, wndsize, currframe, sem3, rframe,
                   user, sender, wire>>

RStoreSize ==
    /\ rpc = "store"
    /\ size' = rtmp - 1
    /\ rj' = rj + 1 /\ rpc' = "test" /\ rtmp' = 0
    /\ UNCHANGED <<slots, next, nextframed, wndsize, currframe, sem3, rframe,
                   user, sender, wire>>

RDone ==
    /\ rpc = "test" /\ rj = Buf
    /\ rpc' = "idle" /\ rj' = 0 /\ rframe' = 0
    /\ UNCHANGED <<slots, size, next, nextframed, wndsize, currframe, sem3,
                   rtmp, user, sender, wire>>

-----------------------------------------------------------------------------
\* Mutant of PeerReceives: a frame is stored whatever its number.
PeerReceivesAny(d) ==
    /\ d \in frames
    /\ taken' = Append(taken, d.msg)
    /\ acks' = acks \cup {d}
    /\ UNCHANGED <<slots, size, next, nextframed, wndsize, currframe, sem3,
                   user, sender, receiver, frames>>

\* The peer's R thread, with a user that reads at once: the next frame is
\* stored, and acknowledged as any frame outside the window is.
PeerReceives(d) ==
    LET expected == FrameOf(Len(taken) + 1) IN
    /\ d \in frames
    /\ d.frame = expected \/ d.frame \notin RecvWindow(expected, Buf)
    /\ taken' = IF d.frame = expected THEN Append(taken, d.msg) ELSE taken
    /\ acks' = acks \cup {d}
    /\ UNCHANGED <<slots, size, next, nextframed, wndsize, currframe, sem3,
                   user, sender, receiver, frames>>

Next ==
    \/ UserEnter \/ UserRefused \/ UserClaim \/ UserFill \/ UserLoadSize \/ UserStoreSize
    \/ SEnter \/ SResendTest \/ SResendSend \/ SResendDone
    \/ SFrame \/ SLoadWindow \/ SStoreWindow \/ SSendNew \/ SLeave
    \/ \E d \in acks : RTake(d)
    \/ RTest \/ RFree \/ RClearFrame \/ RSetAck \/ RLoad \/ RStoreWindow
    \/ RStoreSize \/ RDone
    \/ \E d \in frames : PeerReceives(d)

Spec == Init /\ [][Next]_vars
-----------------------------------------------------------------------------
(* Where R and a holder of sem3 do each other harm *)

\* Both are about to store a size they loaded before the other's update
\* (msocket.c 348, initmsocket.c 522).
SizeRace == upc = "store" /\ rpc = "store"

\* R has cleared the frame number that S tested and will send
\* (initmsocket.c 519, 618-622).
HeaderRace == spc = "header" /\ frame[sj] = 0

Races == SizeRace \/ HeaderRace

\* The executions of the code in which neither happens; R overlaps the holders
\* of sem3 at every other place.
RaceFree == Init /\ [][Next /\ ~ Races']_vars
-----------------------------------------------------------------------------
Busy == { j \in Slot : isbusy[j] = 1 }

\* "size: Integer indicating the size of the buffer" (documentation.txt 42):
\* while nobody is changing the buffer, size counts its busy slots.
SizeCounts == upc = "idle" /\ rpc = "idle" => size = Cardinality(Busy)

\* "reliable data transfer" (README.md 3): a message m_sendto accepted is in
\* the buffer, still to be acknowledged, or with the peer.
NothingLost ==
    \A n \in 1..sent :
        \/ \E k \in DOMAIN taken : taken[k] = n
        \/ \E j \in Busy : msg[j] = n /\ ack[j] = 0

\* "a Go-Back-N protocol" (README.md 3): the peer stores the messages in the
\* order m_sendto took them, each once.
StoredInOrder ==
    \A k, l \in DOMAIN taken : k < l => taken[k] < taken[l]

\* The tests the code reports as errors do no harm: "Some issue with buffer is
\* free" (msocket.c 337) is never printed, and S leaves its loop with "Error:
\* Frame already framed" (initmsocket.c 675) only when no message waits for a
\* number - it can, since R may free a slot after S has copied size.
ErrorsHarmless ==
    /\ upc = "check" /\ size # Buf => isbusy[next] = 0
    /\ spc = "new" /\ stemp > 0 /\ wndsize > 0 /\ ~ CanFrame =>
          \A j \in Busy : frame[j] # 0

\* R is between freeing a slot and giving its unit of the window back; S is
\* between numbering a message and taking its unit.
Closing == rpc \in {"frame", "ack", "wload", "wstore"}
Opening == spc \in {"load", "store"}

\* "wndsize: Integer indicating the size of the window" (documentation.txt 22):
\* S's wndsize-- (initmsocket.c 659) and R's wndsize++ (521), although no lock
\* keeps them apart, are never under way together, and between them the window
\* is 1 less the messages that are numbered and not acknowledged.
WindowCounts ==
    /\ ~ (Opening /\ Closing)
    /\ ~ Opening /\ ~ Closing =>
          wndsize = 1 - Cardinality({ j \in Busy : frame[j] # 0 })

\* "reliable data transfer" (README.md 3): access by access, m_sendto, S, R and
\* the peer make an ordered channel that takes a message only while fewer than
\* Buf are under way, and delivers each once.
Channel == INSTANCE ReliableChannel
    WITH Stream <- {"out"}, Capacity <- Buf, taken <- [s \in {"out"} |-> sent],
         received <- [s \in {"out"} |-> taken], open <- [s \in {"out"} |-> TRUE]

ImplementsChannel == Channel!ChanSpec
=============================================================================
