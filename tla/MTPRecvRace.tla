---------------------------- MODULE MTPRecvRace ----------------------------
(***************************************************************************)
(* The receive buffer of one socket, one shared-memory access at a time:   *)
(* the R thread, which takes no semaphore, stores data frames while the    *)
(* user, who holds sem3, is in m_recvfrom.  Accesses happen in program     *)
(* order (no -O flag); x++ and x-- are a load and a store.  Five of the    *)
(* overlaps do harm (Races); RaceFree is the other executions.             *)
(* The peer sends its messages 1, 2, ... one at a time.                    *)
(***************************************************************************)
EXTENDS MTPFrames, Sequences, FiniteSets

CONSTANT MsgLimit      \* bound: messages the peer sends

ASSUME RecvAssumption == MsgLimit \in Nat

VARIABLES
    isbusy, frame, data,                          \* receivebuffer.data[j]
    insertsize, fetchsize, togetframe, readframe,
    upc, uj, utmp,                                \* the user in m_recvfrom
    rpc, rj, rtmp, rmsg,                          \* R, and the message it handles
    acked,                                        \* messages acknowledged to the peer
    delivered                                     \* what m_recvfrom returned

slots == <<isbusy, frame, data>>
counters == <<insertsize, fetchsize>>
user == <<upc, uj, utmp>>
receiver == <<rpc, rj, rtmp, rmsg>>
vars == <<slots, counters, togetframe, readframe, user, receiver, acked, delivered>>

TypeOK ==
    /\ isbusy \in [Slot -> {0, 1}]
    /\ frame \in [Slot -> Frame \cup {0}] /\ data \in [Slot -> 0..MsgLimit]
    /\ insertsize \in Int /\ fetchsize \in Int
    /\ togetframe \in Frame /\ readframe \in Frame
    /\ upc \in {"idle", "scan", "fload", "fstore", "iload", "istore", "busy", "frame"}
    /\ rpc \in {"idle", "window", "scan", "fload", "fstore", "iload", "istore",
                "busy", "frame", "data", "ack"}
    /\ uj \in Slot /\ rj \in Slot /\ utmp \in Int /\ rtmp \in Int
    /\ rmsg \in 0..MsgLimit /\ acked \in 0..MsgLimit
    /\ delivered \in Seq(0..MsgLimit)

Init ==
    /\ isbusy = [j \in Slot |-> 0]
    /\ frame = [j \in Slot |-> 0] /\ data = [j \in Slot |-> 0]
    /\ insertsize = Buf /\ fetchsize = 0 /\ togetframe = 1 /\ readframe = 1
    /\ upc = "idle" /\ uj = 0 /\ utmp = 0
    /\ rpc = "idle" /\ rj = 0 /\ rtmp = 0 /\ rmsg = 0
    /\ acked = 0 /\ delivered = <<>>
-----------------------------------------------------------------------------
(* m_recvfrom *)

\* Returns -1 at once when fetchsize is 0.
UserEnter ==
    /\ upc = "idle" /\ fetchsize # 0
    /\ upc' = "scan" /\ uj' = 0
    /\ UNCHANGED <<slots, counters, togetframe, readframe, utmp, receiver,
                   acked, delivered>>

\* Mutant of Wanted: any slot will do.
WantedAny(j) == TRUE

Wanted(j) == frame[j] = readframe /\ isbusy[j] = 1

\* The next slot; -1 when no slot has the wanted frame.
UserSkip ==
    /\ upc = "scan" /\ ~Wanted(uj)
    /\ uj' = (uj + 1) % Buf
    /\ upc' = IF uj' = 0 THEN "idle" ELSE "scan"
    /\ UNCHANGED <<slots, counters, togetframe, readframe, utmp, receiver,
                   acked, delivered>>

\* memcpy of the payload.
UserCopy ==
    /\ upc = "scan" /\ Wanted(uj)
    /\ delivered' = Append(delivered, data[uj])
    /\ upc' = "fload"
    /\ UNCHANGED <<slots, counters, togetframe, readframe, uj, utmp, receiver, acked>>

\* fetchsize--, readframe, insertsize++.
UserLoad ==
    /\ \/ upc = "fload" /\ utmp' = fetchsize /\ upc' = "fstore"
       \/ upc = "iload" /\ utmp' = insertsize /\ upc' = "istore"
    /\ UNCHANGED <<slots, counters, togetframe, readframe, uj, receiver,
                   acked, delivered>>

\* Mutant of UserStoreFetch: readframe does not wrap.
UserStoreFetchNoWrap ==
    /\ upc = "fstore"
    /\ fetchsize' = utmp - 1
    /\ readframe' = NextFrameNoWrap(readframe)
    /\ upc' = "iload"
    /\ UNCHANGED <<slots, insertsize, togetframe, uj, utmp, receiver,
                   acked, delivered>>

UserStoreFetch ==
    /\ upc = "fstore"
    /\ fetchsize' = utmp - 1
    /\ readframe' = NextFrame(readframe)
    /\ upc' = "iload"
    /\ UNCHANGED <<slots, insertsize, togetframe, uj, utmp, receiver,
                   acked, delivered>>

UserStoreInsert ==
    /\ upc = "istore"
    /\ insertsize' = utmp + 1
    /\ upc' = "busy"
    /\ UNCHANGED <<slots, fetchsize, togetframe, readframe, uj, utmp, receiver,
                   acked, delivered>>

UserRelease ==
    /\ upc = "busy"
    /\ isbusy' = [isbusy EXCEPT ![uj] = 0]
    /\ upc' = "frame"
    /\ UNCHANGED <<frame, data, counters, togetframe, readframe, uj, utmp, receiver,
                   acked, delivered>>

UserClear ==
    /\ upc = "frame"
    /\ frame' = [frame EXCEPT ![uj] = 0]
    /\ upc' = "idle" /\ uj' = 0 /\ utmp' = 0
    /\ UNCHANGED <<isbusy, data, counters, togetframe, readframe, receiver,
                   acked, delivered>>
-----------------------------------------------------------------------------
(* The R thread handling a data datagram *)

\* The peer has message n in flight: the next one, or one sent again because
\* its acknowledgement was late (environment: less than Lifetime messages
\* late).  Ignored when insertsize is 0.
RArrive(n) ==
    /\ rpc = "idle" /\ n <= acked + 1 /\ n + Lifetime > acked
    /\ insertsize # 0
    /\ rmsg' = n /\ rpc' = "window"
    /\ UNCHANGED <<slots, counters, togetframe, readframe, user, rj, rtmp,
                   acked, delivered>>

\* Mutant of RWindow: any frame in the window is taken for the expected one.
RWindowAny ==
    /\ rpc = "window"
    /\ rpc' = IF FrameOf(rmsg) \in RecvWindow(togetframe, insertsize)
              THEN "scan" ELSE "idle"
    /\ rj' = 0
    /\ UNCHANGED <<slots, counters, togetframe, readframe, user, rtmp, rmsg,
                   acked, delivered>>

\* Out of the window: acknowledged again (it was, before).  In the window and
\* not the expected one: ignored.
RWindow ==
    /\ rpc = "window"
    /\ rpc' = IF FrameOf(rmsg) \in RecvWindow(togetframe, insertsize)
                 /\ FrameOf(rmsg) = togetframe
              THEN "scan" ELSE "idle"
    /\ rj' = 0
    /\ UNCHANGED <<slots, counters, togetframe, readframe, user, rtmp, rmsg,
                   acked, delivered>>

RSkip ==
    /\ rpc = "scan" /\ isbusy[rj] = 1 /\ rj < Buf - 1
    /\ rj' = rj + 1
    /\ UNCHANGED <<slots, counters, togetframe, readframe, user, rpc, rtmp, rmsg,
                   acked, delivered>>

\* wheretoinsert is the first idle slot, 0 if there is none.
RFound ==
    /\ rpc = "scan"
    /\ isbusy[rj] = 1 => rj = Buf - 1
    /\ rj' = IF isbusy[rj] = 0 THEN rj ELSE 0
    /\ togetframe' = NextFrame(togetframe)
    /\ rpc' = "fload"
    /\ UNCHANGED <<slots, counters, readframe, user, rtmp, rmsg, acked, delivered>>

\* fetchsize++ and insertsize--.
RLoad ==
    /\ \/ rpc = "fload" /\ rtmp' = fetchsize /\ rpc' = "fstore"
       \/ rpc = "iload" /\ rtmp' = insertsize /\ rpc' = "istore"
    /\ UNCHANGED <<slots, counters, togetframe, readframe, user, rj, rmsg,
                   acked, delivered>>

RStoreFetch ==
    /\ rpc = "fstore"
    /\ fetchsize' = rtmp + 1
    /\ rpc' = "iload"
    /\ UNCHANGED <<slots, insertsize, togetframe, readframe, user, rj, rtmp, rmsg,
                   acked, delivered>>

\* Mutant of RStoreInsert: the decrement is forgotten.
RStoreInsertSame ==
    /\ rpc = "istore"
    /\ insertsize' = rtmp
    /\ rpc' = "busy"
    /\ UNCHANGED <<slots, fetchsize, togetframe, readframe, user, rj, rtmp, rmsg,
                   acked, delivered>>

RStoreInsert ==
    /\ rpc = "istore"
    /\ insertsize' = rtmp - 1
    /\ rpc' = "busy"
    /\ UNCHANGED <<slots, fetchsize, togetframe, readframe, user, rj, rtmp, rmsg,
                   acked, delivered>>

RBusy ==
    /\ rpc = "busy"
    /\ isbusy' = [isbusy EXCEPT ![rj] = 1]
    /\ rpc' = "frame"
    /\ UNCHANGED <<frame, data, counters, togetframe, readframe, user, rj, rtmp, rmsg,
                   acked, delivered>>

\* Mutant of RFrame: the slot gets the number of togetframe, which has moved on.
RFrameNext ==
    /\ rpc = "frame"
    /\ frame' = [frame EXCEPT ![rj] = togetframe]
    /\ rpc' = "data"
    /\ UNCHANGED <<isbusy, data, counters, togetframe, readframe, user, rj, rtmp, rmsg,
                   acked, delivered>>

RFrame ==
    /\ rpc = "frame"
    /\ frame' = [frame EXCEPT ![rj] = FrameOf(rmsg)]
    /\ rpc' = "data"
    /\ UNCHANGED <<isbusy, data, counters, togetframe, readframe, user, rj, rtmp, rmsg,
                   acked, delivered>>

RData ==
    /\ rpc = "data"
    /\ data' = [data EXCEPT ![rj] = rmsg]
    /\ rpc' = "ack"
    /\ UNCHANGED <<isbusy, frame, counters, togetframe, readframe, user, rj, rtmp, rmsg,
                   acked, delivered>>

RAck ==
    /\ rpc = "ack"
    /\ acked' = rmsg
    /\ rpc' = "idle" /\ rj' = 0 /\ rtmp' = 0 /\ rmsg' = 0
    /\ UNCHANGED <<slots, counters, togetframe, readframe, user, delivered>>
-----------------------------------------------------------------------------
Next ==
    \/ UserEnter \/ UserSkip \/ UserCopy \/ UserLoad \/ UserStoreFetch
    \/ UserStoreInsert \/ UserRelease \/ UserClear
    \/ \E n \in 1..MsgLimit : RArrive(n)
    \/ RWindow \/ RSkip \/ RFound \/ RLoad \/ RStoreFetch \/ RStoreInsert
    \/ RBusy \/ RFrame \/ RData \/ RAck

Spec == Init /\ [][Next]_vars
-----------------------------------------------------------------------------
(* Where R and m_recvfrom do each other harm *)

\* Both are about to store a counter they loaded before the other's update
\* (msocket.c 428 and 433, initmsocket.c 428 and 429).
FetchRace == upc = "fstore" /\ rpc = "fstore"
InsertRace == upc = "istore" /\ rpc = "istore"

\* The user has copied a slot that R has marked and numbered and not filled
\* (msocket.c 426-427, initmsocket.c 430-433).
StaleRace == upc = "fload" /\ rpc = "data" /\ uj = rj

\* The user is about to clear the number of a slot it has released and R has
\* numbered again (msocket.c 439-440, initmsocket.c 431).
EraseRace == upc = "frame" /\ rpc = "data" /\ uj = rj

\* R has found no idle slot, since the user counts the room before it releases
\* the slot, and fills slot 0 (msocket.c 433-439, initmsocket.c 411-418).
FullRace == rpc = "fload" /\ isbusy[rj] = 1

Races == FetchRace \/ InsertRace \/ StaleRace \/ EraseRace \/ FullRace

\* The executions of the code in which none of them happens; R overlaps
\* m_recvfrom at every other place.
RaceFree == Init /\ [][Next /\ ~ Races']_vars
-----------------------------------------------------------------------------
AtRest == upc = "idle" /\ rpc = "idle"

\* "fetchsize: ... the maximum number of messages that can be fetched"
\* (documentation.txt 56), and insertsize the room left: while nobody changes
\* the buffer, the two count its slots.
SizesCount ==
    AtRest => /\ fetchsize = Cardinality({ j \in Slot : isbusy[j] = 1 })
              /\ insertsize = Buf - fetchsize

\* "reliable data transfer" (README.md 3): the user gets the messages that
\* were sent, each once and in order, never what a slot held before.
GotWhatWasSent == \A k \in DOMAIN delivered : delivered[k] = k

\* "reliable data transfer" (README.md 3): an acknowledged message the user has
\* not got can be read: its slot is busy, with its frame number.
AckedReadable ==
    AtRest => \A n \in (Len(delivered) + 1)..acked :
        \E j \in Slot : /\ isbusy[j] = 1
                        /\ frame[j] = FrameOf(n)
                        /\ data[j] = n

\* "Iterating over buffer to see the first unbusy frame for insertloc"
\* (initmsocket.c 410): the slot that R fills is idle.
IdleSlotFound == ~ FullRace

\* "togetframe: ... the expected frame number to be received by the R thread",
\* "readframe: ... the frame to read" (documentation.txt 54-55): the two follow
\* the messages acknowledged and those read.
NumbersInStep ==
    /\ rpc = "idle" => togetframe = FrameOf(acked + 1)
    /\ upc = "idle" => readframe = FrameOf(Len(delivered) + 1)

\* "reliable data transfer" (README.md 3): access by access, R and m_recvfrom
\* are an ordered buffer of Buf messages between the peer and the user, which
\* takes a message when its payload is in the slot.
InBuffer == acked + IF rpc = "ack" THEN 1 ELSE 0

Channel == INSTANCE ReliableChannel
    WITH Stream <- {"in"}, Capacity <- Buf, taken <- [s \in {"in"} |-> InBuffer],
         received <- [s \in {"in"} |-> delivered], open <- [s \in {"in"} |-> TRUE]

ImplementsChannel == Channel!ChanSpec
=============================================================================
