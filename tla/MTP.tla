-------------------------------- MODULE MTP ---------------------------------
(***************************************************************************)
(* The data transfer of the MTP library: the send and receive buffers of   *)
(* the shared table SM, the user calls m_sendto and m_recvfrom, and the R, *)
(* S and garbage-collector threads of initmsocket.c, over a UDP network    *)
(* that loses, duplicates and reorders.                                    *)
(*                                                                         *)
(* Every call, and every thread's work on one socket or one datagram, is   *)
(* one step: these are the executions in which the R thread, which takes   *)
(* no semaphore (its semop calls are commented out, lines 282 and 538),    *)
(* does not overlap the code that holds sem3.                              *)
(*                                                                         *)
(* A message is its ordinal in the stream of its socket.  The histories    *)
(* (sent, framed, acked, accepted, delivered, and msg/of in a datagram)    *)
(* guard no action but the bound on sends and the expiry of datagrams.     *)
(***************************************************************************)
EXTENDS MTPFrames, Sequences, FiniteSets

CONSTANTS Sock,       \* sockets in use, each bound to its peer by m_bind
          Peer,       \* destIP/destport of every socket
          MsgLimit,   \* bound: how many messages the user of a socket sends
          EmptyMsgs   \* messages whose payload has strlen 0

ASSUME SockAssumption ==
    /\ Peer \in [Sock -> Sock]
    /\ \A s \in Sock : Peer[Peer[s]] = s /\ Peer[s] # s
    /\ MsgLimit \in [Sock -> Nat]
    /\ EmptyMsgs \subseteq Nat

VARIABLES
    sdata, ssize, snext, snextframed,             \* sendbuffer
    wndsize, currframe,                           \* sendwnd
    rdata, insertsize, fetchsize,                 \* receivebuffer
    togetframe, readframe,
    isfree, alive,                                \* SM[i].isfree; the owner runs
    readfds,                                      \* R thread's fd_set
    net,                                          \* datagrams in flight
    sent, framed, acked, accepted, delivered      \* histories

sendvars == <<sdata, ssize, snext, snextframed, wndsize, currframe>>
recvvars == <<rdata, insertsize, fetchsize, togetframe, readframe>>
lifevars == <<isfree, alive>>
vars == <<sendvars, recvvars, lifevars, readfds, net,
          sent, framed, acked, accepted, delivered>>

SendSlot == [isbusy : {0, 1}, frame : {0} \cup Frame, ack : {0, 1}, msg : Nat]
RecvSlot == [isbusy : {0, 1}, frame : {0} \cup Frame, msg : Nat]

\* What the receiving side reads off a datagram, and (of, msg) which message
\* of which socket it is about.
Datagram == [to : Sock, kind : {"data", "ack"}, siz : Nat, frame : Frame,
             of : Sock, msg : Nat]

TypeOK ==
    /\ sdata \in [Sock -> [Slot -> SendSlot]]
    /\ ssize \in [Sock -> Nat]
    /\ snext \in [Sock -> Slot]
    /\ snextframed \in [Sock -> Slot]
    /\ wndsize \in [Sock -> Nat]
    /\ currframe \in [Sock -> Frame]
    /\ rdata \in [Sock -> [Slot -> RecvSlot]]
    /\ insertsize \in [Sock -> Nat]
    /\ fetchsize \in [Sock -> Nat]
    /\ togetframe \in [Sock -> Frame]
    /\ readframe \in [Sock -> Frame]
    /\ isfree \in [Sock -> {0, 1}]
    /\ alive \in [Sock -> BOOLEAN]
    /\ readfds \in SUBSET Sock
    /\ net \in SUBSET Datagram
    /\ sent \in [Sock -> Nat]
    /\ framed \in [Sock -> Nat]
    /\ acked \in [Sock -> Nat]
    /\ accepted \in [Sock -> Nat]
    /\ delivered \in [Sock -> Seq(Nat)]
-----------------------------------------------------------------------------
\* initializebuffers(), which m_socket and the garbage collector call.
EmptySendSlot == [isbusy |-> 0, frame |-> 0, ack |-> 0, msg |-> 0]
EmptyRecvSlot == [isbusy |-> 0, frame |-> 0, msg |-> 0]

\* Both sockets are created, bound to each other and watched by the R thread.
Init ==
    /\ sdata = [s \in Sock |-> [j \in Slot |-> EmptySendSlot]]
    /\ ssize = [s \in Sock |-> 0]
    /\ snext = [s \in Sock |-> 0]
    /\ snextframed = [s \in Sock |-> 0]
    /\ wndsize = [s \in Sock |-> 1]
    /\ currframe = [s \in Sock |-> 1]
    /\ rdata = [s \in Sock |-> [j \in Slot |-> EmptyRecvSlot]]
    /\ insertsize = [s \in Sock |-> Buf]
    /\ fetchsize = [s \in Sock |-> 0]
    /\ togetframe = [s \in Sock |-> 1]
    /\ readframe = [s \in Sock |-> 1]
    /\ isfree = [s \in Sock |-> 0]
    /\ alive = [s \in Sock |-> TRUE]
    /\ readfds = Sock
    /\ net = {}
    /\ sent = [s \in Sock |-> 0]
    /\ framed = [s \in Sock |-> 0]
    /\ acked = [s \in Sock |-> 0]
    /\ accepted = [s \in Sock |-> 0]
    /\ delivered = [s \in Sock |-> <<>>]
-----------------------------------------------------------------------------
(* The user's calls *)

\* m_sendto: refused (-1, nothing changes) when size is 5 or the next slot
\* is busy; otherwise the message takes slot next, not framed yet.
m_sendto(s) ==
    /\ alive[s]
    /\ sent[s] < MsgLimit[s]
    /\ ssize[s] # Buf
    /\ sdata[s][snext[s]].isbusy = 0
    /\ sdata' = [sdata EXCEPT ![s][snext[s]] =
                    [isbusy |-> 1, frame |-> 0, ack |-> 0, msg |-> sent[s] + 1]]
    /\ ssize' = [ssize EXCEPT ![s] = @ + 1]
    /\ snext' = [snext EXCEPT ![s] = (@ + 1) % Buf]
    /\ sent' = [sent EXCEPT ![s] = @ + 1]
    /\ UNCHANGED <<snextframed, wndsize, currframe, recvvars, lifevars, readfds,
                   net, framed, acked, accepted, delivered>>

\* Mutant of FirstSlot: the search never leaves slot 0.
FirstSlotZero(S) == 0

\* The first slot of a set, as "for (j = 0; ...) if (...) break" finds it.
FirstSlot(S) == CHOOSE j \in S : \A k \in S : j <= k

\* Mutant of Readable: any busy slot will do.
ReadableAny(s) == { j \in Slot : rdata[s][j].isbusy = 1 }

Readable(s) == { j \in Slot : rdata[s][j].frame = readframe[s]
                              /\ rdata[s][j].isbusy = 1 }

\* m_recvfrom: returns the message whose frame is readframe (-1 when
\* fetchsize is 0 or no slot has it) and frees its slot.
m_recvfrom(s) ==
    /\ alive[s]
    /\ fetchsize[s] # 0
    /\ Readable(s) # {}
    /\ LET j == FirstSlot(Readable(s)) IN
        /\ rdata' = [rdata EXCEPT ![s][j] =
                        [isbusy |-> 0, frame |-> 0, msg |-> rdata[s][j].msg]]
        /\ delivered' = [delivered EXCEPT ![s] = Append(@, rdata[s][j].msg)]
    /\ fetchsize' = [fetchsize EXCEPT ![s] = @ - 1]
    /\ insertsize' = [insertsize EXCEPT ![s] = @ + 1]
    /\ readframe' = [readframe EXCEPT ![s] = NextFrame(@)]
    /\ UNCHANGED <<sendvars, togetframe, lifevars, readfds, net,
                   sent, framed, acked, accepted>>

\* The user's process returns from main or is killed.
Exit(s) ==
    /\ alive[s]
    /\ alive' = [alive EXCEPT ![s] = FALSE]
    /\ UNCHANGED <<sendvars, recvvars, isfree, readfds, net,
                   sent, framed, acked, accepted, delivered>>
-----------------------------------------------------------------------------
(* The S thread *)

\* header_ack(): four digits of frame number, then the payload.  A payload
\* of length 0 leaves the four digits "00ff", which is_ack_message() accepts.
DataGram(s, slot) ==
    [to |-> Peer[s], kind |-> IF slot.msg \in EmptyMsgs THEN "ack" ELSE "data",
     siz |-> 0, frame |-> slot.frame, of |-> s, msg |-> slot.msg]

\* Sthreadfunc, first loop: the timeout (5 microseconds) has always passed
\* when a new round begins, and every unacknowledged frame is sent again.
Unacked(s) == { j \in Slot : /\ sdata[s][j].isbusy = 1
                             /\ sdata[s][j].ack = 0
                             /\ sdata[s][j].frame # 0 }

SResend(s) ==
    /\ isfree[s] = 0
    /\ Unacked(s) # {}
    /\ net' = net \cup { DataGram(s, sdata[s][j]) : j \in Unacked(s) }
    /\ UNCHANGED <<sendvars, recvvars, lifevars, readfds,
                   sent, framed, acked, accepted, delivered>>

\* Datagrams of s that are too old to live when its newest message is framed.
Expired(s, newest) == { d \in net : d.of = s /\ d.msg + Lifetime <= newest }

\* Sthreadfunc, second loop, one round of its while: the message at
\* nextframed gets the next frame number, uses one unit of window and is sent.
SSend(s) ==
    LET j    == snextframed[s]
        slot == [sdata[s][j] EXCEPT !.frame = currframe[s]]
    IN  /\ isfree[s] = 0
        /\ ssize[s] > 0
        /\ wndsize[s] > 0
        /\ sdata[s][j].isbusy = 1
        /\ sdata[s][j].frame = 0
        /\ sdata' = [sdata EXCEPT ![s][j] = slot]
        /\ currframe' = [currframe EXCEPT ![s] = NextFrame(@)]
        /\ snextframed' = [snextframed EXCEPT ![s] = (@ + 1) % Buf]
        /\ wndsize' = [wndsize EXCEPT ![s] = @ - 1]
        /\ framed' = [framed EXCEPT ![s] = @ + 1]
        /\ net' = (net \ Expired(s, framed[s] + 1)) \cup { DataGram(s, slot) }
        /\ UNCHANGED <<ssize, snext, recvvars, lifevars, readfds,
                       sent, acked, accepted, delivered>>
-----------------------------------------------------------------------------
(* The R thread *)

\* select() times out: the watched set is rebuilt from the table.
RTimeout ==
    /\ readfds' = { s \in Sock : isfree[s] = 0 }
    /\ UNCHANGED <<sendvars, recvvars, lifevars, net,
                   sent, framed, acked, accepted, delivered>>

\* select() returns with datagram d ready on socket s: the fd_set shrinks to
\* the ready sockets.  The network may deliver d again, so it stays in net.
Arrives(s, d) ==
    /\ d \in net
    /\ d.to = s
    /\ s \in readfds
    /\ \E ready \in SUBSET readfds : s \in ready /\ readfds' = ready

\* datasendack(): the acknowledgement that answers data datagram d, carrying
\* the receive buffer's free space n.
AckOf(d, n) == [to |-> d.of, kind |-> "ack", siz |-> n, frame |-> d.frame,
                of |-> d.of, msg |-> d.msg]

\* Mutant of Idle: isbusy is not looked at.
IdleAll(s) == Slot

Idle(s) == { j \in Slot : rdata[s][j].isbusy = 0 }

\* The expected frame is stored and acknowledged.  wheretoinsert stays 0 when
\* no slot is idle.
RAccept(s, d) ==
    /\ Arrives(s, d)
    /\ d.kind = "data"
    /\ insertsize[s] # 0
    /\ d.frame \in RecvWindow(togetframe[s], insertsize[s])
    /\ d.frame = togetframe[s]
    /\ LET w == IF Idle(s) = {} THEN 0 ELSE FirstSlot(Idle(s)) IN
        rdata' = [rdata EXCEPT ![s][w] =
                    [isbusy |-> 1, frame |-> d.frame, msg |-> d.msg]]
    /\ togetframe' = [togetframe EXCEPT ![s] = NextFrame(d.frame)]
    /\ fetchsize' = [fetchsize EXCEPT ![s] = @ + 1]
    /\ insertsize' = [insertsize EXCEPT ![s] = @ - 1]
    /\ net' = net \cup { AckOf(d, insertsize[s] - 1) }
    /\ accepted' = [accepted EXCEPT ![s] = @ + 1]
    /\ UNCHANGED <<sendvars, readframe, lifevars, sent, framed, acked, delivered>>

\* A frame outside the window counts as already received: acknowledged again.
RReack(s, d) ==
    /\ Arrives(s, d)
    /\ d.kind = "data"
    /\ insertsize[s] # 0
    /\ d.frame \notin RecvWindow(togetframe[s], insertsize[s])
    /\ net' = net \cup { AckOf(d, insertsize[s]) }
    /\ UNCHANGED <<sendvars, recvvars, lifevars,
                   sent, framed, acked, accepted, delivered>>

\* Ignored: no space (nospace = 1), or in the window but not the expected one.
RIgnore(s, d) ==
    /\ Arrives(s, d)
    /\ d.kind = "data"
    /\ \/ insertsize[s] = 0
       \/ /\ d.frame \in RecvWindow(togetframe[s], insertsize[s])
          /\ d.frame # togetframe[s]
    /\ UNCHANGED <<sendvars, recvvars, lifevars, net,
                   sent, framed, acked, accepted, delivered>>

\* Mutant of AckMatches: the frame number is not compared.
AckMatchesAny(s, d) == { j \in Slot : sdata[s][j].isbusy = 1 /\ sdata[s][j].ack = 0 }

\* An acknowledgement frees every slot it matches; each gives back one unit
\* of window.  The free space it carries (siz) is not used.
AckMatches(s, d) == { j \in Slot : /\ sdata[s][j].frame = d.frame
                                   /\ sdata[s][j].isbusy = 1
                                   /\ sdata[s][j].ack = 0 }

RAck(s, d) ==
    LET hit == AckMatches(s, d) IN
    /\ Arrives(s, d)
    /\ d.kind = "ack"
    /\ sdata' = [sdata EXCEPT ![s] = [j \in Slot |->
                    IF j \in hit
                    THEN [isbusy |-> 0, frame |-> 0, ack |-> 1, msg |-> sdata[s][j].msg]
                    ELSE sdata[s][j]]]
    /\ wndsize' = [wndsize EXCEPT ![s] = @ + Cardinality(hit)]
    /\ ssize' = [ssize EXCEPT ![s] = @ - Cardinality(hit)]
    /\ acked' = [acked EXCEPT ![s] = @ + Cardinality(hit)]
    /\ UNCHANGED <<snext, snextframed, currframe, recvvars, lifevars, net,
                   sent, framed, accepted, delivered>>

\* A datagram is lost, in the network or by dropMessage() when it arrives: the
\* two look the same, so the loss is placed at the arrival.
Lose(d) ==
    /\ Arrives(d.to, d)
    /\ net' = net \ {d}
    /\ UNCHANGED <<sendvars, recvvars, lifevars,
                   sent, framed, acked, accepted, delivered>>
-----------------------------------------------------------------------------
(* The garbage collector *)

\* Mutant of noofackleft: isbusy is not looked at.
noofackleftAll(s) == Cardinality({ j \in Slot : sdata[s][j].ack = 0 })

noofackleft(s) == Cardinality({ j \in Slot : sdata[s][j].isbusy = 1
                                             /\ sdata[s][j].ack = 0 })

GC(s) ==
    /\ isfree[s] = 0
    /\ noofackleft(s) = 0
    /\ fetchsize[s] = 0
    /\ ~alive[s]
    /\ isfree' = [isfree EXCEPT ![s] = 1]
    /\ sdata' = [sdata EXCEPT ![s] = [j \in Slot |-> EmptySendSlot]]
    /\ ssize' = [ssize EXCEPT ![s] = 0]
    /\ snext' = [snext EXCEPT ![s] = 0]
    /\ snextframed' = [snextframed EXCEPT ![s] = 0]
    /\ wndsize' = [wndsize EXCEPT ![s] = 1]
    /\ currframe' = [currframe EXCEPT ![s] = 1]
    /\ rdata' = [rdata EXCEPT ![s] = [j \in Slot |-> EmptyRecvSlot]]
    /\ insertsize' = [insertsize EXCEPT ![s] = Buf]
    /\ fetchsize' = [fetchsize EXCEPT ![s] = 0]
    /\ togetframe' = [togetframe EXCEPT ![s] = 1]
    /\ readframe' = [readframe EXCEPT ![s] = 1]
    /\ UNCHANGED <<alive, readfds, net, sent, framed, acked, accepted, delivered>>
-----------------------------------------------------------------------------
RHandle(s, d) == RAccept(s, d) \/ RReack(s, d) \/ RIgnore(s, d) \/ RAck(s, d)

Next ==
    \/ RTimeout
    \/ \E s \in Sock :
        \/ m_sendto(s) \/ m_recvfrom(s) \/ Exit(s)
        \/ SResend(s) \/ SSend(s)
        \/ GC(s)
        \/ \E d \in net : RHandle(s, d)
    \/ \E d \in net : Lose(d)

Spec == Init /\ [][Next]_vars
-----------------------------------------------------------------------------
(* Safety *)

Outstanding(s) == { j \in Slot : /\ sdata[s][j].isbusy = 1
                                 /\ sdata[s][j].frame # 0 }

BusySend(s) == { j \in Slot : sdata[s][j].isbusy = 1 }
BusyRecv(s) == { j \in Slot : rdata[s][j].isbusy = 1 }

\* Every message m_sendto accepted is in the send buffer, in the peer's
\* receive buffer, or delivered to the peer's user: an acknowledgement never
\* frees a slot whose message the peer has not stored (Rthreadfunc 516-524).
NoMessageVanishes ==
    \A s \in Sock : isfree[Peer[s]] = 0 =>
        \A n \in 1..sent[s] :
            \/ \E j \in BusySend(s) : sdata[s][j].msg = n
            \/ \E j \in BusyRecv(Peer[s]) : rdata[Peer[s]][j].msg = n
            \/ \E k \in DOMAIN delivered[Peer[s]] : delivered[Peer[s]][k] = n

\* The three counters that user processes and threads update separately from
\* the slots agree with the slots (msocket.c 348, 428-433; initmsocket.c
\* 428-430, 517-522).
CountersMatchSlots ==
    \A s \in Sock :
        /\ ssize[s] = Cardinality(BusySend(s))
        /\ fetchsize[s] = Cardinality(BusyRecv(s))
        /\ insertsize[s] = Buf - fetchsize[s]

\* The window starts at 1 and only acknowledgements give it back, so at most
\* one frame is ever unacknowledged: the sender is stop-and-wait.
OneOutstanding ==
    \A s \in Sock : wndsize[s] + Cardinality(Outstanding(s)) = 1

\* The branches the code marks as errors are dead: "Some issue with buffer is
\* free" (msocket.c 337), "Error: Frame already framed" (initmsocket.c 675),
\* a fetch that finds no slot although fetchsize is not 0 (msocket.c 425-446),
\* and an insertion without an idle slot (initmsocket.c 411).
ErrorBranchesDead ==
    \A s \in Sock :
        /\ ssize[s] # Buf => sdata[s][snext[s]].isbusy = 0
        /\ ssize[s] > 0 /\ wndsize[s] > 0 =>
              /\ sdata[s][snextframed[s]].isbusy = 1
              /\ sdata[s][snextframed[s]].frame = 0
        /\ fetchsize[s] # 0 => Readable(s) # {}
        /\ insertsize[s] # 0 => Idle(s) # {}

\* A stored message leaves its slot only when the user reads that message: no
\* insertion and no collection overwrites an unread one.
UnreadKept ==
    [][\A s \in Sock : \A j \in BusyRecv(s) :
          \/ rdata'[s][j] = rdata[s][j]
          \/ delivered'[s] = Append(delivered[s], rdata[s][j].msg)]_vars

-----------------------------------------------------------------------------
(* Refinement *)

\* The stream from s to its peer: a full send buffer and a full receive buffer
\* are the most that can be under way.
Channel == INSTANCE ReliableChannel
    WITH Stream <- Sock, Capacity <- 2 * Buf, taken <- sent,
         received <- [s \in Sock |-> delivered[Peer[s]]],
         open <- [s \in Sock |-> isfree[Peer[s]] = 0]

\* Every direction is a reliable channel: in order, exactly once, bounded.
ImplementsChannel == Channel!ChanSpec
-----------------------------------------------------------------------------
(* Liveness *)

\* The R thread handles a datagram about message n.
Handle(s, kind, n) ==
    \E d \in net : d.kind = kind /\ d.msg = n /\ RHandle(s, d)

\* The R, S and collector threads are loops that never stop; the user keeps polling
\* m_recvfrom (as user2.c does); select() times out between two rounds of S;
\* the network and dropMessage() do not discard every copy of a datagram.
Fairness ==
    /\ WF_vars(RTimeout)
    /\ \A s \in Sock :
        /\ WF_vars(GC(s))
        /\ WF_vars(SResend(s)) /\ WF_vars(SSend(s)) /\ WF_vars(m_recvfrom(s))
        /\ \A n \in 1..MsgLimit[s] :
            /\ SF_vars(Handle(Peer[s], "data", n))
            /\ SF_vars(Handle(s, "ack", n))

FairSpec == Spec /\ Fairness

\* What m_sendto accepts is delivered, even if the sender exits first (the
\* collector waits for noofackleft() = 0), unless the receiver exits.
EventuallyDelivered ==
    \A s \in Sock : \A n \in 1..MsgLimit[s] :
        sent[s] >= n ~> Len(delivered[Peer[s]]) >= n \/ ~alive[Peer[s]]

\* The socket of a dead owner is reclaimed once its last messages are
\* acknowledged, unless it holds unread messages or the peer died as well.
Reclaimed ==
    \A s \in Sock :
        ~alive[s] ~> isfree[s] = 1 \/ fetchsize[s] # 0 \/ ~alive[Peer[s]]
-----------------------------------------------------------------------------
(* What the repository says of the program and the code does not do *)

\* "garbagecollector: Thread function to clean up terminated socket processes"
\* (documentation.txt 150): every dead owner's socket is reclaimed.
TerminatedReclaimed == \A s \in Sock : ~alive[s] ~> isfree[s] = 1

\* "window-based flow control" (README.md 3): frames on the way to a receiver
\* never exceed the free space of its buffer.
FlowControl ==
    \A s \in Sock : isfree[Peer[s]] = 0 =>
        framed[s] - accepted[Peer[s]] <= insertsize[Peer[s]]
=============================================================================
