------------------------------ MODULE MTPSetup ------------------------------
(***************************************************************************)
(* How MTP sockets come and go: m_socket, m_bind, m_close, the main loop   *)
(* of initmsocket, which owns the UDP sockets, and the garbage collector.  *)
(* Callers and init share one record (sockinfo) and three semaphores:      *)
(* sem1 wakes init, sem2 wakes the caller, sem3 locks the tables.  None is *)
(* taken with SEM_UNDO.  The buffers of a socket are one bit: does it hold *)
(* messages that are not acknowledged?  (Unread ones keep an entry in the  *)
(* same way; module MTP has them.)  Proc is one run of a user program.     *)
(***************************************************************************)
EXTENDS Integers, FiniteSets

CONSTANTS Proc,          \* user processes; each asks for its own local port
          Foreign,       \* processes init may not signal: kill() gives EPERM
          MaxSocket,     \* MAX_SOCKET (25)
          MaxFd,         \* UDP sockets init's process may open
          To,            \* destinations (ip, port) given to m_sendto
          Serial,        \* one m_socket or m_bind call at a time
          MayCrash,      \* processes may be killed inside m_socket or m_bind
          MayRestart,    \* initmsocket may be killed and started again
          UseClose       \* users call m_close

ASSUME SetupAssumption ==
    /\ Foreign \subseteq Proc /\ IsFiniteSet(Proc)
    /\ MaxSocket \in Nat /\ MaxSocket > 0
    /\ MaxFd \in Nat /\ 0 \notin Proc
    /\ {Serial, MayCrash, MayRestart, UseClose} \subseteq BOOLEAN

VARIABLES
    isfree, isocketcreated, pid, sockfd,   \* SM[i]
    pending, lastto,                       \* messages held; their destination
    sockinfo,                              \* the shared SOCK_INFO
    sem1, sem2, sem3,
    udp,                                   \* what every open descriptor is bound to:
                                           \* a port, 0 (nothing), -1 (a kernel's choice)
    initpc,                                \* where init's main loop is
    pc, call, m_sockid, alive              \* a process, its call and its socket

table == <<isfree, isocketcreated, pid, sockfd, pending, lastto>>
sems == <<sem1, sem2, sem3>>
procs == <<pc, call, m_sockid, alive>>
vars == <<table, sockinfo, sems, udp, initpc, procs>>

Index == 0..(MaxSocket - 1)

\* The destination every socket is bound to; 0 in sockfd or port means none.
Dest == [ip |-> "dest", port |-> "dest"]
NoInfo == [sockfd |-> 0, port |-> 0, errn |-> 0]

\* Places where a process may be: outside calls, and inside m_socket or m_bind.
Outside == {"idle", "open", "bound", "closing", "drained", "closed", "failed"}
Inside == {"scan", "put", "signal", "wait", "lock", "result"}

\* What sockinfo may hold, and what the descriptors 1..n may be bound to.
Requests == [sockfd : -1..MaxFd, port : Proc \cup {0}, errn : {0, 1}]
Tables == UNION { [1..n -> Proc \cup {0, -1}] : n \in 0..MaxFd }

TypeOK ==
    /\ isfree \in [Index -> {0, 1}]
    /\ isocketcreated \in [Index -> {0, 1}]
    /\ pid \in [Index -> Proc \cup {0}]
    /\ sockfd \in [Index -> 0..MaxFd]
    /\ pending \in [Index -> BOOLEAN]
    /\ lastto \in [Index -> To \cup {Dest}]
    /\ sockinfo \in Requests
    /\ sem1 \in Nat /\ sem2 \in Nat /\ sem3 \in {0, 1}
    /\ udp \in Tables
    /\ initpc \in {"wait", "look", "create", "bind", "signal"}
    /\ pc \in [Proc -> Outside \cup Inside]
    /\ call \in [Proc -> {"socket", "bind"}]
    /\ m_sockid \in [Proc -> Index]
    /\ alive \in [Proc -> BOOLEAN]

\* init(), up to its loop.
Init ==
    /\ isfree = [i \in Index |-> 1]
    /\ isocketcreated = [i \in Index |-> 0]
    /\ pid = [i \in Index |-> 0]
    /\ sockfd = [i \in Index |-> 0]
    /\ pending = [i \in Index |-> FALSE]
    /\ lastto = [i \in Index |-> Dest]
    /\ sockinfo = NoInfo
    /\ sem1 = 0 /\ sem2 = 0 /\ sem3 = 1
    /\ udp = <<>>
    /\ initpc = "wait"
    /\ pc = [p \in Proc |-> "idle"]
    /\ call = [p \in Proc |-> "socket"]
    /\ m_sockid = [p \in Proc |-> 0]
    /\ alive = [p \in Proc |-> TRUE]
-----------------------------------------------------------------------------
(* m_socket and m_bind *)

At(p, where) == alive[p] /\ pc[p] = where

Goto(p, where) == pc' = [pc EXCEPT ![p] = where]

\* Environment: how callers are scheduled.
MayCall(p) == Serial => \A q \in Proc \ {p} : ~alive[q] \/ pc[q] \in Outside

\* semop(sem3, wait) at the start of either call.
Enter(p, from, to, name) ==
    /\ At(p, from)
    /\ MayCall(p)
    /\ sem3 = 1
    /\ sem3' = 0
    /\ Goto(p, to)
    /\ call' = [call EXCEPT ![p] = name]
    /\ UNCHANGED <<table, sockinfo, sem1, sem2, udp, initpc, m_sockid, alive>>

SocketEnter(p) == Enter(p, "idle", "scan", "socket")
BindEnter(p) == Enter(p, "open", "put", "bind")

FreeIndexes == { i \in Index : isfree[i] = 1 }

\* Mutant of SocketScan: the entry is not marked before sem3 is given up.
SocketScanUnmarked(p) ==
    /\ At(p, "scan")
    /\ \E i \in FreeIndexes :
        /\ \A k \in FreeIndexes : i <= k
        /\ pid' = [pid EXCEPT ![i] = p]
        /\ m_sockid' = [m_sockid EXCEPT ![p] = i]
    /\ sockinfo' = NoInfo
    /\ sem3' = 1
    /\ Goto(p, "signal")
    /\ UNCHANGED <<isfree, isocketcreated, sockfd, pending, lastto, sem1, sem2, udp,
                   initpc, call, alive>>

\* m_socket takes the first free entry and clears sockinfo.
SocketScan(p) ==
    /\ At(p, "scan")
    /\ \E i \in FreeIndexes :
        /\ \A k \in FreeIndexes : i <= k
        /\ isfree' = [isfree EXCEPT ![i] = 0]
        /\ pid' = [pid EXCEPT ![i] = p]
        /\ m_sockid' = [m_sockid EXCEPT ![p] = i]
    /\ sockinfo' = NoInfo
    /\ sem3' = 1
    /\ Goto(p, "signal")
    /\ UNCHANGED <<isocketcreated, sockfd, pending, lastto, sem1, sem2, udp,
                   initpc, call, alive>>

\* No entry is free: m_socket returns -1 and keeps sem3.
SocketFull(p) ==
    /\ At(p, "scan")
    /\ FreeIndexes = {}
    /\ Goto(p, "failed")
    /\ UNCHANGED <<table, sockinfo, sems, udp, initpc, call, m_sockid, alive>>

\* Mutant of BindPut: sem3 is not given up.
BindPutLocked(p) ==
    /\ At(p, "put")
    /\ sockinfo' = [sockfd |-> sockfd[m_sockid[p]], port |-> p, errn |-> 0]
    /\ Goto(p, "signal")
    /\ UNCHANGED <<table, sems, udp, initpc, call, m_sockid, alive>>

\* m_bind passes the descriptor and its local port to init.
BindPut(p) ==
    /\ At(p, "put")
    /\ sockinfo' = [sockfd |-> sockfd[m_sockid[p]], port |-> p, errn |-> 0]
    /\ sem3' = 1
    /\ Goto(p, "signal")
    /\ UNCHANGED <<table, sem1, sem2, udp, initpc, call, m_sockid, alive>>

\* Both calls wake init, wait for its answer and lock the tables again.
Signal(p) ==
    /\ At(p, "signal")
    /\ sem1' = sem1 + 1
    /\ Goto(p, "wait")
    /\ UNCHANGED <<table, sockinfo, sem2, sem3, udp, initpc, call, m_sockid, alive>>

Wait(p) ==
    /\ At(p, "wait")
    /\ sem2 > 0
    /\ sem2' = sem2 - 1
    /\ Goto(p, "lock")
    /\ UNCHANGED <<table, sockinfo, sem1, sem3, udp, initpc, call, m_sockid, alive>>

\* Mutant of Relock: sem3 is not taken again.
RelockNot(p) ==
    /\ At(p, "lock")
    /\ Goto(p, "result")
    /\ UNCHANGED <<table, sockinfo, sems, udp, initpc, call, m_sockid, alive>>

Relock(p) ==
    /\ At(p, "lock")
    /\ sem3 = 1
    /\ sem3' = 0
    /\ Goto(p, "result")
    /\ UNCHANGED <<table, sockinfo, sem1, sem2, udp, initpc, call, m_sockid, alive>>

\* m_socket fills its entry with the descriptor init left in sockinfo.
SocketDone(p) ==
    LET i == m_sockid[p] IN
    /\ At(p, "result") /\ call[p] = "socket"
    /\ sockinfo.sockfd # -1
    /\ sockfd' = [sockfd EXCEPT ![i] = sockinfo.sockfd]
    /\ pid' = [pid EXCEPT ![i] = p]
    /\ pending' = [pending EXCEPT ![i] = FALSE]
    /\ sockinfo' = NoInfo
    /\ sem3' = 1
    /\ Goto(p, "open")
    /\ UNCHANGED <<isfree, isocketcreated, lastto, sem1, sem2, udp, initpc,
                   call, m_sockid, alive>>

\* init could not create a socket: m_socket returns -1 and keeps sem3.
SocketError(p) ==
    /\ At(p, "result") /\ call[p] = "socket"
    /\ sockinfo.sockfd = -1
    /\ sockinfo' = NoInfo
    /\ Goto(p, "failed")
    /\ UNCHANGED <<table, sems, udp, initpc, call, m_sockid, alive>>

\* m_bind reports what init answered; the user may call it again after -1.
BindResult(p) ==
    LET i == m_sockid[p] IN
    /\ At(p, "result") /\ call[p] = "bind"
    /\ IF sockinfo.sockfd = -1
       THEN Goto(p, "open") /\ UNCHANGED isocketcreated
       ELSE Goto(p, "bound") /\ isocketcreated' = [isocketcreated EXCEPT ![i] = 1]
    /\ sockinfo' = NoInfo
    /\ sem3' = 1
    /\ UNCHANGED <<isfree, pid, sockfd, pending, lastto, sem1, sem2, udp, initpc,
                   call, m_sockid, alive>>
-----------------------------------------------------------------------------
(* The main loop of init() *)

InitWake ==
    /\ initpc = "wait"
    /\ sem1 > 0
    /\ sem1' = sem1 - 1
    /\ initpc' = "look"
    /\ UNCHANGED <<table, sockinfo, sem2, sem3, udp, procs>>

\* Mutant of InitLook: every request is taken for a creation.
InitLookCreate ==
    /\ initpc = "look"
    /\ initpc' = "create"
    /\ UNCHANGED <<table, sockinfo, sems, udp, procs>>

\* A cleared sockinfo means "create", read before sem3 is taken.
InitLook ==
    /\ initpc = "look"
    /\ initpc' = IF sockinfo = NoInfo THEN "create" ELSE "bind"
    /\ UNCHANGED <<table, sockinfo, sems, udp, procs>>

\* Mutant of InitCreate: a failure of socket() goes unnoticed.
InitCreateUnchecked ==
    LET n == Cardinality(DOMAIN udp) IN
    /\ initpc = "create"
    /\ sem3 = 1
    /\ udp' = [k \in 1..(n + 1) |-> IF k <= n THEN udp[k] ELSE 0]
    /\ sockinfo' = [sockinfo EXCEPT !.sockfd = n + 1]
    /\ initpc' = "signal"
    /\ UNCHANGED <<table, sems, procs>>

InitCreate ==
    LET n == Cardinality(DOMAIN udp) IN
    /\ initpc = "create"
    /\ sem3 = 1
    /\ IF n < MaxFd
       THEN /\ udp' = [k \in 1..(n + 1) |-> IF k <= n THEN udp[k] ELSE 0]
            /\ sockinfo' = [sockinfo EXCEPT !.sockfd = n + 1]
       ELSE /\ sockinfo' = [sockinfo EXCEPT !.sockfd = -1, !.errn = 1]
            /\ UNCHANGED udp
    /\ initpc' = "signal"
    /\ UNCHANGED <<table, sems, procs>>

\* bind() needs an open, unbound socket and a port nobody has.  It may fail for
\* other reasons; with a cleared sockinfo (port 0, no address) it binds to a
\* port of the kernel's choice.
Bindable(fd, port) ==
    /\ fd \in DOMAIN udp
    /\ udp[fd] = 0
    /\ port # 0 => \A k \in DOMAIN udp : udp[k] # port

InitBind ==
    /\ initpc = "bind"
    /\ sem3 = 1
    /\ \/ /\ Bindable(sockinfo.sockfd, sockinfo.port)
          /\ udp' = [udp EXCEPT ![sockinfo.sockfd] =
                        IF sockinfo.port = 0 THEN -1 ELSE sockinfo.port]
          /\ UNCHANGED sockinfo
       \/ /\ sockinfo' = [sockinfo EXCEPT !.sockfd = -1, !.errn = 1]
          /\ UNCHANGED udp
    /\ initpc' = "signal"
    /\ UNCHANGED <<table, sems, procs>>

\* Mutant of InitSignal: init answers without counting on sem2.
InitSignalLost ==
    /\ initpc = "signal"
    /\ sem2' = 1
    /\ initpc' = "wait"
    /\ UNCHANGED <<table, sockinfo, sem1, sem3, udp, procs>>

InitSignal ==
    /\ initpc = "signal"
    /\ sem2' = sem2 + 1
    /\ initpc' = "wait"
    /\ UNCHANGED <<table, sockinfo, sem1, sem3, udp, procs>>
\* Environment: when initmsocket is restarted.
MayStart == Serial => \A p \in Proc : ~alive[p] \/ pc[p] \in {"idle", "closed", "failed"}

\* initmsocket is killed, its UDP sockets are closed with it, and a new one runs
\* init() up to the loop: shared memory and semaphores exist already and are set
\* anew, whoever uses them.  (One step: callers that act in between are as ones
\* that act before or after.)
Restart ==
    /\ MayRestart /\ MayStart
    /\ isfree' = [i \in Index |-> 1]
    /\ isocketcreated' = [i \in Index |-> 0]
    /\ pending' = [i \in Index |-> FALSE]
    /\ sockinfo' = NoInfo
    /\ sem1' = 0 /\ sem2' = 0 /\ sem3' = 1
    /\ udp' = <<>>
    /\ initpc' = "wait"
    /\ UNCHANGED <<pid, sockfd, lastto, procs>>
-----------------------------------------------------------------------------
(* Use and end of a socket *)

\* "Matching destination IP and port" (msocket.c 313-322).
Matches(to) == to.ip = Dest.ip \/ to.port = Dest.port

m_sendto(p, to) ==
    LET i == m_sockid[p] IN
    /\ At(p, "bound")
    /\ sem3 = 1
    /\ Matches(to)
    /\ ~pending[i]
    /\ pending' = [pending EXCEPT ![i] = TRUE]
    /\ lastto' = [lastto EXCEPT ![i] = to]
    /\ UNCHANGED <<isfree, isocketcreated, pid, sockfd, sockinfo, sems, udp,
                   initpc, procs>>

\* R, which takes no semaphore, stores the acknowledgement of the last message,
\* also for an entry that m_close has freed: it looks at its fd_set.  Nothing
\* makes the acknowledgement come: the peer may be gone.
Settle(i) ==
    /\ pending[i]
    /\ pending' = [pending EXCEPT ![i] = FALSE]
    /\ UNCHANGED <<isfree, isocketcreated, pid, sockfd, lastto, sockinfo, sems,
                   udp, initpc, procs>>

\* A round of m_close's loop frees the entry, in every round, and the loop ends
\* after one that finds no message left.  Then sem3 is taken once more for
\* close(): in the caller's process the descriptor is another file or none, and
\* the UDP socket, which is init's, stays open.
m_close(p) ==
    LET i == m_sockid[p] IN
    /\ UseClose
    /\ sem3 = 1
    /\ \/ /\ At(p, "bound") \/ At(p, "closing")
          /\ isfree' = [isfree EXCEPT ![i] = 1]
          /\ Goto(p, IF pending[i] THEN "closing" ELSE "drained")
       \/ /\ At(p, "drained")
          /\ Goto(p, "closed")
          /\ UNCHANGED isfree
    /\ UNCHANGED <<isocketcreated, pid, sockfd, pending, lastto, sockinfo, sems,
                   udp, initpc, call, m_sockid, alive>>

\* The process returns from main, or is killed; nothing is given back.
Exit(p) ==
    /\ alive[p]
    /\ pc[p] \in Outside \/ MayCrash
    /\ alive' = [alive EXCEPT ![p] = FALSE]
    /\ UNCHANGED <<table, sockinfo, sems, udp, initpc, pc, call, m_sockid>>

\* Mutant of KillFails: the test is inverted.
KillSucceeds(p) == alive[p] /\ p \notin Foreign

\* kill(pid, 0) gives -1 for a dead process and for one of another user.
KillFails(p) == ~alive[p] \/ p \in Foreign

GC(i) ==
    /\ sem3 = 1
    /\ isfree[i] = 0
    /\ ~pending[i]
    /\ KillFails(pid[i])
    /\ isfree' = [isfree EXCEPT ![i] = 1]
    /\ isocketcreated' = [isocketcreated EXCEPT ![i] = 0]
    /\ UNCHANGED <<pid, sockfd, pending, lastto, sockinfo, sems, udp, initpc, procs>>
-----------------------------------------------------------------------------
InitLoop == InitWake \/ InitLook \/ InitCreate \/ InitBind \/ InitSignal

Continue(p) ==
    \/ SocketScan(p) \/ SocketFull(p) \/ BindPut(p)
    \/ Signal(p) \/ Wait(p) \/ Relock(p)
    \/ SocketDone(p) \/ SocketError(p) \/ BindResult(p)

Call(p) == SocketEnter(p) \/ BindEnter(p) \/ Continue(p)

Next ==
    \/ InitLoop \/ Restart
    \/ \E p \in Proc : Call(p) \/ (\E to \in To : m_sendto(p, to)) \/ m_close(p) \/ Exit(p)
    \/ \E i \in Index : Settle(i) \/ GC(i)

Spec == Init /\ [][Next]_vars

\* init and its threads never stop, nor does a caller inside a call; semop()
\* wakes the waiting in turn.  Nothing is assumed of the peers, nor of which
\* entry the collector frees first.
Fairness ==
    /\ SF_vars(InitLoop)
    /\ \A p \in Proc : SF_vars(Continue(p))
    /\ SF_vars(\E i \in Index : GC(i))

FairSpec == Spec /\ Fairness
-----------------------------------------------------------------------------
(* Safety *)

\* A live process has an entry from the scan in m_socket on, up to m_close.
Owner(p) ==
    /\ alive[p]
    /\ \/ pc[p] \in {"open", "bound", "put"}
       \/ pc[p] \in {"signal", "wait", "lock", "result"}

\* No entry has two owners, and the owner's entry is taken, in its name: the
\* scan reserves it before m_socket first gives up sem3 (msocket.c 58-78).
EntryExclusive ==
    \A p \in Proc : Owner(p) =>
        /\ isfree[m_sockid[p]] = 0
        /\ pid[m_sockid[p]] = p
        /\ \A q \in Proc \ {p} : Owner(q) => m_sockid[q] # m_sockid[p]

\* Every caller that woke init, dead by now or not, has one answer coming: the
\* two semaphores neither lose a wake-up nor make one up.
Waiting == { p \in Proc : pc[p] = "wait" }

NoStrayWakeup ==
    sem1 + sem2 + (IF initpc = "wait" THEN 0 ELSE 1) = Cardinality(Waiting)

\* sem3 is down exactly while one live process is between its two semop calls.
Holders == { p \in Proc : pc[p] \in {"scan", "put", "result"} }

LockHeld == Cardinality(Holders) = 1 - sem3 /\ \A p \in Holders : alive[p]

\* A process has a UDP socket of its own, and after m_bind it is bound to the
\* port the process asked for, as long as nobody uses m_close.
OwnDescriptor ==
    \A p \in Proc : alive[p] /\ pc[p] \in {"open", "bound"} =>
        LET fd == sockfd[m_sockid[p]] IN
        /\ fd \in DOMAIN udp
        /\ pc[p] = "bound" => udp[fd] = p
        /\ \A q \in Proc \ {p} : alive[q] /\ pc[q] \in {"open", "bound"} =>
              sockfd[m_sockid[q]] # fd

\* A call that woke init returns.
CallReturns ==
    \A p \in Proc : pc[p] = "signal" ~> pc[p] \in Outside \/ ~alive[p]

\* "clean up terminated socket processes" (documentation.txt 150): the entry of
\* a process that dies does not stay taken in its name, unless it holds messages,
\* which the collector waits for.
CleansUp ==
    \A i \in Index :
        LET Left == isfree[i] = 0 /\ pid[i] \in Proc /\ ~alive[pid[i]]
        IN  Left ~> ~Left \/ pending[i]
-----------------------------------------------------------------------------
(* What the repository says of the program and the code does not do *)

\* "Checking if all the messages are sent and received" (msocket.c 489): an
\* entry m_close frees holds none.
ClosedWhenSent ==
    [][\A i \in Index : isfree[i] = 0 /\ isfree'[i] = 1 => ~pending[i]]_vars

\* "Process is dead" (initmsocket.c 746): the entry the collector frees, and
\* nobody closed, is of a process that is dead.
FreedWhenDead ==
    [][\A i \in Index : isfree[i] = 0 /\ isfree'[i] = 1 => ~alive[pid[i]]]_vars

\* "Matching destination IP and port" (msocket.c 313).
OnlyBoundDestination == \A i \in Index : pending[i] => lastto[i] = Dest

\* "clean up terminated socket processes" (documentation.txt 150): a port is
\* bound only as long as a socket in use has it.
PortsInUse ==
    \A k \in DOMAIN udp : udp[k] \in Proc =>
        \E i \in Index : isfree[i] = 0 /\ sockfd[i] = k
=============================================================================
