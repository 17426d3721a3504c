--------------------------- MODULE MTPSetupProofs ---------------------------
(***************************************************************************)
(* Theorems about MTPSetup, for any number of processes, entries and       *)
(* descriptors.                                                            *)
(***************************************************************************)
EXTENDS MTPSetup, FiniteSetTheorems, TLAPS

(***************************************************************************)
(* Types.                                                                  *)
(***************************************************************************)

\* A descriptor table has the descriptors 1 to n.
LEMMA TableSize ==
  ASSUME NEW t \in Tables
  PROVE  \E n \in 0..MaxFd : /\ DOMAIN t = 1..n
                             /\ Cardinality(DOMAIN t) = n
                             /\ t \in [1..n -> Proc \cup {0, -1}]
<1>1. PICK n \in 0..MaxFd : t \in [1..n -> Proc \cup {0, -1}]
  BY DEF Tables
<1>2. n \in Nat /\ DOMAIN t = 1..n
  BY <1>1, SetupAssumption
<1>3. Cardinality(1..n) = n
  BY <1>2, FS_Interval
<1> QED BY <1>1, <1>2, <1>3

LEMMA TableIn ==
  ASSUME NEW n \in 0..MaxFd, NEW t \in [1..n -> Proc \cup {0, -1}]
  PROVE  t \in Tables
BY DEF Tables

LEMMA NoInfoIn == NoInfo \in Requests
BY SetupAssumption DEF NoInfo, Requests

\* What the callers and init write into sockinfo.
LEMMA RequestIn ==
  ASSUME NEW r \in Requests, NEW fd \in -1..MaxFd, NEW port \in Proc \cup {0}, NEW e \in {0, 1}
  PROVE  /\ r.sockfd \in -1..MaxFd /\ r.port \in Proc \cup {0}
         /\ [sockfd |-> fd, port |-> port, errn |-> e] \in Requests
         /\ [r EXCEPT !.sockfd = fd] \in Requests
         /\ [r EXCEPT !.sockfd = fd, !.errn = e] \in Requests
BY DEF Requests

LEMMA Numbers ==
  /\ -1 \in -1..MaxFd /\ 0 \in 0..MaxFd
  /\ \A k \in 0..MaxFd : k \in -1..MaxFd
  /\ \A k \in -1..MaxFd : k # -1 => k \in 0..MaxFd
BY SetupAssumption

LEMMA TypeInit == Init => TypeOK
<1> SUFFICES ASSUME Init PROVE TypeOK
  OBVIOUS
<1>1. 0 \in Index /\ 0 \in 0..MaxFd
  BY SetupAssumption DEF Index
<1>2. udp \in [1..0 -> Proc \cup {0, -1}]
  BY DEF Init
<1>3. udp \in Tables /\ NoInfo \in Requests
  BY <1>1, <1>2, TableIn, NoInfoIn
<1> QED BY <1>1, <1>2, <1>3 DEF Init, TypeOK, Outside

LEMMA TypeCall ==
  ASSUME TypeOK, NEW p \in Proc, Call(p)
  PROVE  TypeOK'
<1> USE NoInfoIn
<1>1. CASE SocketEnter(p) \/ BindEnter(p)
  BY <1>1 DEF TypeOK, SocketEnter, BindEnter, Enter, Goto, At, Inside, table
<1>2. CASE SocketScan(p)
  BY <1>2 DEF TypeOK, SocketScan, FreeIndexes, Goto, At, Inside
<1>3. CASE SocketFull(p)
  BY <1>3 DEF TypeOK, SocketFull, Goto, At, Outside, table, sems
<1>4. CASE BindPut(p)
  <2>1. sockfd[m_sockid[p]] \in 0..MaxFd
    BY DEF TypeOK
  <2>2. [sockfd |-> sockfd[m_sockid[p]], port |-> p, errn |-> 0] \in Requests
    BY <2>1, RequestIn, Numbers, NoInfoIn
  <2> QED BY <1>4, <2>2 DEF TypeOK, BindPut, Goto, At, Inside, table
<1>5. CASE Signal(p) \/ Wait(p) \/ Relock(p)
  BY <1>5 DEF TypeOK, Signal, Wait, Relock, Goto, At, Inside, table
<1>6. CASE SocketDone(p)
  <2>1. sockinfo.sockfd \in 0..MaxFd
    BY <1>6, Numbers DEF SocketDone, TypeOK, Requests
  <2> QED BY <1>6, <2>1 DEF TypeOK, SocketDone, Goto, At, Outside
<1>7. CASE SocketError(p)
  BY <1>7 DEF TypeOK, SocketError, Goto, At, Outside, table, sems
<1>8. CASE BindResult(p)
  BY <1>8 DEF TypeOK, BindResult, Goto, At, Outside
<1> QED BY <1>1, <1>2, <1>3, <1>4, <1>5, <1>6, <1>7, <1>8 DEF Call, Continue

LEMMA TypeInitLoop ==
  ASSUME TypeOK, InitLoop \/ Restart
  PROVE  TypeOK'
<1>1. CASE InitWake \/ InitLook \/ InitSignal
  BY <1>1 DEF TypeOK, InitWake, InitLook, InitSignal, table, sems, procs
<1>2. CASE InitCreate
  <2>1. PICK n \in 0..MaxFd : /\ DOMAIN udp = 1..n /\ Cardinality(DOMAIN udp) = n
                              /\ udp \in [1..n -> Proc \cup {0, -1}]
    BY TableSize DEF TypeOK
  <2>2. CASE n < MaxFd
    <3>1. n + 1 \in 0..MaxFd
      BY <2>2, SetupAssumption
    <3>2. udp' = [k \in 1..(n + 1) |-> IF k <= n THEN udp[k] ELSE 0]
      BY <1>2, <2>1, <2>2 DEF InitCreate
    <3>3. \A k \in 1..(n + 1) : k <= n => udp[k] \in Proc \cup {0, -1}
      BY <2>1
    <3>4. udp' \in [1..(n + 1) -> Proc \cup {0, -1}]
      BY <3>2, <3>3
    <3>5. udp' \in Tables
      BY <3>1, <3>4, TableIn
    <3>6. sockinfo' = [sockinfo EXCEPT !.sockfd = n + 1]
      BY <1>2, <2>1, <2>2 DEF InitCreate
    <3>7. sockinfo' \in Requests
      BY <3>1, <3>6, RequestIn, Numbers DEF TypeOK
    <3> QED BY <1>2, <3>5, <3>7 DEF TypeOK, InitCreate, table, sems, procs
  <2>3. CASE ~ (n < MaxFd)
    <3>1. udp' = udp /\ sockinfo' = [sockinfo EXCEPT !.sockfd = -1, !.errn = 1]
      BY <1>2, <2>1, <2>3 DEF InitCreate
    <3>2. sockinfo' \in Requests
      BY <3>1, RequestIn, Numbers DEF TypeOK
    <3> QED BY <1>2, <3>1, <3>2 DEF TypeOK, InitCreate, table, sems, procs
  <2> QED BY <2>2, <2>3
<1>3. CASE InitBind
  <2>1. PICK n \in 0..MaxFd : /\ DOMAIN udp = 1..n
                              /\ udp \in [1..n -> Proc \cup {0, -1}]
    BY TableSize DEF TypeOK
  <2>2. CASE /\ Bindable(sockinfo.sockfd, sockinfo.port) /\ UNCHANGED sockinfo
             /\ udp' = [udp EXCEPT ![sockinfo.sockfd] =
                           IF sockinfo.port = 0 THEN -1 ELSE sockinfo.port]
    <3>1. (IF sockinfo.port = 0 THEN -1 ELSE sockinfo.port) \in Proc \cup {0, -1}
      BY DEF TypeOK, Requests
    <3>2. udp' \in [1..n -> Proc \cup {0, -1}]
      BY <2>1, <2>2, <3>1
    <3>3. udp' \in Tables
      BY <3>2, TableIn
    <3> QED BY <1>3, <2>2, <3>3 DEF TypeOK, InitBind, table, sems, procs
  <2>3. CASE sockinfo' = [sockinfo EXCEPT !.sockfd = -1, !.errn = 1] /\ UNCHANGED udp
    <3>1. sockinfo' \in Requests
      BY <2>3, RequestIn, Numbers DEF TypeOK
    <3> QED BY <1>3, <2>3, <3>1 DEF TypeOK, InitBind, table, sems, procs
  <2> QED BY <1>3, <2>2, <2>3 DEF InitBind
<1>4. CASE Restart
  <2>1. udp' \in [1..0 -> Proc \cup {0, -1}]
    BY <1>4 DEF Restart
  <2>2. udp' \in Tables
    BY <2>1, TableIn, Numbers
  <2> QED BY <1>4, <2>2, NoInfoIn DEF TypeOK, Restart, procs
<1> QED BY <1>1, <1>2, <1>3, <1>4 DEF InitLoop

LEMMA TypeUse ==
  ASSUME TypeOK,
         \/ \E p \in Proc : (\E to \in To : m_sendto(p, to)) \/ m_close(p) \/ Exit(p)
         \/ \E i \in Index : Settle(i) \/ GC(i)
  PROVE  TypeOK'
<1>1. ASSUME NEW p \in Proc, NEW to \in To, m_sendto(p, to)
      PROVE  TypeOK'
  BY <1>1 DEF TypeOK, m_sendto, At, sems, procs
<1>2. ASSUME NEW p \in Proc, m_close(p) \/ Exit(p)
      PROVE  TypeOK'
  BY <1>2 DEF TypeOK, m_close, Exit, Goto, At, Outside, table, sems
<1>3. ASSUME NEW i \in Index, Settle(i) \/ GC(i)
      PROVE  TypeOK'
  BY <1>3 DEF TypeOK, Settle, GC, sems, procs
<1> QED BY <1>1, <1>2, <1>3

LEMMA TypeStep == TypeOK /\ [Next]_vars => TypeOK'
<1>1. ASSUME TypeOK, UNCHANGED vars PROVE TypeOK'
  BY <1>1 DEF TypeOK, vars, table, sems, procs
<1> QED BY <1>1, TypeCall, TypeInitLoop, TypeUse DEF Next

\* The tables, the request record, the semaphores and the descriptors always have
\* their types (msocket.h 62-113): in particular sem3 is never raised twice.
THEOREM SetupTypesCorrect == Spec => []TypeOK
<1> QED BY TypeInit, TypeStep, PTL DEF Spec

(***************************************************************************)
(* Wake-ups.                                                               *)
(***************************************************************************)

\* A process begins to wait, or stops.
LEMMA WaitingBegins ==
  ASSUME TypeOK, NEW p \in Proc, pc[p] # "wait", Goto(p, "wait")
  PROVE  Cardinality(Waiting') = Cardinality(Waiting) + 1
<1>1. IsFiniteSet(Waiting)
  BY SetupAssumption, FS_Subset DEF Waiting
<1>2. p \notin Waiting /\ Waiting' = Waiting \cup {p}
  BY DEF Waiting, Goto, TypeOK
<1> QED BY <1>1, <1>2, FS_AddElement

LEMMA WaitingEnds ==
  ASSUME TypeOK, NEW p \in Proc, pc[p] = "wait", Goto(p, "lock")
  PROVE  Cardinality(Waiting') = Cardinality(Waiting) - 1
<1>1. IsFiniteSet(Waiting)
  BY SetupAssumption, FS_Subset DEF Waiting
<1>2. p \in Waiting /\ Waiting' = Waiting \ {p}
  BY DEF Waiting, Goto, TypeOK
<1> QED BY <1>1, <1>2, FS_RemoveElement

LEMMA WaitingNat ==
  ASSUME TypeOK
  PROVE  Cardinality(Waiting) \in Nat
BY SetupAssumption, FS_Subset, FS_CardinalityType DEF Waiting

\* A process that is not waiting moves to a place where it does not wait.
LEMMA WaitingSame ==
  ASSUME TypeOK, NEW p \in Proc, pc[p] # "wait", NEW where, where # "wait", Goto(p, where)
  PROVE  Waiting' = Waiting
BY DEF Waiting, Goto, TypeOK

LEMMA WakeupStep ==
  ASSUME ~ MayRestart, TypeOK, NoStrayWakeup, [Next]_vars
  PROVE  NoStrayWakeup'
<1> USE DEF NoStrayWakeup
<1>1. CASE UNCHANGED vars
  BY <1>1 DEF Waiting, vars, sems, procs
<1>2. ASSUME NEW p \in Proc, SocketEnter(p) \/ SocketScan(p) \/ SocketFull(p) \/ BindEnter(p)
                             \/ BindPut(p)
      PROVE  NoStrayWakeup'
  <2>1. UNCHANGED <<sem1, sem2, initpc>>
    BY <1>2 DEF SocketEnter, SocketScan, SocketFull, BindEnter, BindPut, Enter, sems
  <2>2. Waiting' = Waiting
    BY <1>2, WaitingSame DEF SocketEnter, SocketScan, SocketFull, BindEnter, BindPut, Enter, At
  <2> QED BY <2>1, <2>2
<1>3. ASSUME NEW p \in Proc, Relock(p) \/ SocketDone(p) \/ SocketError(p) \/ BindResult(p)
                             \/ m_close(p)
      PROVE  NoStrayWakeup'
  <2>1. UNCHANGED <<sem1, sem2, initpc>>
    BY <1>3 DEF Relock, SocketDone, SocketError, BindResult, m_close, sems
  <2>2. Waiting' = Waiting
    BY <1>3, WaitingSame DEF Relock, SocketDone, SocketError, BindResult, m_close, At
  <2> QED BY <2>1, <2>2
<1>4. ASSUME NEW p \in Proc, Signal(p)
      PROVE  NoStrayWakeup'
  BY <1>4, WaitingBegins, WaitingNat DEF Signal, At, TypeOK
<1>5. ASSUME NEW p \in Proc, Wait(p)
      PROVE  NoStrayWakeup'
  BY <1>5, WaitingEnds, WaitingNat DEF Wait, At, TypeOK
<1>6. CASE InitLoop
  <2>1. Waiting' = Waiting
    BY <1>6 DEF Waiting, InitLoop, InitWake, InitLook, InitCreate, InitBind, InitSignal, procs
  <2> QED BY <1>6, <2>1, WaitingNat
          DEF InitLoop, InitWake, InitLook, InitCreate, InitBind, InitSignal, TypeOK, sems
<1>7. ASSUME NEW p \in Proc, (\E to \in To : m_sendto(p, to)) \/ Exit(p)
      PROVE  NoStrayWakeup'
  BY <1>7 DEF Waiting, m_sendto, Exit, sems, procs
<1>8. ASSUME NEW i \in Index, Settle(i) \/ GC(i)
      PROVE  NoStrayWakeup'
  BY <1>8 DEF Waiting, Settle, GC, sems, procs
<1>9. ~ Restart
  BY DEF Restart
<1> QED BY <1>1, <1>2, <1>3, <1>4, <1>5, <1>6, <1>7, <1>8, <1>9 DEF Next, Call, Continue

\* However many processes call at once and wherever they are killed, sem1 and sem2
\* neither lose a wake-up nor make one up (msocket.c 85-94, initmsocket.c 118-191).
THEOREM WakeupsCounted ==
  ASSUME ~ MayRestart
  PROVE  Spec => []NoStrayWakeup
<1>1. Init => NoStrayWakeup
  <2> SUFFICES ASSUME Init PROVE NoStrayWakeup
    OBVIOUS
  <2>1. Waiting = {}
    BY DEF Init, Waiting
  <2> QED BY <2>1, FS_EmptySet DEF Init, NoStrayWakeup
<1>2. TypeOK /\ NoStrayWakeup /\ [Next]_vars => NoStrayWakeup'
  BY WakeupStep
<1> QED BY <1>1, <1>2, SetupTypesCorrect, PTL DEF Spec

(***************************************************************************)
(* Entries.                                                                *)
(***************************************************************************)

\* A step that leaves the entries alone and makes nobody an owner.
LEMMA OwnersKept ==
  ASSUME EntryExclusive, UNCHANGED <<isfree, pid, m_sockid>>,
         \A p \in Proc : Owner(p)' => Owner(p)
  PROVE  EntryExclusive'
BY DEF EntryExclusive

LEMMA OwnerStep ==
  ASSUME MayRestart => Serial, ~ UseClose, Foreign = {}, TypeOK, EntryExclusive, [Next]_vars
  PROVE  EntryExclusive'
<1>1. CASE UNCHANGED vars
  BY <1>1, OwnersKept DEF Owner, vars, table, procs
<1>2. ASSUME NEW p \in Proc,
             SocketEnter(p) \/ SocketFull(p) \/ BindEnter(p) \/ BindPut(p) \/ Signal(p)
             \/ Wait(p) \/ Relock(p) \/ SocketError(p) \/ BindResult(p)
      PROVE  EntryExclusive'
  <2>1. UNCHANGED <<isfree, pid, m_sockid, alive>>
    BY <1>2 DEF SocketEnter, SocketFull, BindEnter, BindPut, Signal, Wait, Relock, SocketError,
                BindResult, Enter, table
  <2>2. \A q \in Proc \ {p} : pc'[q] = pc[q]
    BY <1>2 DEF SocketEnter, SocketFull, BindEnter, BindPut, Signal, Wait, Relock, SocketError,
                BindResult, Enter, Goto, TypeOK
  <2>3. Owner(p)' => Owner(p)
    BY <1>2 DEF SocketEnter, SocketFull, BindEnter, BindPut, Signal, Wait, Relock, SocketError,
                BindResult, Enter, Goto, At, Owner, TypeOK
  <2>4. \A q \in Proc : Owner(q)' => Owner(q)
    BY <2>1, <2>2, <2>3 DEF Owner
  <2> QED BY <2>1, <2>4, OwnersKept
<1>3. ASSUME NEW p \in Proc, SocketScan(p)
      PROVE  EntryExclusive'
  <2>1. PICK i \in FreeIndexes : /\ isfree' = [isfree EXCEPT ![i] = 0]
                                 /\ pid' = [pid EXCEPT ![i] = p]
                                 /\ m_sockid' = [m_sockid EXCEPT ![p] = i]
    BY <1>3 DEF SocketScan
  <2>2. i \in Index /\ isfree[i] = 1
    BY DEF FreeIndexes
  <2>3. \A q \in Proc \ {p} : (Owner(q)' <=> Owner(q)) /\ m_sockid'[q] = m_sockid[q]
    BY <1>3, <2>1 DEF SocketScan, Goto, Owner, TypeOK
  <2>4. \A q \in Proc \ {p} : Owner(q) => m_sockid[q] # i /\ m_sockid[q] \in Index
    BY <2>2 DEF EntryExclusive, TypeOK
  <2>5. m_sockid'[p] = i /\ isfree'[i] = 0 /\ pid'[i] = p
    BY <2>1, <2>2 DEF TypeOK
  <2>6. \A k \in Index \ {i} : isfree'[k] = isfree[k] /\ pid'[k] = pid[k]
    BY <2>1 DEF TypeOK
  <2> QED BY <2>3, <2>4, <2>5, <2>6 DEF EntryExclusive
<1>4. ASSUME NEW p \in Proc, SocketDone(p)
      PROVE  EntryExclusive'
  <2>1. Owner(p) /\ UNCHANGED <<isfree, m_sockid, alive>>
    BY <1>4 DEF SocketDone, At, Owner
  <2>2. pid[m_sockid[p]] = p /\ pid' = [pid EXCEPT ![m_sockid[p]] = p]
    BY <1>4, <2>1 DEF SocketDone, EntryExclusive
  <2>3. pid' = pid
    BY <2>2 DEF TypeOK
  <2>4. \A q \in Proc \ {p} : pc'[q] = pc[q]
    BY <1>4 DEF SocketDone, Goto, TypeOK
  <2>5. \A q \in Proc : Owner(q)' => Owner(q)
    BY <2>1, <2>4 DEF Owner
  <2> QED BY <2>1, <2>3, <2>5, OwnersKept
<1>5. CASE InitLoop
  BY <1>5, OwnersKept
     DEF Owner, InitLoop, InitWake, InitLook, InitCreate, InitBind, InitSignal, table, procs
<1>6. ASSUME NEW p \in Proc, (\E to \in To : m_sendto(p, to)) \/ Exit(p)
      PROVE  EntryExclusive'
  <2>1. UNCHANGED <<isfree, pid, m_sockid, pc>>
    BY <1>6 DEF m_sendto, Exit, table, procs
  <2>2. \A q \in Proc : alive'[q] => alive[q]
    BY <1>6 DEF m_sendto, Exit, procs, TypeOK
  <2> QED BY <2>1, <2>2, OwnersKept DEF Owner
<1>7. ASSUME NEW i \in Index, Settle(i)
      PROVE  EntryExclusive'
  BY <1>7, OwnersKept DEF Owner, Settle, procs
<1>8. ASSUME NEW i \in Index, GC(i)
      PROVE  EntryExclusive'
  <2>1. ~ alive[pid[i]]
    BY <1>8 DEF GC, KillFails
  <2>2. \A q \in Proc : Owner(q) => m_sockid[q] # i
    BY <2>1 DEF EntryExclusive, Owner
  <2>3. isfree' = [isfree EXCEPT ![i] = 1] /\ UNCHANGED <<pid, m_sockid, pc, alive>>
    BY <1>8 DEF GC, procs
  <2> QED BY <2>2, <2>3 DEF EntryExclusive, Owner, TypeOK
<1>9. CASE Restart
  <2>1. \A p \in Proc : ~ Owner(p)'
    BY <1>9 DEF Restart, MayStart, Owner, procs
  <2> QED BY <2>1 DEF EntryExclusive
<1>10. \A p \in Proc : ~ m_close(p)
  BY DEF m_close
<1> QED BY <1>1, <1>2, <1>3, <1>4, <1>5, <1>6, <1>7, <1>8, <1>9, <1>10 DEF Next, Call, Continue

\* Without m_close, whatever the number of concurrent callers and wherever they
\* are killed, no entry has two owners and an owner's entry is taken in its name
\* (msocket.c 58-78, initmsocket.c 742-746).  A restart of initmsocket keeps it so
\* when it waits until nobody has a socket.
THEOREM OneOwner ==
  ASSUME MayRestart => Serial, ~ UseClose, Foreign = {}
  PROVE  Spec => []EntryExclusive
<1>1. Init => EntryExclusive
  BY DEF Init, EntryExclusive, Owner
<1>2. TypeOK /\ EntryExclusive /\ [Next]_vars => EntryExclusive'
  BY OwnerStep
<1> QED BY <1>1, <1>2, SetupTypesCorrect, PTL DEF Spec

(***************************************************************************)
(* One call at a time.                                                     *)
(***************************************************************************)

\* What p has written into sockinfo.
Asked(p) ==
    IF call[p] = "socket" THEN NoInfo
    ELSE [sockfd |-> sockfd[m_sockid[p]], port |-> p, errn |-> 0]

\* init has answered the call p is in.
HasAnswer(p) ==
    \/ pc[p] = "wait" /\ (initpc = "signal" \/ sem2 = 1)
    \/ pc[p] \in {"lock", "result"}

\* init has made p's socket, or p has not asked for one.
Created(p) == call[p] = "socket" => HasAnswer(p)

Calm == sem1 = 0 /\ sem2 = 0 /\ initpc = "wait"

Requested(p) ==
    \/ sem1 = 1 /\ sem2 = 0 /\ initpc = "wait"
    \/ sem1 = 0 /\ sem2 = 0 /\ initpc = "look"
    \/ sem1 = 0 /\ sem2 = 0 /\ initpc = IF call[p] = "socket" THEN "create" ELSE "bind"

Replied ==
    \/ sem1 = 0 /\ sem2 = 0 /\ initpc = "signal"
    \/ sem1 = 0 /\ sem2 = 1 /\ initpc = "wait"

\* Nobody is inside of a call, or one live process is, and the semaphores, init and
\* sockinfo are where its call has brought them.
NobodyInside ==
    /\ \A p \in Proc : pc[p] \in Outside
    /\ sem3 = 1 /\ Calm /\ sockinfo = NoInfo

Phase(p) ==
    \/ pc[p] = "scan" /\ call[p] = "socket" /\ sem3 = 0 /\ Calm /\ sockinfo = NoInfo
    \/ pc[p] = "put" /\ call[p] = "bind" /\ sem3 = 0 /\ Calm /\ sockinfo = NoInfo
    \/ pc[p] = "signal" /\ sem3 = 1 /\ Calm /\ sockinfo = Asked(p)
    \/ pc[p] = "wait" /\ sem3 = 1 /\ Requested(p) /\ sockinfo = Asked(p)
    \/ pc[p] = "wait" /\ sem3 = 1 /\ Replied
    \/ pc[p] = "lock" /\ sem3 = 1 /\ Calm
    \/ pc[p] = "result" /\ sem3 = 0 /\ Calm

OneInside(p) ==
    /\ \A q \in Proc \ {p} : pc[q] \in Outside
    /\ alive[p]
    /\ Phase(p)
    /\ HasAnswer(p) /\ call[p] = "socket" => sockinfo.sockfd # -1

OneCall == NobodyInside \/ \E p \in Proc : OneInside(p)

\* An entry in use has the name of a process that chose it.
OwnEntries ==
    \A i \in Index : isfree[i] = 0 =>
        /\ pid[i] \in Proc /\ m_sockid[pid[i]] = i
        /\ pc[pid[i]] \notin {"idle", "scan"}

\* init makes at most one descriptor for a process.
Made == { p \in Proc : pc[p] # "idle" /\ (pc[p] \in Outside \/ Created(p)) }

FewDescriptors == Cardinality(DOMAIN udp) <= Cardinality(Made)

SerialInv == OneCall /\ OwnEntries /\ FewDescriptors

\* The descriptors of live processes: their own, and bound to their port from the
\* answer to m_bind on.
HasSocket(p) ==
    /\ alive[p]
    /\ pc[p] \in Inside => call[p] = "bind"
    /\ pc[p] \in Inside \cup {"open", "bound"}

Descriptors ==
    /\ \A p \in Proc : HasSocket(p) =>
          /\ sockfd[m_sockid[p]] \in DOMAIN udp
          /\ pc[p] = "bound" => udp[sockfd[m_sockid[p]]] = p
          /\ \A q \in Proc \ {p} : HasSocket(q) => sockfd[m_sockid[q]] # sockfd[m_sockid[p]]
    /\ \A p \in Proc : pc[p] \in Inside /\ HasAnswer(p) /\ call[p] = "socket" =>
          /\ sockinfo.sockfd \in DOMAIN udp
          /\ \A q \in Proc : HasSocket(q) => sockfd[m_sockid[q]] # sockinfo.sockfd
    /\ \A p \in Proc : pc[p] \in Inside /\ HasAnswer(p) /\ call[p] = "bind"
                       /\ sockinfo.sockfd # -1 =>
          udp[sockfd[m_sockid[p]]] = p

LEMMA WhoIsInside ==
  ASSUME OneCall, NEW p \in Proc, pc[p] \in Inside
  PROVE  OneInside(p)
BY DEF OneCall, NobodyInside, OneInside, Inside, Outside

LEMMA WhoIsServed ==
  ASSUME OneCall, ~ Calm
  PROVE  \E p \in Proc : OneInside(p) /\ pc[p] = "wait"
BY DEF OneCall, NobodyInside, OneInside, Phase

\* A process that is inside of a call and alive keeps all others out.
LEMMA Entering ==
  ASSUME Serial, OneCall, NEW p \in Proc, pc[p] \in Outside, MayCall(p)
  PROVE  NobodyInside
<1> SUFFICES ASSUME NEW q \in Proc, OneInside(q)
             PROVE  FALSE
  BY DEF OneCall
<1>1. q # p /\ alive[q] /\ pc[q] \notin Outside
  BY DEF OneInside, Phase, Outside
<1> QED BY <1>1 DEF MayCall

\* There is an entry for every process (msocket.c 60-67).
LEMMA EntryLeft ==
  ASSUME TypeOK, OwnEntries, Cardinality(Proc) <= MaxSocket,
         NEW p \in Proc, pc[p] = "scan"
  PROVE  FreeIndexes # {}
<1> SUFFICES ASSUME FreeIndexes = {}
             PROVE  FALSE
  OBVIOUS
<1> DEFINE f == [i \in Index |-> pid[i]]
<1>1. \A i \in Index : isfree[i] = 0
  BY DEF FreeIndexes, TypeOK
<1>2. \A i \in Index : pid[i] \in Proc \ {p} /\ m_sockid[pid[i]] = i
  BY <1>1 DEF OwnEntries
<1>3. f \in Injection(Index, Proc \ {p})
  <2>1. f \in [Index -> Proc \ {p}]
    BY <1>2
  <2>2. \A i, k \in Index : f[i] = f[k] => i = k
    BY <1>2
  <2> QED BY <2>1, <2>2 DEF Injection, IsInjective
<1>4. IsFiniteSet(Proc) /\ IsFiniteSet(Proc \ {p})
      /\ Cardinality(Proc \ {p}) = Cardinality(Proc) - 1 /\ Cardinality(Proc) \in Nat
  BY SetupAssumption, FS_RemoveElement, FS_CardinalityType
<1>5. Cardinality(Index) = MaxSocket
  BY SetupAssumption, FS_Interval DEF Index
<1>6. Cardinality(Index) <= Cardinality(Proc \ {p})
  <2> HIDE DEF f
  <2> QED BY <1>3, <1>4, FS_Injection
<1> QED BY <1>4, <1>5, <1>6, SetupAssumption

\* There is a descriptor for every process (initmsocket.c 131-139).
LEMMA DescriptorLeft ==
  ASSUME TypeOK, FewDescriptors, Cardinality(Proc) <= MaxFd, NEW p \in Proc, p \notin Made
  PROVE  Cardinality(DOMAIN udp) < MaxFd
<1>0. Cardinality(DOMAIN udp) \in Nat
  BY TableSize, SetupAssumption DEF TypeOK
<1>1. IsFiniteSet(Proc) /\ IsFiniteSet(Proc \ {p})
      /\ Cardinality(Proc \ {p}) = Cardinality(Proc) - 1 /\ Cardinality(Proc) \in Nat
  BY SetupAssumption, FS_RemoveElement, FS_CardinalityType
<1>2. Made \subseteq Proc \ {p}
  BY DEF Made
<1>3. Cardinality(Made) <= Cardinality(Proc \ {p}) /\ Cardinality(Made) \in Nat
  BY <1>1, <1>2, FS_Subset, FS_CardinalityType
<1> QED BY <1>0, <1>1, <1>3, SetupAssumption DEF FewDescriptors

\* A step that opens no descriptor, and after which no process is taken back.
LEMMA MadeKept ==
  ASSUME TypeOK, FewDescriptors, UNCHANGED udp, Made \subseteq Made'
  PROVE  FewDescriptors'
<1>0. Cardinality(DOMAIN udp) \in Nat
  BY TableSize, SetupAssumption DEF TypeOK
<1>1. IsFiniteSet(Made') /\ IsFiniteSet(Made)
  BY SetupAssumption, FS_Subset DEF Made
<1>2. Cardinality(Made) <= Cardinality(Made') /\ Cardinality(Made) \in Nat
      /\ Cardinality(Made') \in Nat
  BY <1>1, FS_Subset, FS_CardinalityType
<1> QED BY <1>0, <1>2 DEF FewDescriptors

\* A step of the process that is inside, which stays inside or leaves.
LEMMA InsideStep ==
  ASSUME Serial, TypeOK, SerialInv, Cardinality(Proc) <= MaxSocket, NEW p \in Proc,
         \/ SocketScan(p) \/ SocketFull(p) \/ BindPut(p) \/ Signal(p) \/ Wait(p) \/ Relock(p)
         \/ SocketDone(p) \/ SocketError(p) \/ BindResult(p)
  PROVE  OneCall'
<1>1. pc[p] \in Inside
  BY DEF SocketScan, SocketFull, BindPut, Signal, Wait, Relock, SocketDone, SocketError,
         BindResult, At, Inside
<1>2. OneInside(p)
  BY <1>1, WhoIsInside DEF SerialInv
<1>3. \A q \in Proc \ {p} : pc'[q] \in Outside
  BY <1>2 DEF SocketScan, SocketFull, BindPut, Signal, Wait, Relock, SocketDone, SocketError,
              BindResult, Goto, TypeOK, OneInside
<1>4. alive' = alive /\ alive[p] /\ Phase(p)
  BY <1>2 DEF SocketScan, SocketFull, BindPut, Signal, Wait, Relock, SocketDone, SocketError,
              BindResult, OneInside
<1>5. CASE SocketScan(p)
  <2>1. Phase(p)' /\ pc'[p] = "signal"
    BY <1>4, <1>5 DEF Phase, SocketScan, At, Goto, TypeOK, Calm, Asked
  <2> QED BY <1>3, <1>4, <2>1 DEF OneCall, OneInside, HasAnswer
<1>6. ~ SocketFull(p)
  BY EntryLeft DEF SocketFull, At, SerialInv
<1>7. CASE BindPut(p)
  <2>1. Phase(p)' /\ pc'[p] = "signal"
    BY <1>4, <1>7 DEF Phase, BindPut, At, Goto, TypeOK, Calm, Asked, table
  <2> QED BY <1>3, <1>4, <2>1 DEF OneCall, OneInside, HasAnswer
<1>8. CASE Signal(p)
  <2>1. Phase(p)' /\ pc'[p] = "wait" /\ initpc' = "wait" /\ sem2' = 0
    BY <1>4, <1>8 DEF Phase, Signal, At, Goto, TypeOK, Calm, Asked, Requested, table
  <2> QED BY <1>3, <1>4, <2>1 DEF OneCall, OneInside, HasAnswer
<1>9. CASE Wait(p)
  <2>1. HasAnswer(p) /\ UNCHANGED <<call, sockinfo>>
    BY <1>4, <1>9 DEF Phase, Wait, At, HasAnswer, Requested, Replied
  <2>2. Phase(p)'
    BY <1>4, <1>9 DEF Phase, Wait, At, Goto, TypeOK, Calm, Requested, Replied
  <2> QED BY <1>2, <1>3, <1>4, <2>1, <2>2 DEF OneCall, OneInside
<1>10. CASE Relock(p)
  <2>1. HasAnswer(p) /\ UNCHANGED <<call, sockinfo>>
    BY <1>10 DEF Relock, At, HasAnswer
  <2>2. Phase(p)'
    BY <1>4, <1>10 DEF Phase, Relock, At, Goto, TypeOK, Calm
  <2> QED BY <1>2, <1>3, <1>4, <2>1, <2>2 DEF OneCall, OneInside
<1>11. CASE SocketDone(p) \/ BindResult(p)
  <2>1. pc'[p] \in Outside /\ sem3' = 1 /\ sockinfo' = NoInfo /\ Calm'
    BY <1>4, <1>11 DEF Phase, SocketDone, BindResult, At, Goto, TypeOK, Calm, Outside
  <2> QED BY <1>3, <2>1 DEF OneCall, NobodyInside
<1>12. ~ SocketError(p)
  BY <1>2 DEF SocketError, At, OneInside, HasAnswer
<1> QED BY <1>5, <1>6, <1>7, <1>8, <1>9, <1>10, <1>11, <1>12

\* A step of init, for the process that waits for it.
LEMMA ServeStep ==
  ASSUME Serial, TypeOK, SerialInv, Cardinality(Proc) <= MaxFd, InitLoop
  PROVE  OneCall'
<1>1. ~ Calm
  BY DEF Calm, InitLoop, InitWake, InitLook, InitCreate, InitBind, InitSignal
<1>2. PICK p \in Proc : OneInside(p) /\ pc[p] = "wait"
  BY <1>1, WhoIsServed DEF SerialInv
<1>3. UNCHANGED procs
  BY DEF InitLoop, InitWake, InitLook, InitCreate, InitBind, InitSignal
<1>4. alive'[p] /\ \A q \in Proc \ {p} : pc'[q] \in Outside
  BY <1>2, <1>3 DEF procs, OneInside
<1>5. pc[p] = "wait" /\ pc'[p] = "wait" /\ UNCHANGED call /\ Phase(p)
  BY <1>2, <1>3 DEF procs, OneInside
<1>6. CASE InitWake \/ InitLook
  <2>1. UNCHANGED <<table, sockinfo, sem2, sem3, m_sockid>> /\ initpc' # "signal"
    BY <1>6 DEF InitWake, InitLook, sems, procs
  <2>2. Requested(p) /\ sem3 = 1 /\ sockinfo = Asked(p)
    BY <1>5, <1>6 DEF Phase, InitWake, InitLook, Requested, Replied
  <2>3. sockinfo = NoInfo <=> call[p] = "socket"
    BY <2>2, SetupAssumption DEF Asked, NoInfo, TypeOK
  <2>4. Requested(p)' /\ sem2' = 0
    <3>1. CASE InitWake
      BY <1>5, <2>2, <3>1 DEF InitWake, Requested
    <3>2. CASE InitLook
      BY <1>5, <2>2, <2>3, <3>2 DEF InitLook, Requested, sems
    <3> QED BY <1>6, <3>1, <3>2
  <2>5. Phase(p)'
    BY <1>5, <2>1, <2>2, <2>4 DEF Phase, Asked, table
  <2> QED BY <1>4, <1>5, <2>1, <2>4, <2>5 DEF OneCall, OneInside, HasAnswer
<1>7. CASE InitCreate
  <2>1. call[p] = "socket" /\ sem2 = 0 /\ sem1 = 0 /\ sem3 = 1
    BY <1>2, <1>5, <1>7 DEF Phase, InitCreate, Requested, Replied
  <2>2. p \notin Made
    BY <1>2, <1>7, <2>1 DEF Made, Created, HasAnswer, Outside, InitCreate
  <2>3. Cardinality(DOMAIN udp) < MaxFd /\ Cardinality(DOMAIN udp) \in Nat
    BY <2>2, DescriptorLeft, TableSize, SetupAssumption DEF SerialInv, TypeOK
  <2>4. sockinfo' = [sockinfo EXCEPT !.sockfd = Cardinality(DOMAIN udp) + 1]
    BY <1>7, <2>3 DEF InitCreate
  <2>5. sockinfo'.sockfd # -1
    BY <2>3, <2>4 DEF TypeOK, Requests
  <2>6. Phase(p)'
    BY <1>5, <1>7, <2>1 DEF Phase, InitCreate, Replied, sems
  <2> QED BY <1>4, <2>5, <2>6 DEF OneCall, OneInside
<1>8. CASE InitBind
  <2>1. call[p] = "bind" /\ sem1 = 0 /\ sem2 = 0 /\ sem3 = 1
    BY <1>5, <1>8 DEF Phase, InitBind, Requested, Replied, TypeOK
  <2>2. Phase(p)'
    BY <1>5, <1>8, <2>1 DEF Phase, InitBind, Replied, sems
  <2> QED BY <1>4, <1>5, <2>1, <2>2 DEF OneCall, OneInside
<1>9. CASE InitSignal
  <2>1. HasAnswer(p) /\ UNCHANGED sockinfo
    BY <1>2, <1>9 DEF InitSignal, HasAnswer
  <2>2. sem1 = 0 /\ sem2 = 0 /\ sem3 = 1
    BY <1>5, <1>9 DEF Phase, InitSignal, Replied, Requested
  <2>3. Phase(p)'
    BY <1>5, <1>9, <2>2 DEF Phase, InitSignal, Replied
  <2> QED BY <1>2, <1>4, <1>5, <2>1, <2>3 DEF OneCall, OneInside
<1> QED BY <1>6, <1>7, <1>8, <1>9 DEF InitLoop

\* The steps of nobody's call.
LEMMA OtherStep ==
  ASSUME Serial, ~ MayCrash, TypeOK, SerialInv,
         \/ UNCHANGED vars
         \/ Restart
         \/ \E p \in Proc : (\E to \in To : m_sendto(p, to)) \/ m_close(p) \/ Exit(p)
         \/ \E i \in Index : Settle(i) \/ GC(i)
  PROVE  OneCall'
<1>1. ASSUME UNCHANGED <<sockfd, sockinfo, sems, initpc, pc, call, m_sockid>>,
             \A q \in Proc : alive'[q] = alive[q] \/ pc[q] \in Outside
      PROVE  OneCall'
  <2>1. \A q \in Proc : Phase(q)' = Phase(q) /\ HasAnswer(q)' = HasAnswer(q)
    BY <1>1 DEF Phase, HasAnswer, Calm, Requested, Replied, Asked, sems
  <2>2. \A q \in Proc : OneInside(q) => pc[q] \notin Outside
    BY DEF OneInside, Phase, Outside
  <2>3. CASE NobodyInside
    BY <1>1, <2>3 DEF OneCall, NobodyInside, Calm, sems
  <2>4. ASSUME NEW q \in Proc, OneInside(q)
        PROVE  OneInside(q)'
    BY <1>1, <2>1, <2>2, <2>4 DEF OneInside
  <2> QED BY <2>3, <2>4 DEF SerialInv, OneCall
<1>2. ASSUME NEW p \in Proc, m_close(p)
      PROVE  OneCall'
  <2>1. pc[p] \in Outside /\ pc' = [pc EXCEPT ![p] = pc'[p]] /\ pc'[p] \in Outside
    BY <1>2 DEF m_close, At, Goto, Outside, TypeOK
  <2>2. UNCHANGED <<sockfd, sockinfo, sems, initpc, call, m_sockid, alive>>
    BY <1>2 DEF m_close
  <2>3. CASE NobodyInside
    BY <2>1, <2>2, <2>3 DEF OneCall, NobodyInside, Calm, sems, TypeOK
  <2>4. ASSUME NEW q \in Proc, OneInside(q)
        PROVE  OneInside(q)'
    <3>1. q # p
      BY <2>1, <2>4 DEF OneInside, Phase, Outside
    <3>2. pc'[q] = pc[q] /\ \A r \in Proc \ {q} : pc'[r] \in Outside
      BY <2>1, <2>4, <3>1 DEF OneInside, TypeOK
    <3>3. Phase(q)' = Phase(q) /\ HasAnswer(q)' = HasAnswer(q)
      BY <2>2, <3>2 DEF Phase, HasAnswer, Calm, Requested, Replied, Asked, sems
    <3> QED BY <2>2, <2>4, <3>2, <3>3 DEF OneInside
  <2> QED BY <2>3, <2>4 DEF SerialInv, OneCall
<1>3. CASE Restart
  <2>1. \A q \in Proc : ~ alive[q] \/ pc[q] \in Outside
    BY <1>3 DEF Restart, MayStart, Outside
  <2>2. NobodyInside
    BY <2>1 DEF SerialInv, OneCall, OneInside, Phase, Outside
  <2> QED BY <1>3, <2>2 DEF OneCall, NobodyInside, Restart, Calm, procs
<1>4. ASSUME NEW p \in Proc, Exit(p)
      PROVE  OneCall'
  BY <1>1, <1>4 DEF Exit, table, sems, TypeOK
<1>5. ASSUME NEW p \in Proc, NEW to \in To, m_sendto(p, to)
      PROVE  OneCall'
  BY <1>1, <1>5 DEF m_sendto, sems, procs
<1>6. ASSUME NEW i \in Index, Settle(i) \/ GC(i)
      PROVE  OneCall'
  BY <1>1, <1>6 DEF Settle, GC, sems, procs
<1>7. CASE UNCHANGED vars
  BY <1>1, <1>7 DEF vars, table, procs
<1> QED BY <1>2, <1>3, <1>4, <1>5, <1>6, <1>7

LEMMA OneCallStep ==
  ASSUME Serial, ~ MayCrash, Cardinality(Proc) <= MaxSocket, Cardinality(Proc) <= MaxFd,
         TypeOK, SerialInv, [Next]_vars
  PROVE  OneCall'
<1>1. ASSUME NEW p \in Proc, SocketEnter(p) \/ BindEnter(p)
      PROVE  OneCall'
  <2>1. NobodyInside /\ alive[p]
    BY <1>1, Entering DEF SocketEnter, BindEnter, Enter, At, Outside, SerialInv
  <2>2. Phase(p)' /\ alive'[p]
    BY <1>1, <2>1 DEF SocketEnter, BindEnter, Enter, Goto, NobodyInside, Phase, Calm, TypeOK
  <2>3. ~ HasAnswer(p)'
    BY <1>1 DEF SocketEnter, BindEnter, Enter, Goto, HasAnswer, TypeOK
  <2>4. \A q \in Proc \ {p} : pc'[q] \in Outside
    BY <1>1, <2>1 DEF SocketEnter, BindEnter, Enter, Goto, NobodyInside, TypeOK
  <2> QED BY <2>2, <2>3, <2>4 DEF OneCall, OneInside
<1> QED BY <1>1, InsideStep, ServeStep, OtherStep DEF Next, Call, Continue

LEMMA OwnEntriesStep ==
  ASSUME TypeOK, OwnEntries, [Next]_vars
  PROVE  OwnEntries'
<1>1. ASSUME \A i \in Index : isfree'[i] = 0 => isfree[i] = 0,
             UNCHANGED <<pid, m_sockid>>,
             \A q \in Proc : pc'[q] \in {"idle", "scan"} => pc[q] \in {"idle", "scan"}
      PROVE  OwnEntries'
  BY <1>1 DEF OwnEntries
<1>2. CASE UNCHANGED vars
  BY <1>1, <1>2 DEF vars, table, procs
<1>3. ASSUME NEW p \in Proc,
             \/ SocketEnter(p) \/ SocketFull(p) \/ BindEnter(p) \/ BindPut(p)
             \/ Signal(p) \/ Wait(p) \/ Relock(p) \/ SocketError(p) \/ BindResult(p)
      PROVE  OwnEntries'
  BY <1>1, <1>3 DEF SocketEnter, SocketFull, BindEnter, BindPut, Signal, Wait, Relock,
                    SocketError, BindResult, Enter, Goto, At, TypeOK, table
<1>4. ASSUME NEW p \in Proc, SocketScan(p)
      PROVE  OwnEntries'
  <2>1. PICK i \in Index : /\ isfree' = [isfree EXCEPT ![i] = 0]
                           /\ pid' = [pid EXCEPT ![i] = p]
                           /\ m_sockid' = [m_sockid EXCEPT ![p] = i]
    BY <1>4 DEF SocketScan, FreeIndexes
  <2>2. pc[p] = "scan" /\ pc' = [pc EXCEPT ![p] = "signal"]
    BY <1>4 DEF SocketScan, At, Goto
  <2> QED BY <2>1, <2>2 DEF OwnEntries, TypeOK
<1>5. ASSUME NEW p \in Proc, SocketDone(p)
      PROVE  OwnEntries'
  <2>1. pid' = [pid EXCEPT ![m_sockid[p]] = p] /\ UNCHANGED <<isfree, m_sockid>>
        /\ pc' = [pc EXCEPT ![p] = "open"]
    BY <1>5 DEF SocketDone, Goto
  <2> QED BY <2>1 DEF OwnEntries, TypeOK
<1>6. CASE InitLoop
  BY <1>1, <1>6 DEF InitLoop, InitWake, InitLook, InitCreate, InitBind, InitSignal, table, procs
<1>7. CASE Restart
  BY <1>7 DEF Restart, OwnEntries
<1>8. ASSUME NEW p \in Proc, (\E to \in To : m_sendto(p, to)) \/ Exit(p) \/ m_close(p)
      PROVE  OwnEntries'
  BY <1>1, <1>8 DEF m_sendto, Exit, m_close, Goto, table, procs, TypeOK
<1>9. ASSUME NEW i \in Index, Settle(i) \/ GC(i)
      PROVE  OwnEntries'
  BY <1>1, <1>9 DEF Settle, GC, procs, TypeOK
<1> QED BY <1>2, <1>3, <1>4, <1>5, <1>6, <1>7, <1>8, <1>9 DEF Next, Call, Continue

\* init opens a descriptor for a process that had none.
LEMMA CreateStep ==
  ASSUME Cardinality(Proc) <= MaxFd, TypeOK, SerialInv, InitCreate
  PROVE  /\ \E n \in Nat : /\ DOMAIN udp = 1..n
                           /\ udp' = [k \in 1..(n + 1) |-> IF k <= n THEN udp[k] ELSE 0]
                           /\ sockinfo' = [sockinfo EXCEPT !.sockfd = n + 1]
         /\ FewDescriptors'
<1>1. PICK p \in Proc : OneInside(p) /\ pc[p] = "wait"
  BY WhoIsServed DEF SerialInv, Calm, InitCreate
<1>2. call[p] = "socket" /\ initpc = "create" /\ sem2 = 0
  BY <1>1 DEF OneInside, Phase, InitCreate, Requested, Replied
<1>3. p \notin Made
  BY <1>1, <1>2 DEF Made, Created, HasAnswer, Outside
<1>4. PICK n \in 0..MaxFd : DOMAIN udp = 1..n /\ Cardinality(DOMAIN udp) = n
  BY TableSize DEF TypeOK
<1>5. n < MaxFd /\ n \in Nat
  BY <1>3, <1>4, DescriptorLeft, SetupAssumption DEF SerialInv
<1>6. udp' = [k \in 1..(n + 1) |-> IF k <= n THEN udp[k] ELSE 0]
      /\ sockinfo' = [sockinfo EXCEPT !.sockfd = n + 1]
  BY <1>4, <1>5 DEF InitCreate
<1>7. Made' = Made \cup {p}
  <2>1. initpc' = "signal" /\ UNCHANGED <<pc, call, sem2>>
    BY DEF InitCreate, procs, sems
  <2>2. \A q \in Proc \ {p} : pc[q] \in Outside
    BY <1>1 DEF OneInside
  <2> QED BY <1>1, <2>1, <2>2 DEF Made, Created, HasAnswer
<1>8. IsFiniteSet(Made) /\ Cardinality(Made') = Cardinality(Made) + 1 /\ Cardinality(Made) \in Nat
  BY <1>3, <1>7, SetupAssumption, FS_Subset, FS_AddElement, FS_CardinalityType DEF Made
<1>9. Cardinality(DOMAIN udp') = n + 1
  <2>1. DOMAIN udp' = 1..(n + 1) /\ 1 \in Int /\ n + 1 \in Int
    BY <1>5, <1>6
  <2> QED BY <1>5, <2>1, FS_Interval
<1> QED BY <1>4, <1>5, <1>6, <1>8, <1>9 DEF FewDescriptors, SerialInv

LEMMA FewDescriptorsStep ==
  ASSUME Serial, Cardinality(Proc) <= MaxSocket, Cardinality(Proc) <= MaxFd, TypeOK,
         SerialInv, [Next]_vars
  PROVE  FewDescriptors'
<1>1. ASSUME UNCHANGED <<udp, sem2, initpc, pc, call>>
      PROVE  FewDescriptors'
  BY <1>1, MadeKept DEF SerialInv, Made, Created, HasAnswer
<1>2. ASSUME NEW p \in Proc, Call(p)
      PROVE  FewDescriptors'
  <2>1. UNCHANGED udp
    BY <1>2 DEF Call, Continue, SocketEnter, SocketScan, SocketFull, BindEnter, BindPut, Signal, Wait, Relock,
                SocketDone, SocketError, BindResult, Enter
  <2>2. ASSUME NEW q \in Proc \ {p}, q \in Made
        PROVE  q \in Made'
    <3>1. UNCHANGED <<pc[q], call[q]>>
      BY <1>2 DEF Call, Continue, SocketEnter, SocketScan, SocketFull, BindEnter, BindPut, Signal, Wait,
                  Relock, SocketDone, SocketError, BindResult, Enter, Goto, TypeOK
    <3>2. CASE pc[q] \in Outside
      BY <2>2, <3>1, <3>2 DEF Made
    <3>3. CASE pc[q] \notin Outside
      <4>1. OneInside(q)
        BY <2>2, <3>3, WhoIsInside DEF SerialInv, Outside, TypeOK
      <4>2. MayCall(p) => (pc[p] \in Outside => FALSE)
        BY <3>3, <4>1 DEF MayCall, OneInside
      <4>3. pc[p] \in Outside
        BY <4>1 DEF OneInside
      <4> QED BY <1>2, <4>2, <4>3
              DEF Call, Continue, SocketEnter, SocketScan, SocketFull, BindEnter, BindPut, Signal, Wait,
                  Relock, SocketDone, SocketError, BindResult, Enter, At, Outside
    <3> QED BY <3>2, <3>3
  <2>3. ASSUME p \in Made
        PROVE  p \in Made'
    <3>1. CASE SocketEnter(p) \/ SocketScan(p) \/ SocketFull(p) \/ SocketDone(p)
               \/ SocketError(p) \/ BindResult(p)
      BY <2>3, <3>1
         DEF SocketEnter, SocketScan, SocketFull, SocketDone, SocketError, BindResult, Enter, At,
             Goto, TypeOK, Made, Outside, Created, HasAnswer
    <3>2. CASE BindEnter(p) \/ BindPut(p) \/ Signal(p) \/ Wait(p) \/ Relock(p)
      BY <2>3, <3>2
         DEF BindEnter, BindPut, Signal, Wait, Relock, Enter, At, Goto, TypeOK, Made, Outside,
             Created, HasAnswer
    <3> QED BY <1>2, <3>1, <3>2 DEF Call, Continue
  <2>4. Made \subseteq Made'
    BY <2>2, <2>3 DEF Made
  <2> QED BY <2>1, <2>4, MadeKept DEF SerialInv
<1>3. CASE InitLoop /\ ~ InitCreate /\ ~ InitBind
  <2>1. UNCHANGED <<udp, pc, call>>
    BY <1>3 DEF InitLoop, InitWake, InitLook, InitSignal, procs
  <2>2. ASSUME NEW q \in Proc, HasAnswer(q)
        PROVE  HasAnswer(q)'
    <3>1. CASE pc[q] \in {"lock", "result"}
      BY <2>1, <3>1 DEF HasAnswer
    <3>2. CASE pc[q] = "wait"
      <4>1. Phase(q)
        BY <3>2, WhoIsInside DEF SerialInv, Inside, OneInside
      <4> QED BY <1>3, <2>1, <2>2, <3>2, <4>1
              DEF Phase, Requested, Replied, Calm, HasAnswer, InitLoop, InitWake, InitLook,
                  InitSignal, TypeOK
    <3> QED BY <2>2, <3>1, <3>2 DEF HasAnswer
  <2>3. Made \subseteq Made'
    BY <2>1, <2>2 DEF Made, Created
  <2> QED BY <2>1, <2>3, MadeKept DEF SerialInv
<1>4. CASE InitBind
  <2>1. PICK n \in 0..MaxFd : DOMAIN udp = 1..n
    BY TableSize DEF TypeOK
  <2>2. DOMAIN udp' = DOMAIN udp
    BY <1>4, <2>1 DEF InitBind
  <2>3. Made \subseteq Made'
    BY <1>4 DEF InitBind, Made, Created, HasAnswer, procs, sems
  <2>4. Cardinality(Made) <= Cardinality(Made') /\ Cardinality(Made) \in Nat
        /\ Cardinality(Made') \in Nat /\ Cardinality(DOMAIN udp) \in Nat
    <3>1. IsFiniteSet(Made') /\ IsFiniteSet(Made)
      BY SetupAssumption, FS_Subset DEF Made
    <3>2. Cardinality(DOMAIN udp) \in Nat
      BY TableSize, SetupAssumption DEF TypeOK
    <3> QED BY <2>3, <3>1, <3>2, FS_Subset, FS_CardinalityType
  <2> QED BY <2>2, <2>4 DEF FewDescriptors, SerialInv
<1>5. CASE InitCreate
  BY <1>5, CreateStep
<1>6. CASE Restart
  <2>1. DOMAIN udp' = {}
    BY <1>6 DEF Restart
  <2>2. Cardinality(DOMAIN udp') = 0
    BY <2>1, FS_EmptySet
  <2>3. Cardinality(Made') \in Nat
    BY SetupAssumption, FS_Subset, FS_CardinalityType DEF Made
  <2> QED BY <2>2, <2>3 DEF FewDescriptors
<1>7. ASSUME NEW p \in Proc, (\E to \in To : m_sendto(p, to)) \/ Exit(p)
      PROVE  FewDescriptors'
  BY <1>1, <1>7 DEF m_sendto, Exit, procs, sems, table
<1>8. ASSUME NEW p \in Proc, m_close(p)
      PROVE  FewDescriptors'
  <2>1. Made \subseteq Made'
    BY <1>8 DEF m_close, At, Goto, Made, Created, HasAnswer, Outside, sems, TypeOK
  <2> QED BY <1>8, <2>1, MadeKept DEF m_close, SerialInv
<1>9. ASSUME NEW i \in Index, Settle(i) \/ GC(i)
      PROVE  FewDescriptors'
  BY <1>1, <1>9 DEF Settle, GC, procs, sems
<1>10. CASE UNCHANGED vars
  BY <1>1, <1>10 DEF vars, procs, sems
<1> QED BY <1>2, <1>3, <1>4, <1>5, <1>6, <1>7, <1>8, <1>9, <1>10 DEF Next

LEMMA SerialHolds ==
  ASSUME Serial, ~ MayCrash, Cardinality(Proc) <= MaxSocket, Cardinality(Proc) <= MaxFd
  PROVE  Spec => [](TypeOK /\ SerialInv)
<1>1. Init => SerialInv
  <2> SUFFICES ASSUME Init PROVE SerialInv
    OBVIOUS
  <2>1. DOMAIN udp = {} /\ Cardinality(DOMAIN udp) = 0
    BY FS_EmptySet DEF Init
  <2>2. Cardinality(Made) \in Nat
    BY SetupAssumption, FS_Subset, FS_CardinalityType DEF Made
  <2> QED BY <2>1, <2>2
          DEF Init, SerialInv, OneCall, NobodyInside, Calm, Outside, OwnEntries, FewDescriptors
<1>2. TypeOK /\ SerialInv /\ [Next]_vars => SerialInv'
  BY OneCallStep, OwnEntriesStep, FewDescriptorsStep DEF SerialInv
<1> QED BY <1>1, <1>2, SetupTypesCorrect, PTL DEF Spec

\* One call at a time, with an entry and a descriptor for every process: sem3 is
\* down exactly while one live process is between its two semop calls, and no error
\* path of m_socket, which keeps it, is ever taken (msocket.c 68-71, 103-110).
THEOREM LockNeverLeft ==
  ASSUME Serial, ~ MayCrash, Cardinality(Proc) <= MaxSocket, Cardinality(Proc) <= MaxFd
  PROVE  Spec => []LockHeld
<1>1. TypeOK /\ SerialInv => LockHeld
  <2> SUFFICES ASSUME TypeOK, OneCall
               PROVE  LockHeld
    BY DEF SerialInv
  <2>1. CASE NobodyInside
    <3>1. Holders = {} /\ sem3 = 1
      BY <2>1 DEF NobodyInside, Holders, Outside
    <3> QED BY <3>1, FS_EmptySet DEF LockHeld
  <2>2. ASSUME NEW p \in Proc, OneInside(p)
        PROVE  LockHeld
    <3>1. \A q \in Proc \ {p} : q \notin Holders
      BY <2>2 DEF OneInside, Holders, Outside
    <3>2. CASE pc[p] \in {"scan", "put", "result"}
      <4>1. Holders = {p} /\ sem3 = 0 /\ alive[p]
        BY <2>2, <3>1, <3>2 DEF OneInside, Phase, Holders
      <4>2. Cardinality(Holders) = 1
        BY <4>1, FS_Singleton
      <4> QED BY <4>1, <4>2 DEF LockHeld
    <3>3. CASE pc[p] \notin {"scan", "put", "result"}
      <4>1. Holders = {} /\ sem3 = 1
        BY <2>2, <3>1, <3>3 DEF OneInside, Phase, Holders
      <4> QED BY <4>1, FS_EmptySet DEF LockHeld
    <3> QED BY <3>2, <3>3
  <2> QED BY <2>1, <2>2 DEF OneCall
<1> QED BY <1>1, SerialHolds, PTL

(***************************************************************************)
(* Descriptors.                                                            *)
(***************************************************************************)

\* p is in a call that init has answered.
Answered(p) == pc[p] \in Inside /\ HasAnswer(p)

LEMMA DescriptorsKept ==
  ASSUME Descriptors, UNCHANGED <<sockfd, m_sockid, udp, sockinfo>>,
         \A q \in Proc : HasSocket(q)' => HasSocket(q),
         \A q \in Proc : pc'[q] = "bound" => pc[q] = "bound",
         \A q \in Proc : Answered(q)' => Answered(q) /\ call'[q] = call[q]
  PROVE  Descriptors'
BY DEF Descriptors, Answered

\* Who is inside of a call keeps the others out, and owns an entry or is to get one.
LEMMA Others ==
  ASSUME OneCall, NEW p \in Proc, pc[p] \in Inside, NEW q \in Proc \ {p}
  PROVE  /\ pc[q] \in Outside /\ pc[q] \notin Inside
         /\ HasSocket(q) => Owner(q)
BY WhoIsInside DEF OneInside, Inside, Outside, HasSocket, Owner

LEMMA DescriptorsCall ==
  ASSUME Serial, TypeOK, SerialInv, EntryExclusive, Descriptors, NEW p \in Proc, Call(p)
  PROVE  Descriptors'
<1>1. CASE SocketEnter(p) \/ BindEnter(p)
  <2>1. UNCHANGED <<sockfd, m_sockid, udp, sockinfo, alive, initpc, sem2>>
    BY <1>1 DEF SocketEnter, BindEnter, Enter, table
  <2>2. \A q \in Proc \ {p} : pc'[q] = pc[q] /\ call'[q] = call[q]
    BY <1>1 DEF SocketEnter, BindEnter, Enter, Goto, TypeOK
  <2>3. /\ HasSocket(p)' => HasSocket(p)
        /\ pc'[p] # "bound"
        /\ ~ Answered(p)'
    BY <1>1, <2>1 DEF SocketEnter, BindEnter, Enter, At, Goto, TypeOK, HasSocket, Answered,
                      HasAnswer, Inside
  <2>4. \A q \in Proc \ {p} : HasSocket(q)' = HasSocket(q) /\ Answered(q)' = Answered(q)
    BY <2>1, <2>2 DEF HasSocket, Answered, HasAnswer
  <2> QED BY <2>1, <2>2, <2>3, <2>4, DescriptorsKept
<1>2. CASE SocketScan(p)
  <2>1. PICK i \in Index : m_sockid' = [m_sockid EXCEPT ![p] = i]
    BY <1>2 DEF SocketScan, FreeIndexes
  <2>2. pc[p] = "scan" /\ pc' = [pc EXCEPT ![p] = "signal"] /\ pc[p] \in Inside
    BY <1>2 DEF SocketScan, At, Goto, Inside
  <2>3. UNCHANGED <<sockfd, udp, alive, call, initpc, sem2>>
    BY <1>2 DEF SocketScan
  <2>4. call[p] = "socket"
    BY <2>2, WhoIsInside DEF SerialInv, OneInside, Phase
  <2>5. \A q \in Proc \ {p} : /\ pc'[q] = pc[q] /\ pc'[q] \notin Inside
                              /\ m_sockid'[q] = m_sockid[q]
    BY <2>1, <2>2, Others DEF SerialInv, TypeOK
  <2>6. \A q \in Proc : HasSocket(q)' => HasSocket(q) /\ q # p
    BY <2>2, <2>3, <2>4, <2>5 DEF HasSocket, Inside, TypeOK
  <2>7. pc'[p] = "signal" /\ ~ HasAnswer(p)'
    BY <2>2 DEF HasAnswer, TypeOK
  <2> QED BY <2>3, <2>5, <2>6, <2>7 DEF Descriptors
<1>3. CASE SocketFull(p) \/ SocketError(p)
  <2>1. UNCHANGED <<sockfd, m_sockid, udp, alive, call, initpc, sem2>>
    BY <1>3 DEF SocketFull, SocketError, table, sems
  <2>2. pc' = [pc EXCEPT ![p] = "failed"] /\ pc[p] \in Inside
    BY <1>3 DEF SocketFull, SocketError, Goto, At, Inside
  <2>3. \A q \in Proc : pc'[q] \notin Inside
    BY <2>2, Others DEF SerialInv, TypeOK, Inside
  <2>4. \A q \in Proc : HasSocket(q)' => HasSocket(q) /\ pc'[q] = pc[q]
    BY <2>1, <2>2, <2>3 DEF HasSocket, TypeOK
  <2>5. \A q \in Proc : pc'[q] = "bound" => pc[q] = "bound"
    BY <2>2 DEF TypeOK
  <2> QED BY <2>1, <2>3, <2>4, <2>5 DEF Descriptors
<1>4. CASE BindPut(p) \/ Signal(p)
  <2>1. UNCHANGED <<sockfd, m_sockid, udp, alive, call, initpc>>
    BY <1>4 DEF BindPut, Signal, table
  <2>2. pc[p] \in Inside /\ pc'[p] \in Inside \ {"lock", "result"}
        /\ \A q \in Proc \ {p} : pc'[q] = pc[q] /\ pc[q] \notin Inside
    BY <1>4, Others DEF BindPut, Signal, Goto, At, Inside, SerialInv, TypeOK
  <2>3. ~ HasAnswer(p)'
    <3>1. Phase(p)
      BY <2>2, WhoIsInside DEF SerialInv, OneInside
    <3> QED BY <1>4, <3>1 DEF Phase, BindPut, Signal, At, Goto, TypeOK, HasAnswer, Calm
  <2>4. \A q \in Proc : /\ HasSocket(q)' => HasSocket(q)
                        /\ pc'[q] = "bound" => pc[q] = "bound"
    BY <2>1, <2>2 DEF HasSocket, Inside
  <2> QED BY <2>1, <2>2, <2>3, <2>4 DEF Descriptors
<1>5. CASE Wait(p) \/ Relock(p)
  <2>1. UNCHANGED <<sockfd, m_sockid, udp, sockinfo, alive, call, initpc>>
    BY <1>5 DEF Wait, Relock, table
  <2>2. pc[p] \in Inside /\ pc'[p] \in Inside
        /\ \A q \in Proc \ {p} : pc'[q] = pc[q] /\ pc[q] \notin Inside
    BY <1>5, Others DEF Wait, Relock, Goto, At, Inside, SerialInv, TypeOK
  <2>3. HasAnswer(p)
    <3>1. Phase(p)
      BY <2>2, WhoIsInside DEF SerialInv, OneInside
    <3> QED BY <1>5, <3>1 DEF Phase, Wait, Relock, At, HasAnswer, Requested, Replied
  <2>4. \A q \in Proc : /\ HasSocket(q)' => HasSocket(q)
                        /\ pc'[q] = "bound" => pc[q] = "bound"
                        /\ Answered(q)' => Answered(q)
    BY <2>1, <2>2, <2>3 DEF HasSocket, Inside, Answered
  <2> QED BY <2>1, <2>4, DescriptorsKept
<1>6. CASE SocketDone(p)
  <2>1. pc[p] = "result" /\ call[p] = "socket" /\ alive[p] /\ pc[p] \in Inside
    BY <1>6 DEF SocketDone, At, Inside
  <2>2. pc' = [pc EXCEPT ![p] = "open"] /\ UNCHANGED <<udp, m_sockid, alive, call>>
        /\ sockfd' = [sockfd EXCEPT ![m_sockid[p]] = sockinfo.sockfd]
    BY <1>6 DEF SocketDone, Goto
  <2>3. /\ sockinfo.sockfd \in DOMAIN udp
        /\ \A q \in Proc : HasSocket(q) => sockfd[m_sockid[q]] # sockinfo.sockfd
    BY <2>1 DEF Descriptors, HasAnswer
  <2>4. \A q \in Proc \ {p} : /\ pc'[q] = pc[q] /\ pc[q] \notin Inside
                              /\ HasSocket(q)' = HasSocket(q)
    BY <2>1, <2>2, Others DEF SerialInv, TypeOK, HasSocket
  <2>5. \A q \in Proc \ {p} : HasSocket(q) => m_sockid[q] # m_sockid[p]
    <3>1. Owner(p)
      BY <2>1 DEF Owner
    <3> QED BY <2>1, <3>1, Others DEF SerialInv, EntryExclusive
  <2>6. /\ sockfd'[m_sockid'[p]] = sockinfo.sockfd
        /\ \A q \in Proc \ {p} : HasSocket(q) => sockfd'[m_sockid'[q]] = sockfd[m_sockid[q]]
    BY <2>2, <2>5 DEF TypeOK
  <2>7. pc'[p] = "open" /\ pc'[p] \notin Inside
    BY <2>2 DEF TypeOK, Inside
  <2> QED BY <2>2, <2>3, <2>4, <2>6, <2>7 DEF Descriptors
<1>7. CASE BindResult(p)
  <2>1. pc[p] = "result" /\ call[p] = "bind" /\ alive[p] /\ pc[p] \in Inside
    BY <1>7 DEF BindResult, At, Inside
  <2>2. HasSocket(p) /\ HasAnswer(p)
    BY <2>1 DEF HasSocket, HasAnswer
  <2>3. UNCHANGED <<sockfd, udp, m_sockid, alive, call>>
        /\ pc'[p] \in {"open", "bound"} /\ (pc'[p] = "bound" => sockinfo.sockfd # -1)
        /\ \A q \in Proc \ {p} : pc'[q] = pc[q]
    BY <1>7 DEF BindResult, Goto, TypeOK
  <2>4. \A q \in Proc : HasSocket(q)' => HasSocket(q)
    BY <2>2, <2>3 DEF HasSocket
  <2>5. \A q \in Proc : pc'[q] \notin Inside
    BY <2>1, <2>3, Others DEF SerialInv, Inside
  <2>6. pc'[p] = "bound" => udp[sockfd[m_sockid[p]]] = p
    BY <2>1, <2>2, <2>3 DEF Descriptors
  <2> QED BY <2>3, <2>4, <2>5, <2>6 DEF Descriptors
<1> QED BY <1>1, <1>2, <1>3, <1>4, <1>5, <1>6, <1>7 DEF Call, Continue

LEMMA DescriptorsServe ==
  ASSUME TypeOK, SerialInv, Descriptors, Cardinality(Proc) <= MaxFd, InitLoop
  PROVE  Descriptors'
<1>1. PICK p \in Proc : OneInside(p) /\ pc[p] = "wait"
  <2>1. ~ Calm
    BY DEF Calm, InitLoop, InitWake, InitLook, InitCreate, InitBind, InitSignal
  <2> QED BY <2>1, WhoIsServed DEF SerialInv
<1>2. pc[p] \in Inside /\ \A q \in Proc \ {p} : pc[q] \notin Inside
  BY <1>1, Others DEF SerialInv, Inside
<1>3. UNCHANGED <<sockfd, m_sockid, pc, call, alive>>
  BY DEF InitLoop, InitWake, InitLook, InitCreate, InitBind, InitSignal, table, procs
<1>4. \A q \in Proc : HasSocket(q)' = HasSocket(q)
  BY <1>3 DEF HasSocket
<1>5. CASE InitWake \/ InitLook \/ InitSignal
  <2>1. UNCHANGED <<udp, sockinfo>>
    BY <1>5 DEF InitWake, InitLook, InitSignal
  <2>2. HasAnswer(p)' => HasAnswer(p)
    BY <1>1, <1>3, <1>5 DEF InitWake, InitLook, InitSignal, HasAnswer, sems
  <2>3. \A q \in Proc : Answered(q)' => Answered(q)
    BY <1>2, <1>3, <2>2 DEF Answered
  <2> QED BY <1>3, <1>4, <2>1, <2>3, DescriptorsKept
<1>6. CASE InitCreate
  <2>1. PICK n \in Nat : /\ DOMAIN udp = 1..n
                         /\ udp' = [k \in 1..(n + 1) |-> IF k <= n THEN udp[k] ELSE 0]
                         /\ sockinfo' = [sockinfo EXCEPT !.sockfd = n + 1]
    BY <1>6, CreateStep
  <2>2. call[p] = "socket"
    BY <1>1, <1>6 DEF OneInside, Phase, InitCreate, Requested, Replied
  <2>3. sockinfo'.sockfd = n + 1
    BY <2>1 DEF TypeOK, Requests
  <2>4. \A fd \in DOMAIN udp : fd \in DOMAIN udp' /\ udp'[fd] = udp[fd] /\ fd # n + 1
    BY <2>1
  <2>5. n + 1 \in DOMAIN udp'
    BY <2>1
  <2> QED BY <1>2, <1>3, <1>4, <2>2, <2>3, <2>4, <2>5 DEF Descriptors
<1>7. CASE InitBind
  <2>1. call[p] = "bind" /\ sockinfo = Asked(p) /\ sem2 = 0
    BY <1>1, <1>7 DEF OneInside, Phase, InitBind, Requested, Replied, TypeOK
  <2>2. sockinfo.sockfd = sockfd[m_sockid[p]] /\ sockinfo.port = p /\ p # 0
    BY <2>1, SetupAssumption DEF Asked
  <2>3. HasSocket(p)
    BY <1>1, <1>2, <2>1 DEF HasSocket, OneInside
  <2>4. sockfd[m_sockid[p]] \in DOMAIN udp
    BY <2>3 DEF Descriptors
  <2>5. CASE udp' = [udp EXCEPT ![sockfd[m_sockid[p]]] = p]
    <3>1. /\ DOMAIN udp' = DOMAIN udp /\ udp'[sockfd[m_sockid[p]]] = p
          /\ \A fd \in DOMAIN udp : fd # sockfd[m_sockid[p]] => udp'[fd] = udp[fd]
      <4>1. PICK m \in 0..MaxFd : udp \in [1..m -> Proc \cup {0, -1}]
        BY TableSize DEF TypeOK
      <4> QED BY <2>4, <2>5, <4>1
    <3>2. \A q \in Proc \ {p} : HasSocket(q) => sockfd[m_sockid[q]] # sockfd[m_sockid[p]]
      BY <2>3 DEF Descriptors
    <3>3. pc[p] # "bound"
      BY <1>1
    <3> QED BY <1>2, <1>3, <1>4, <2>1, <3>1, <3>2, <3>3 DEF Descriptors
  <2>6. CASE udp' = udp /\ sockinfo'.sockfd = -1
    BY <1>2, <1>3, <1>4, <2>1, <2>6 DEF Descriptors
  <2>7. \/ udp' = [udp EXCEPT ![sockfd[m_sockid[p]]] = p]
        \/ udp' = udp /\ sockinfo'.sockfd = -1
    <3>1. CASE udp' = udp /\ sockinfo' = [sockinfo EXCEPT !.sockfd = -1, !.errn = 1]
      BY <3>1 DEF TypeOK, Requests
    <3> QED BY <1>7, <2>2, <3>1 DEF InitBind
  <2> QED BY <2>5, <2>6, <2>7
<1> QED BY <1>5, <1>6, <1>7 DEF InitLoop

LEMMA DescriptorsStep ==
  ASSUME Serial, ~ UseClose, Cardinality(Proc) <= MaxFd,
         TypeOK, SerialInv, EntryExclusive, Descriptors, [Next]_vars
  PROVE  Descriptors'
<1>1. ASSUME UNCHANGED <<sockfd, m_sockid, udp, sockinfo, initpc, sem2, pc, call>>,
             \A q \in Proc : alive'[q] => alive[q]
      PROVE  Descriptors'
  BY <1>1, DescriptorsKept DEF HasSocket, Answered, HasAnswer
<1>2. ASSUME NEW p \in Proc, (\E to \in To : m_sendto(p, to)) \/ Exit(p)
      PROVE  Descriptors'
  BY <1>1, <1>2 DEF m_sendto, Exit, TypeOK, procs, sems, table
<1>3. ASSUME NEW i \in Index, Settle(i) \/ GC(i)
      PROVE  Descriptors'
  BY <1>1, <1>3 DEF Settle, GC, procs, sems
<1>4. CASE UNCHANGED vars
  BY <1>1, <1>4 DEF vars, table, procs, sems
<1>5. CASE Restart
  <2>1. UNCHANGED <<pc, alive>> /\ \A q \in Proc : ~ alive[q] \/ pc[q] \in {"idle", "closed", "failed"}
    BY <1>5 DEF Restart, MayStart, procs
  <2>2. \A q \in Proc : ~ HasSocket(q)'
    BY <2>1 DEF HasSocket, Inside
  <2>3. \A q \in Proc : pc[q] \notin Inside
    BY <2>1, WhoIsInside DEF SerialInv, OneInside, Inside
  <2> QED BY <2>1, <2>2, <2>3 DEF Descriptors
<1>6. \A p \in Proc : ~ m_close(p)
  BY DEF m_close
<1> QED BY <1>2, <1>3, <1>4, <1>5, <1>6, DescriptorsCall, DescriptorsServe DEF Next

\* One call at a time: every live process has a UDP socket of its own, and m_bind
\* has bound it to the port the process asked for, also after other processes died
\* and their entries were used again (msocket.c 85-130, initmsocket.c 130-183).
THEOREM DescriptorsOwned ==
  ASSUME Serial, ~ MayCrash, ~ UseClose, Foreign = {},
         Cardinality(Proc) <= MaxSocket, Cardinality(Proc) <= MaxFd
  PROVE  Spec => []OwnDescriptor
<1>1. Init => Descriptors
  BY DEF Init, Descriptors, HasSocket, Inside
<1>2. TypeOK /\ SerialInv /\ EntryExclusive /\ Descriptors /\ [Next]_vars => Descriptors'
  BY DescriptorsStep
<1>3. Descriptors => OwnDescriptor
  BY DEF Descriptors, OwnDescriptor, HasSocket, Inside
<1> QED BY <1>1, <1>2, <1>3, SerialHolds, OneOwner, PTL DEF Spec
=============================================================================
