# Verification of Reliable_UDP_SMTP_PROTO: the MTP transport and the mail system

TLA+ models, TLC checks and TLAPS proofs for the code in `src/`. The core of the
repository is MTP (`src/RelaibleUDP`): a message transport over UDP, implemented by a
daemon (`initmsocket`) and a library (`msocket.c`) that user programs link, which meet
in System V shared memory. Beside it there is a TCP mail system (`src/SMTP`): an SMTP
server, a POP3 server and a client.

## 1. Inventory

| Part | Source | State | Operations |
|---|---|---|---|
| Socket table | `msocket.h`, shared memory key 98 | `SM[25]`: owner, UDP descriptor, destination, send buffer, receive buffer, window | every part below |
| User calls | `msocket.c` | none of their own | `m_socket`, `m_bind`, `m_sendto`, `m_recvfrom`, `m_close` |
| init's main loop | `initmsocket.c` 18-198 | UDP descriptors; the one `sockinfo` record; `sem1`, `sem2`, `sem3` | create a UDP socket, bind it |
| R thread | `initmsocket.c` 238-545 | `fd_set` | store data frames, acknowledge, take acknowledgements |
| S thread | `initmsocket.c` 571-694 | timers (`lastsent`) | resend, number and send new messages |
| Garbage collector | `initmsocket.c` 708-771 | none | free the entries of dead processes |
| Demo programs | `user1.c`, `user2.c` | files | send a file line by line, poll for messages |
| SMTP server | `smtpmail.c` | one forked session per client, `<user>/mymailbox` files | HELO, MAIL, RCPT, DATA, QUIT |
| POP3 server | `popserver.c` | one forked session per client, the list of mails read at PASS | USER, PASS, STAT, LIST, RETR, DELE, RSET, QUIT |
| Mail client | `mailclient.c` | menus | drives both servers |

How they interact:

* **Set-up.** A caller of `m_socket` or `m_bind` writes a request into `sockinfo` under
  `sem3`, raises `sem1` to wake init, waits on `sem2` for the answer, and takes `sem3`
  again to read it. The answer is anonymous and the record is one.
* **Data.** `m_sendto` fills a slot of the send buffer. S gives it a frame number (1 ..
  14, then 1 again; 0 is "none yet"), sends it, and sends it again until it is
  acknowledged. The peer's R stores the frame it expects, acknowledges it with the free
  space left, and acknowledges again what it takes for old frames. `m_recvfrom` returns
  the stored frame whose number comes next. An acknowledgement frees the slot it names
  and gives back one unit of window; the window starts at 1.
* **Locking.** `sem3` is meant to protect the table. R does not take it: its `semop`
  calls are comments (`initmsocket.c` 282-285, 538-541).
* **Restart.** A new initmsocket sets shared memory and semaphores anew, whoever uses
  them.
* **Mail.** Both servers fork a child per connection. The SMTP child appends an accepted
  mail to `<user>/mymailbox` with three `write` calls; the POP3 child reads the file
  into a list at PASS, marks entries at DELE, and when it ends - after QUIT or because
  the connection is gone - truncates the file and writes back what is not marked.
  Nothing locks the file. mailclient counts the mails once, after login, and deletes by
  number.
* **End.** The collector frees the entry of a dead process once nothing in it waits to
  be acknowledged or read. UDP descriptors are never closed.

What is hard here: datagrams lost, duplicated and reordered while frame numbers are
reused; counters (`size`, `fetchsize`, `insertsize`, `wndsize`, four cursors) that are
kept apart from the slots they describe; threads that overlap without a lock; a
request/answer handshake shared by all processes; error returns that keep a semaphore;
processes that die anywhere; a mailbox file that children of two servers append to,
truncate and rewrite without a lock. `PROJECT.json` lists each hazard at its line.

What makes each part correct: *transport* - what one user hands over the other user
gets, in order, once, as long as both run; *buffers* - counters agree with slots, no
slot is freed or overwritten early; *set-up* - an entry has one owner and a descriptor
of its own, each request gets one answer, the lock is free when nobody is inside;
*collector* - frees what the dead leave and nothing else; *mail* - a mail accepted with
250 is in the mailbox of each recipient once, and goes only by a DELE followed by QUIT.

## 2. Modules

| Module | Models | Notes |
|---|---|---|
| `MTPFrames` | frame arithmetic of all threads, the receive window | pure operators, constants `Buf` (5 in the code) and `MaxSeq` (15); the lifetime of datagrams |
| `MTP` | both buffers of any number of sockets bound in pairs, `m_sendto`, `m_recvfrom`, R, S, collector, exit of users, UDP | one action per call, thread round on a socket, or datagram |
| `ReliableChannel` | what MTP promises: an ordered, exactly-once, bounded channel per direction | implemented by `MTP`, and by each half of it in the race modules (`ImplementsChannel`) |
| `MTPInv` | the inductive invariant of delivery | checked by TLC, proved in `MTPDelivery` |
| `MTPLemmas`, `MTPProofs`, `MTPDelivery` | lemmas (shared with the race modules) and theorems | section 5 |
| `MTPSendRace` | one send buffer, one memory access per action: `m_sendto`, S, and R, which takes no lock | `Races` names the two overlaps that do harm, `RaceFree` is the executions without them |
| `MTPRecvRace` | one receive buffer in the same way: `m_recvfrom`, R | five such overlaps |
| `MTPSendRaceProofs`, `MTPRecvRaceProofs` | theorems about the two | section 5 |
| `MTPSetup` | `m_socket`, `m_bind`, `m_close`, init's loop and its restart, the three semaphores, collector, descriptors | buffers are one bit, "holds unacknowledged messages" |
| `MTPSetupProofs` | theorems about `MTPSetup` | section 5 |
| `MTPTimer` | `timedifference()` and S's test against T, with C's widths, and theorems about them | pure operators |
| `MailLists` | deletion from a list by number | used by the POP3 server and by the abstract store |
| `MailFiles` | the mailbox files: what an append, a truncation and a write over a changed file leave | a text is the pieces the SMTP server writes |
| `SMTPServer`, `POP3Server` | one child per connection, one action per command, write, crash or lost connection | share the files only |
| `MailSystem` | both servers composed with clients: mailclient's menus, or a raw client that sends commands in any order | |
| `MailStore` | what SMTP and POP3 promise of a mailbox | `MailSystem!ImplementsStore` is the refinement |
| `MailInv`, `MailProofs` | the inductive invariant of the mail system, theorems | section 5 |
| `MCMTP`, `MCMTPSetup`, `MCMailSystem` | values of the constants for TLC | |

How `MTP` corresponds to the code:

* `sdata`, `ssize`, `snext`, `snextframed` are `SM[i].sendbuffer`; `wndsize`,
  `currframe` are `sendwnd`; `rdata`, `insertsize`, `fetchsize`, `togetframe`,
  `readframe` are `receivebuffer`. The fields nobody reads (`sequence`, `recvwnd`,
  `insertloc`, `fetchloc`, `nospace`) are left out.
* `SSend` is one round of Sthreadfunc's second `while`; `SResend` its first loop on one
  socket. `RAccept`, `RReack`, `RIgnore`, `RAck` are the outcomes of Rthreadfunc for a
  datagram. `readfds` is R's `fd_set`, which shrinks to the ready sockets and is rebuilt
  only by a timeout of `select`.
* `SResend` may be taken or not in any round. Which rounds take it is `MTPTimer`: T is
  compared with microseconds and a round of S sleeps for two seconds, so every round
  does, until the difference, narrowed to `int`, turns negative about 36 minutes after
  the last new frame; then none does for as long. Fairness assumes that these periods
  end, which they do.
* A payload is the ordinal of its message. `EmptyMsgs` names the messages with an empty
  payload, whose datagram is four digits and passes `is_ack_message()`; the properties
  and theorems are about `EmptyMsgs = {}`.
* **Granularity.** `MTP` takes each call or thread round as one step. That is sound for
  code that holds `sem3`; for R it restricts attention to executions in which R does not
  overlap such code. `MTPSendRace` and `MTPRecvRace` are about the others, too.
* **Network.** `net` is the set of datagrams that may still arrive; a delivered datagram
  stays (duplication), `Lose` removes one (network loss, and `dropMessage()`), arrival
  order is free. Assumption: a datagram does not survive `MaxSeq - 2` later frames of
  its stream (`Expired`). Without such a bound no protocol with reused frame numbers is
  correct; with 14 numbers and seconds between frames it is a mild one. `MTPSendRace`
  (`Recent`) and `MTPRecvRace` (`RArrive`) make the same assumption.

`MTPSetup`: a process moves through `scan/put`, `signal`, `wait`, `lock`, `result`, the
stretches between the `semop` calls of `m_socket` and `m_bind`; init through `wait`,
`look` (the unlocked test of `sockinfo`), `create` or `bind`, `signal`. What is done
under one hold of `sem3` is one step, except in a caller that may be killed there, where
taking and releasing are two. `-1` and `0` in `udp` are a port of the kernel's choice
and none. `Serial` restricts callers to one at a time, as documentation.txt 178 tells
the user to do. `Restart` kills initmsocket and runs `init()` up to its loop, in one
step; with `Serial` it waits until no live process has a socket or is inside a call,
which is what a user who restarts the daemon between uses does. `m_close` is a step per
round of its loop, and one for the last hold of `sem3`, whose `close()` meets a
descriptor of the caller's process, not the UDP socket of init's. `Settle` is R storing
the acknowledgement of a socket's last message; it may never come, also for the dead.

The mail modules. A client sends a command and waits for the answer, so a command, its
handling and its answer are one step: nothing else of that client happens in between,
and other children see the handling only through the files. What other children can see
is a step each: the three writes of a mail, `fopen(.., "w")`, and the write of `fclose`.
The reading of a mailbox at PASS is one step, although `fgets` fetches the file in
blocks: a mail appended meanwhile would be read or not, which the two orders of the
steps cover; a reading that straddles another child's rewriting of a mailbox of more than
one block is left out. A text is three pieces (header lines, "Received:" line, body with its last
line "."), and a file is the mails that such last lines end, and a tail: that is how
popserver.c finds mails. A write over a file that others have appended to since it was
truncated replaces an unknown number of its bytes, so `Remains` keeps any suffix.
`delivered` and `clean` are history: the mails answered with 250, and the mailboxes on
which no two children, no killed child and no update under another name have met.
`Box` is what a mailbox holds; between truncation and writing back, it is what will be
written back and what was delivered since.

The race modules split `x++` into load and store, test and use, and keep accesses in
program order: the makefile compiles without `-O`, and the hardware is assumed to keep
stores in order. Accesses that no other thread can observe in between are merged (said
at the action). In `MTPSendRace` the network loses nothing of what it has and repeats
anything (`frames`, `acks` are sets that only expiry shrinks; that a datagram is never
delivered is one of the behaviours), and the peer's R is one step, with a user that
reads at once. In `MTPRecvRace` the peer sends its next message once the last one is
acknowledged, and any recent one again. Each half implements `ReliableChannel`: of the
first, `taken` is the messages that `m_sendto` accepted and `received` those the peer
stored; of the second, the messages acknowledged and those `m_recvfrom` returned.

## 3. Runs

| Run | What it shows | Bounds |
|---|---|---|
| `transfer` | type invariant; no accepted message vanishes; counters = slots; stop-and-wait; the branches the code reports as errors are dead; the invariant of the proof; unread messages are kept; refinement of `ReliableChannel` | 2 slots, 3 frame numbers, 4 messages one way: buffers fill, every number is used and one is reused while old datagrams live |
| `transfer_live` | accepted messages are delivered; dead owners' sockets are freed, once nothing in them waits | 3 slots, so that the receive window jumps, 5 frame numbers, 2 messages one way |
| `setup_crowd` | an entry has one owner, one answer per request | 3 concurrent callers, 2 entries, 1 descriptor (so both error paths are taken), killed at any point; `m_close`, of one round since nobody sends |
| `setup_serial` | own descriptor, bound to the requested port; `sem3` is a mutex; calls return; entries of the dead are freed unless they hold unacknowledged messages | 3 users, one call at a time, with sends and restarts of init between uses, without `m_close` |
| `send_race_free` | R without the lock, in every execution without the two races: `size` and `wndsize` exact, nothing lost, order kept, error branches harmless, refinement of `ReliableChannel` | the code's 5 slots and 14 frame numbers, 17 messages: slots and numbers come round, at different places |
| `recv_race_free` | the same for the receive buffer, without the five races: counters exact, order kept, nothing stale, frame numbers in step, refinement of `ReliableChannel` | 3 slots (so the receive window jumps), 5 frame numbers, 9 messages; old datagrams arrive again |
| `send_race_lost` | *violation*: R without the lock loses messages | 2 slots, 5 messages, overlapping |
| `recv_race_stale` | *violation*: the user reads a slot before it is filled | the same |
| `setup_cross_talk` | *violation*: the second of two `m_socket` calls clears `sockinfo` and with it init's answer to the first | 2 users |
| `setup_table_full` | *violation*: `m_socket` on a full table keeps `sem3` | 1 entry, 2 users |
| `mail` | a mailbox that one child at a time uses and nobody breaks off keeps every accepted mail once, in order, but the deleted ones; the invariant of the proof; mailclient's view stays that of its child; QUIT is answered; POP3 children of lost clients end | a mailclient with 3 connections and a raw client with 1, a user without a directory, a name not in user.txt; children killed while they write, the mailclient killed anywhere |
| `mail_lost` | *violation*: two mailclients, one reads while the other sends: a mail accepted between PASS and QUIT is lost, though nothing was marked | 2 clients with 2 connections |

`Buf` and `MaxSeq` are small because nothing in the safety properties depends on their
values but `MaxSeq > Buf + 1` (`FrameAssumption`), and the theorems hold for all of
them. Liveness does depend on them: the receive window t, t+1, t+3, ... must not hold the
frame before t, whose lost acknowledgement would then never be repeated
(`WindowAssumption` in `MCMTP`). It does not with the code's `Buf` 5 and `MaxSeq` 15,
nor with the 2 and 4 and the 3 and 6 used here; with 3 and 5, or 4 and 7, it would.
Deadlock is checked in all runs but those of `MTPSetup`, where all users may have
exited, and of `MailSystem`, where all clients may have left or died.

`OwnDescriptor` is a property of users that do not call `m_close`: the later rounds of
its loop free the entry of a process that has taken it since (`SetupCloseSteal`, three
users). So `setup_serial` and the theorem `DescriptorsOwned` leave `m_close` out.

Two clients are enough for `mail` to meet every pair of overlapping children;
three clients with one connection each pass as well (`MailThree.cfg`).

Fairness (`MTP!Fairness`): S, the collector and the timeout of `select` are weakly fair,
their loops never end; `m_recvfrom` is weakly fair because user2 polls; the arrival of a
datagram that is sent again and again is strongly fair, i.e. the network and
`dropMessage()` do not discard every copy. The assumption on `select` can fail when
several sockets stay busy (section 6). `MTPSetup!Fairness`: init's loop, the collector and
a caller inside a call are strongly fair, since they never stop by themselves and Linux
wakes `semop` waiters in order. Nothing is assumed of the peer: acknowledgements may
never come, and `CleansUp` says nothing of a dead owner's entry while it holds
unacknowledged messages - the code keeps it then, and also while it holds unread ones,
which are in `MTP` only (`MCMTPUnread`). `MailSystem!Fairness`: a child that can write
or notice the end of its connection does, and a client that waits for the answer to QUIT
takes it; what a user types is not fair, so nothing is claimed of it.

Further configurations, not among the runs, show other places where the code departs
from what the repository says; each ends with a violated property:

| cfg | module | property | shows |
|---|---|---|---|
| `MCMTPEmpty` | `MCMTP` | `NoMessageVanishes` | an empty payload is taken for an acknowledgement and frees a message (`initmsocket.c` 208; documentation.txt 127) |
| `MCMTPFlow` | `MCMTP` | `FlowControl` | the announced free space is parsed and dropped (`initmsocket.c` 513; README 3) |
| `MCMTPUnread` | `MCMTP` | `TerminatedReclaimed` | dead owners with unread messages, or whose peer is gone, keep their entry (`initmsocket.c` 742; documentation.txt 150) |
| `SendRaceSize` | `MTPSendRace` | `SizeCounts` | `size` loses an update |
| `SendRaceOrder` | `MTPSendRace` | `StoredInOrder` | a later message is delivered first |
| `RecvRaceSize` | `MTPRecvRace` | `SizesCount` | `fetchsize` or `insertsize` loses an update |
| `RecvRaceErased` | `MTPRecvRace` | `AckedReadable` | `m_recvfrom` erases the number of a slot R has taken again |
| `RecvRaceErased` | `MTPRecvRace` | `IdleSlotFound`, put in its place | R finds no idle slot and fills slot 0 (`initmsocket.c` 411) |
| `SetupCrash` | `MCMTPSetup` | `CleansUp` | a process killed with `sem3` in hand stops the system (no SEM_UNDO) |
| `SetupForeign` | `MCMTPSetup` | `FreedWhenDead` | `errno = ESRCH` (`initmsocket.c` 745): a live process of another user is taken for dead |
| `SetupCloseEarly` | `MCMTPSetup` | `ClosedWhenSent` | `m_close` frees the entry before its messages are sent (`msocket.c` 495) |
| `SetupDest` | `MCMTPSetup` | `OnlyBoundDestination` | the destination check is an "or" (`msocket.c` 322) |
| `SetupPort` | `MCMTPSetup` | `PortsInUse` | UDP sockets are never closed |
| `SetupCloseSteal` | `MCMTPSetup` | `OwnDescriptor` | with three users a later round of `m_close` frees another process's entry (`msocket.c` 495) |
| `SetupRestart` | `MCMTPSetup` | `EntryExclusive` | a restarted initmsocket gives away entries in use (`initmsocket.c` 37) |
| `MailAbort` | `MCMailSystem` | `KeepsPromise` | a connection lost before PASS empties the mailbox of the user named (`popserver.c` 538) |
| `MailAbort` | `MCMailSystem` | `OnlyQuitRemoves`, put in its place | a connection lost after DELE deletes |
| `MailKill` | `MCMailSystem` | `KeepsPromise` | a child killed between truncating and writing loses the mailbox (`popserver.c` 410) |
| `MailRename` | `MCMailSystem` | `KeepsPromise` | the mailbox of the user named last is rewritten from a list that was not read from it: another's, or at the shortest none (`popserver.c` 132) |
| `MailSpin` | `MCMailSystem` | `SMTPChildEnds` | an SMTP child whose client is gone loops for ever (`smtpmail.c` 457) |
| `MailNoBox` | `MCMailSystem` | `LoginOpens` | the login of a user without a mailbox ends the child and then mailclient (`popserver.c` 209) |

`MCMTPBoth.cfg` checks the delivery invariant with messages in both directions, and
passes; so does `MailThree.cfg`.

## 4. What the checks say of the code

Where R does not overlap the holders of `sem3`, MTP is a correct stop-and-wait
transport: although README.md speaks of Go-Back-N with window-based flow control, the
window is one frame (`OneOutstanding`), which is also why two oddities of the receiver
do no harm - the receive window is t, t+1, t+3, t+6, ... instead of consecutive, and
frames outside of it are acknowledged even if they were never stored. With R's semaphore
calls commented out, as they are, messages are lost, duplicated into the wrong place, or
read before they are there. What survives even then are the receiver's frame numbers
(`RecvNumbersInStep`): a race damages counters and slots, not the numbering. The overlaps
that do harm are few and have names: on the sending side an update of `size` under way in
R and in `m_sendto` at once, and R clearing the number that S has tested and is about to
send; on the receiving side overlapping updates of `fetchsize` or `insertsize`, a slot
read before it is filled, a number erased after R has set it anew, and a full buffer that
has room by its counter. In every other execution, with R between any two accesses of
the holders of `sem3`, both buffers are correct; in particular S's `wndsize--` and R's
`wndsize++`, which no lock keeps apart, never meet (`WindowExact`). Set-up is correct for one caller
at a time, with room in the table and nobody killed inside a call, and not otherwise.

The mail system keeps its promise for a mailbox exactly as long as one child at a time
uses it. As soon as a delivery overlaps a reading session - two sound mailclients are
enough - accepted mail is lost, since the mailbox is rewritten from the list read at
PASS even when nothing was deleted.

## 5. Proofs

For all values of the constants that satisfy the modules' assumptions:

| Theorem | Module | Says |
|---|---|---|
| `TypesCorrect`, `CountersCorrect`, `StopAndWait` | `MTPProofs` | `TypeOK`, `CountersMatchSlots`, `OneOutstanding` |
| `UnreadNeverLost` | `MTPProofs` | `UnreadKept` |
| `DeliveryHolds` | `MTPDelivery` | `DeliveryInv`, if no payload is empty |
| `MessagesSafe`, `ErrorsNeverTaken` | `MTPDelivery` | `NoMessageVanishes`, `ErrorBranchesDead`, if no payload is empty |
| `MTPImplementsChannel` | `MTPDelivery` | `ImplementsChannel`, if no payload is empty |
| `SendTypesCorrect` | `MTPSendRaceProofs` | `TypeOK`, in every execution |
| `SizeExact`, `NoneLost`, `OrderKept`, `SendErrorsHarmless`, `WindowExact`, `SendImplementsChannel` | `MTPSendRaceProofs` | `SizeCounts`, `NothingLost`, `StoredInOrder`, `ErrorsHarmless`, `WindowCounts`, `ImplementsChannel`, in every execution in which the two races do not happen |
| `RecvTypesCorrect`, `RecvNumbersInStep` | `MTPRecvRaceProofs` | `TypeOK`, `NumbersInStep`, in every execution |
| `RecvSizesExact`, `RecvInOrder`, `RecvAckedReadable`, `RecvImplementsChannel` | `MTPRecvRaceProofs` | `SizesCount`, `GotWhatWasSent`, `AckedReadable`, `ImplementsChannel`, in every execution in which the five races do not happen |
| `SetupTypesCorrect` | `MTPSetupProofs` | `TypeOK`, whatever is restarted, killed or closed |
| `WakeupsCounted` | `MTPSetupProofs` | `NoStrayWakeup`, without restarts |
| `OneOwner` | `MTPSetupProofs` | `EntryExclusive`, without `m_close`; restarts only between uses |
| `LockNeverLeft` | `MTPSetupProofs` | `LockHeld`, one call at a time, nobody killed, an entry and a descriptor for everyone |
| `DescriptorsOwned` | `MTPSetupProofs` | `OwnDescriptor`, the same, without `m_close` |
| `ResentWhenDue`, `EveryRoundResends`, `ResendStalls`, `ClockSetBack` | `MTPTimer` | in which rounds S resends |
| `MailTypesCorrect` | `MailProofs` | `TypeOK`; who writes to a mailbox has one |
| `SessionsInStep` | `MailProofs` | `ClientInStep` |
| `CleanMailboxesWhole` | `MailProofs` | `SystemInv`, the inductive invariant |
| `SystemImplementsStore` | `MailProofs` | `ImplementsStore` |

The argument. Counters first: each action changes a counter by the number of slots it
takes or frees (`CountInv`), and a slot that R, S or the user finds by a search is what
the search looked for; this needs only cardinality lemmas (`MTPLemmas`). Then delivery:
`NoMessageVanishes` is not inductive, since it does not say which message an arriving
acknowledgement may free. `DeliveryInv` says where each message is. Of a stream with
`acked <= accepted <= framed <= acked + 1` and `framed <= sent`: the send buffer holds
`acked + 1 .. sent`, message n in slot (n-1) mod `Buf`, numbered iff n <= `framed`; the
receive buffer holds the `fetchsize` messages after those delivered; every datagram is
about one of the last `MaxSeq - 2` messages, and an acknowledgement is about a message
the peer has accepted. Two messages that close in the stream have different frame
numbers (`MTPLemmas`), so an arriving frame is the expected one exactly if it is the
next message, and an acknowledgement frees exactly the message it is about. The
refinement maps `taken` to `sent`, `received` to `delivered` and `open` to `isfree`;
each step of MTP is a `Take`, a `Deliver`, a `Shut` or stutters.

Access by access. `MTP` takes a call as one step; the race modules show what that rests
on. R is outside of the lock there, as in the code. In every execution the types hold,
and on the receiving side `NumberInv`: only R writes `togetframe` and only the user
`readframe`, and of the recent messages only the next one has the number of
`togetframe`. The rest fails (the runs and configurations named `race` and `Race` show
it), and it fails through the overlaps that `Races` names and through no other: the
theorems are of the form `Spec /\ []~Races => []P`, about the executions of the code in
which none of them happens. `SendRaceFreeIs` and `RecvRaceFreeIs` prove that these are
the executions of `RaceFree`, which the runs explore. R still runs between any two
accesses of m_sendto, m_recvfrom and S, and every datagram may come at any moment.
`SendInv` says where each message is between any two of them: some a and f are the
messages acknowledged and framed; messages a+1 .. `sent` are in their slots, message n
in slot (n-1) mod `Buf`, and the busy slots are these and the one the user is about to
fill (`Adding`); `size`, `wndsize` and the copies that `x++` works on are right but for
the update under way (`Freeing`, `Opening`, `Closing`); S transmits, and R frees, the
one message that is framed and not acknowledged; every datagram is recent, so an
acknowledgement with the number of a slot is about the message in it.
`RecvInv` does the same for the receive buffer: the slots that are `Stored` hold exactly
the messages acknowledged and not read, each once; the slot the user is reading
(`Holding`) or R is filling (`Filling`) is none of them, and accounts for what the
counters and the busy slots differ by. `size`, `fetchsize` and `insertsize` are then
exact when nobody is at work. `DeliveryInv` of `MTP` says much the same of the moments when nobody is inside.

Set-up. `WakeupsCounted` needs only the balance itself (each caller between its signal
and its answer is counted once, in `sem1`, in init's hands or in `sem2`).
`EntryExclusive` is inductive with the types. For one call at a time the invariant is
`SerialInv`: either nobody is inside and the semaphores and init are at rest, or exactly
one process is, and its place says where init is and who holds `sem3`; entries in use
carry the name of the process that chose them; init has made at most one descriptor per
process that has called, so neither error path of `m_socket`, which would keep `sem3`,
can be taken. `Descriptors` adds which descriptor belongs to whom, and what the answer
under way is about. It says nothing of dead processes, whose entries and descriptors
others may have by then.

Mail. `ImplementsStore` is about the mailboxes in `clean` only, but for them it needs to
know what their users have in common (`MailboxInv`): the file holds whole mails, plus
what its one writer has written so far; its reader's list is the file; an update's file
is empty and its list whole. That a mail is not delivered twice is `Fresh`; that a
client has one child at a time is `OneChild`, without which a client could read and
write one mailbox at once and not be seen to clash. A write of the last piece is then an
`Arrive`, DELE a `Mark`, RSET, PASS and the end of a child a `Unmark`, and the
truncation an `Expunge`: until the kept mails are written, `Box` is what the updater is
going to write, and after it what was delivered since - which stays in the file if there
is nothing to write, and is overwritten if there is. `KeptIn` says what deletion by number keeps; it rests on the existence
of an increasing enumeration of a finite set of numbers, proved from the
well-foundedness of the naturals.

Model-checked only: the liveness properties (liveness under fairness, and ENABLED, are
outside of what the proof system handles), namely `EventuallyDelivered`, `Reclaimed`,
`CallReturns`, `CleansUp`, `QuitAnswered` and `ChildEnds`. Every invariant and every
refinement that a passing run checks is also a theorem. No result about what a
recursive definition computes for every input is claimed; the models use none.

## 6. Not modelled

* **Starvation in R's `fd_set`.** `readfds` is in `MTP`, but how often `select` times
  out depends on the rates of datagrams and rounds; `MTP` has no clock, and the liveness
  run assumes it.
* **Entries that change owner with their buffers.** `m_close` frees an entry whose
  receive slots `m_socket` does not clear. `MTPSetup` keeps one bit of the buffers and
  `MTP` one owner per entry; their product is beyond TLC.
* **Restart with data in flight**: peers' frame numbers after a restart of initmsocket
  need the same product.
* **Mailboxes of more than 50 mails** and mails of more than 4500 bytes, which
  popserver.c does not check; contents of texts, so a mail with a line "." in its body,
  address parsing, passwords. In particular texts have no "-ERR" in them: mailclient
  stops receiving a long mail at one (`mailclient.c` 330, 418), takes the rest of the text
  for the answer to its next command, and is one answer behind its child from then on.
* Builds with optimisation and processors that reorder stores (the race modules assume
  neither).
* The demo programs' file and prompt handling, menus, message formatting, performance.
