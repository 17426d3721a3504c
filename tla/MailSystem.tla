----------------------------- MODULE MailSystem -----------------------------
(***************************************************************************)
(* The mail system: clients, and the children of both servers, on the same *)
(* mailboxes.  A client is a process of mailclient.c, which goes through   *)
(* its menu, or a raw one, which sends commands in any order.  A client    *)
(* has one connection at a time and may be killed at any moment.           *)
(***************************************************************************)
EXTENDS SMTPServer, POP3Server

CONSTANTS Raw,       \* the clients that are not mailclient processes
          Rounds,    \* bound: connections a client makes
          Mortal,    \* the clients that may be killed
          MayKill    \* the servers whose children may be killed while they write

ASSUME SystemAssumption ==
    /\ Raw \subseteq Client
    /\ Rounds \in [Client -> Nat]
    /\ Mortal \subseteq Client
    /\ MayKill \subseteq {"smtp", "pop3"}

VARIABLES cpc,           \* where in its menu a client is
          mail_count, mail_number,   \* its locals, while mails are shown
          visits,        \* connections made
          clean          \* history: mailboxes that were never shared or broken off

clientvars == <<cpc, mail_count, mail_number, visits>>
vars == <<files, smtpvars, popvars, clientvars, clean>>

\* "exited": main() has ended.
ClientStates == {"menu", "user", "pass", "stat", "list", "read", "bye", "send", "raw",
                 "exited", "dead"}

TypeOK ==
    /\ file \in [User -> File]
    /\ made \in SUBSET Home
    /\ delivered \in [User -> SUBSET Mail]
    /\ SMTPTypeOK /\ POPTypeOK
    /\ cpc \in [Client -> ClientStates]
    /\ mail_count \in [Client -> Nat]
    /\ mail_number \in [Client -> Nat]
    /\ visits \in [Client -> Nat]
    /\ clean \in [User -> BOOLEAN]

Init ==
    /\ FilesInit /\ SMTPInit /\ POPInit
    /\ cpc = [c \in Client |-> IF c \in Raw THEN "raw" ELSE "menu"]
    /\ mail_count = [c \in Client |-> 0]
    /\ mail_number = [c \in Client |-> 0]
    /\ visits = [c \in Client |-> 0]
    /\ clean = [u \in User |-> TRUE]

AtC(c, where) == cpc[c] = where
Goto(c, where) == cpc' = [cpc EXCEPT ![c] = where]
Same == UNCHANGED <<mail_count, mail_number, visits>>

Names == User \cup Stranger
-----------------------------------------------------------------------------
(* mailclient: Manage Mail *)

Connect(c) ==
    /\ visits[c] < Rounds[c]
    /\ visits' = [visits EXCEPT ![c] = @ + 1]
    /\ UNCHANGED <<mail_count, mail_number>>

ChooseManage(c) ==
    /\ AtC(c, "menu")
    /\ Connect(c)
    /\ POPAccept(c)
    /\ Goto(c, "user")
    /\ UNCHANGED smtpvars

\* The user names himself until the name is accepted.
GiveName(c) ==
    /\ AtC(c, "user")
    /\ \E u \in Names :
        /\ USER(c, u)
        /\ Goto(c, IF u \in User THEN "pass" ELSE "user")
    /\ Same /\ UNCHANGED smtpvars

\* The right password, after any number of wrong ones.
GivePassword(c) ==
    /\ AtC(c, "pass")
    /\ PASS(c)
    /\ Goto(c, "stat")
    /\ Same /\ UNCHANGED smtpvars

\* Mutant of Stat: the count is that of a mailbox without deletions plus one.
StatPlus(c) ==
    /\ AtC(c, "stat")
    /\ Goto(c, IF pop[c] # "ready" THEN "exited"
               ELSE IF DOMAIN list[c] \ marked[c] = {} THEN "bye" ELSE "list")
    /\ mail_count' = [mail_count EXCEPT ![c] = Len(list[c]) + 1]
    /\ UNCHANGED <<mail_number, visits, smtpvars, popvars, files>>

\* STAT counts the mails that are not marked.  Without an answer main() ends.
Stat(c) ==
    LET count == Cardinality(DOMAIN list[c] \ marked[c]) IN
    /\ AtC(c, "stat")
    /\ Goto(c, IF pop[c] # "ready" THEN "exited"
               ELSE IF count = 0 THEN "bye" ELSE "list")
    /\ mail_count' = [mail_count EXCEPT ![c] = count]
    /\ UNCHANGED <<mail_number, visits, smtpvars, popvars, files>>

\* RETR of a number up to mail_count.  A marked mail is answered with -ERR, and the
\* list is shown again.  (Texts have no "-ERR" in them: see the README.)
Retr(c) ==
    /\ AtC(c, "list")
    /\ \E n \in 1..mail_count[c] :
        /\ n \notin marked[c]
        /\ mail_number' = [mail_number EXCEPT ![c] = n]
    /\ Goto(c, "read")
    /\ UNCHANGED <<mail_count, visits, smtpvars, popvars, files>>

\* d, or any other key.
Dele(c) ==
    /\ AtC(c, "read")
    /\ DELE(c, mail_number[c])
    /\ Goto(c, "list")
    /\ mail_number' = [mail_number EXCEPT ![c] = 0]
    /\ UNCHANGED <<mail_count, visits, smtpvars>>

Keep(c) ==
    /\ AtC(c, "read")
    /\ Goto(c, "list")
    /\ mail_number' = [mail_number EXCEPT ![c] = 0]
    /\ UNCHANGED <<mail_count, visits, smtpvars, popvars, files>>

\* -1, or nothing to show: QUIT, whose answer comes when the child has ended.
Leave(c) ==
    /\ AtC(c, "list")
    /\ Goto(c, "bye")
    /\ Same /\ UNCHANGED <<smtpvars, popvars, files>>

SayQuit(c) ==
    /\ AtC(c, "bye")
    /\ QUIT(c)
    /\ Same /\ UNCHANGED <<cpc, smtpvars>>

Bye(c) ==
    /\ AtC(c, "bye")
    /\ pop[c] \in {"none", "killed"}
    /\ Goto(c, "menu")
    /\ mail_count' = [mail_count EXCEPT ![c] = 0]
    /\ mail_number' = [mail_number EXCEPT ![c] = 0]
    /\ UNCHANGED <<visits, smtpvars, popvars, files>>
-----------------------------------------------------------------------------
(* mailclient: Send Mail *)

ChooseSend(c) ==
    /\ AtC(c, "menu")
    /\ Connect(c)
    /\ SMTPAccept(c)
    /\ Goto(c, "send")
    /\ UNCHANGED popvars

\* A command has its answer; after 550, a failure and 221 the menu comes back.
Answered(c) ==
    /\ Goto(c, IF smtp'[c] = "none" THEN "menu" ELSE "send")
    /\ Same /\ UNCHANGED popvars

SendHELO(c) == AtC(c, "send") /\ HELO(c) /\ Answered(c)
SendMAIL(c) == AtC(c, "send") /\ (\E u \in Names : MAIL(c, u)) /\ Answered(c)
SendRCPT(c) == AtC(c, "send") /\ (\E u \in Names : RCPT(c, u)) /\ Answered(c)

\* The mail goes out line by line: when the child has ended instead of reading it,
\* SIGPIPE may kill the client.
SendDATA(c) ==
    /\ AtC(c, "send")
    /\ DATA(c)
    /\ \/ Answered(c)
       \/ smtp'[c] = "none" /\ Goto(c, "dead") /\ Same /\ UNCHANGED popvars

SendBody(c) == AtC(c, "send") /\ Body(c) /\ Answered(c)
SendQUIT(c) == AtC(c, "send") /\ At(c, "quit") /\ SMTPQuit(c) /\ Answered(c)

\* The child was killed: an error, and the menu.
SendFails(c) ==
    /\ AtC(c, "send")
    /\ At(c, "killed")
    /\ Goto(c, "menu")
    /\ Same /\ UNCHANGED <<smtpvars, popvars, files>>
-----------------------------------------------------------------------------
(* Other clients *)

RawConnect(c) ==
    /\ AtC(c, "raw")
    /\ smtp[c] \in {"none", "killed"} /\ pop[c] \in {"none", "killed"}
    /\ Connect(c)
    /\ \/ POPAccept(c) /\ UNCHANGED smtpvars
       \/ SMTPAccept(c) /\ UNCHANGED popvars
    /\ UNCHANGED cpc

RawPOP(c) ==
    /\ AtC(c, "raw")
    /\ \/ \E u \in Names : USER(c, u)
       \/ PASS(c)
       \/ \E n \in DOMAIN list[c] : DELE(c, n)
       \/ RSET(c)
       \/ NullMailbox(c)
       \/ QUIT(c)
       \/ Unknown(c)
    /\ Same /\ UNCHANGED <<cpc, smtpvars>>

RawSMTP(c) ==
    /\ AtC(c, "raw")
    /\ \/ HELO(c)
       \/ \E u \in Names : MAIL(c, u) \/ RCPT(c, u)
       \/ DATA(c)
       \/ Body(c)
       \/ SMTPQuit(c)
    /\ Same /\ UNCHANGED <<cpc, popvars>>
-----------------------------------------------------------------------------
(* Ends of processes, and what the children do by themselves *)

Die(c) ==
    /\ c \in Mortal
    /\ cpc[c] \notin {"exited", "dead"}
    /\ Goto(c, "dead")
    /\ Same /\ UNCHANGED <<smtpvars, popvars, files>>

\* The child notices that its client is gone.
Gone(c) == cpc[c] \in {"exited", "dead"}

Notice(c) ==
    /\ Gone(c)
    /\ \/ (POPLost(c) \/ BrokenPipe(c)) /\ UNCHANGED smtpvars
       \/ SMTPLost(c) /\ UNCHANGED popvars
    /\ UNCHANGED clientvars

ChildWrites(c) ==
    /\ \/ Write(c) /\ UNCHANGED popvars
       \/ Rewrite(c) /\ UNCHANGED smtpvars
    /\ UNCHANGED clientvars

Killed(c) ==
    /\ \/ "smtp" \in MayKill /\ SMTPKilled(c) /\ UNCHANGED popvars
       \/ "pop3" \in MayKill /\ POPKilled(c) /\ UNCHANGED smtpvars
    /\ UNCHANGED clientvars

Step(c) ==
    \/ ChooseManage(c) \/ GiveName(c) \/ GivePassword(c) \/ Stat(c) \/ Retr(c)
    \/ Dele(c) \/ Keep(c) \/ Leave(c) \/ SayQuit(c) \/ Bye(c)
    \/ ChooseSend(c) \/ SendHELO(c) \/ SendMAIL(c) \/ SendRCPT(c) \/ SendDATA(c)
    \/ SendBody(c) \/ SendQUIT(c) \/ SendFails(c)
    \/ RawConnect(c) \/ RawPOP(c) \/ RawSMTP(c)
    \/ Die(c) \/ Notice(c) \/ ChildWrites(c) \/ Killed(c)
-----------------------------------------------------------------------------
(* Which mailboxes are clean *)

\* The children that write to u's mailbox, or hold a list that was read from it.
Uses(c, u) ==
    \/ smtp[c] \in {"head", "time", "text", "killed"} /\ rcpt[c] = u
    \/ pop[c] = "ready" /\ owner[c] = u
    \/ pop[c] \in {"update", "killed"} /\ name[c] = u

\* Two children use it, one rewrites it from no list or another user's, or one was
\* killed on the way.
Clash(u) ==
    \/ \E c, d \in Client : c # d /\ Uses(c, u) /\ Uses(d, u)
    \/ \E c \in Client :
        \/ pop[c] = "update" /\ name[c] = u /\ owner[c] # u
        \/ smtp[c] = "killed" /\ rcpt[c] = u
        \/ pop[c] = "killed" /\ name[c] = u

\* A step, and the mailboxes that stay clean in it.
Tracked(A) == A /\ clean' = [u \in User |-> clean[u] /\ ~ Clash(u)']

Next == \E c \in Client : Tracked(Step(c))

Spec == Init /\ [][Next]_vars
-----------------------------------------------------------------------------
(* Safety *)

\* The mail a stored text is; a torn one is no mail.
MailIn(text) == IF text = Whole(text[1].mail) THEN text[1].mail ELSE text
MailsIn(l) == [i \in DOMAIN l |-> MailIn(l[i])]

Updaters(u) == { c \in Client : pop[c] = "update" /\ name[c] = u }
Readers(u) == { c \in Client : pop[c] = "ready" /\ owner[c] = u }

\* What a mailbox holds; while it is truncated, what will be written to it and what
\* was delivered to it since.
Box(u) ==
    IF Updaters(u) = {} THEN MailsIn(file[u].mails)
    ELSE LET c == CHOOSE c \in Updaters(u) : TRUE
         IN  MailsIn(Kept(list[c], marked[c]) \o file[u].mails)

Marks(u) == UNION { marked[c] : c \in Readers(u) }

Store == INSTANCE MailStore
    WITH box <- [u \in User |-> Box(u)], marks <- [u \in User |-> Marks(u)],
         past <- delivered, clean <- clean

\* A mailbox that one child at a time has used, and that nobody broke off, holds
\* every accepted mail once, in order, but those a reader had marked (smtpmail.c
\* 515-520, popserver.c 407-434).
ImplementsStore == Store!StoreSpec

\* What mailclient takes for granted between STAT and QUIT: its count is the length
\* of the child's list, the number it deletes is of a mail that is not deleted
\* yet, and the child still goes by the name it has logged in with.
ClientInStep ==
    \A c \in Client : cpc[c] \in {"list", "read"} =>
        /\ pop[c] = "ready" /\ name[c] = owner[c] /\ owner[c] \in User
        /\ mail_count[c] = Len(list[c])
        /\ cpc[c] = "read" => mail_number[c] \in DOMAIN list[c] \ marked[c]

-----------------------------------------------------------------------------
(* Liveness *)

\* Running children go on; a client that waits for an answer takes it.
Fairness ==
    \A c \in Client :
        /\ WF_vars(Tracked(ChildWrites(c) \/ Notice(c)))
        /\ WF_vars(Tracked(SayQuit(c) \/ Bye(c)))

FairSpec == Spec /\ Fairness

\* After -1, mailclient gets back to its menu whatever the others do.
QuitAnswered ==
    \A c \in Client : cpc[c] = "bye" ~> cpc[c] \in {"menu", "dead"}

\* The POP3 child of a client that is gone ends, and with it the update.
ChildEnds ==
    \A c \in Client : cpc[c] = "dead" ~> pop[c] \in {"none", "killed"}
-----------------------------------------------------------------------------
(* What the repository says of the program and the code does not do *)

\* "concurrent Mail Server [...] as per RFC 5321 and RFC 1939" (README.md 9-10):
\* the promise, without an exception.
Promise == INSTANCE MailStore
    WITH box <- [u \in User |-> Box(u)], marks <- [u \in User |-> Marks(u)],
         past <- delivered, clean <- [u \in User |-> TRUE]

KeepsPromise == Promise!StoreSpec

\* The same line, for a connection that ends without QUIT: nothing is removed.
OnlyQuitRemoves ==
    [][\A c \in Client : Gone(c) /\ pop[c] = "ready" /\ pop'[c] = "update" =>
          marked[c] = {}]_vars

\* "Initialize the mailbox after successful login" (popserver.c 209): whoever has
\* logged in gets a session.
LoginOpens == \A c \in Client : cpc[c] # "exited"

\* "Error in receiving HELO" (smtpmail.c 105): a child whose client is gone ends.
SMTPChildEnds == \A c \in Client : cpc[c] = "dead" ~> smtp[c] \in {"none", "killed"}
=============================================================================
