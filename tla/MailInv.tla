------------------------------- MODULE MailInv ------------------------------
(***************************************************************************)
(* The inductive invariant behind the promise of the mail system: where    *)
(* the children of a client are, and what a mailbox, its readers and its   *)
(* writers have in common as long as it is clean.                          *)
(***************************************************************************)
EXTENDS MailSystem

SMTPRuns(c) == smtp[c] \notin {"none", "killed"}
POPRuns(c) == pop[c] \notin {"none", "killed"}

\* A client has one child at a time, of the server its menu has chosen.
OneChild ==
    \A c \in Client :
        /\ ~ (SMTPRuns(c) /\ POPRuns(c))
        /\ cpc[c] = "menu" => ~ SMTPRuns(c) /\ ~ POPRuns(c)
        /\ cpc[c] = "send" => ~ POPRuns(c)
        /\ cpc[c] \in {"user", "pass", "stat", "list", "read", "bye"} => ~ SMTPRuns(c)

\* After PASS the child's name and list are those of the mailbox just read.
LoggedIn ==
    \A c \in Client : cpc[c] = "stat" /\ pop[c] = "ready" =>
        owner[c] \in User /\ name[c] = owner[c] /\ marked[c] = {}

\* Who writes to a mailbox has one.
Addressed ==
    \A c \in Client :
        /\ smtp[c] \in {"data", "quit"} => rcpt[c] \in User
        /\ smtp[c] \in {"body"} \cup Writing => rcpt[c] \in Home
        /\ pop[c] = "update" => name[c] \in Home

\* The mail a child is about to write was not delivered before.
Fresh ==
    \A u \in User : \A m \in delivered[u] :
        /\ m.no <= mailno[m.from]
        /\ smtp[m.from] \in {"helo", "mail", "rcpt", "data", "body"} \cup Writing =>
              m.no < mailno[m.from]

IsWhole(text) == text = Whole(text[1].mail)
AllWhole(l) == \A i \in DOMAIN l : IsWhole(l[i])

\* The children in the middle of a mail to u, and what they have written of it.
Writers(u) == { c \in Client : smtp[c] \in {"time", "text"} /\ rcpt[c] = u }

Written(c) ==
    LET head == [mail |-> MailOf(c), part |-> "head"]
        time == [mail |-> MailOf(c), part |-> "time"]
    IN  IF smtp[c] = "time" THEN <<head>> ELSE <<head, time>>

\* Nobody clashes on u's mailbox; it holds whole mails, and the pieces its writer
\* has written; its reader's list is the mailbox, and its updater's was.
MailboxInv(u) ==
    /\ ~ Clash(u)
    /\ AllWhole(file[u].mails)
    /\ Writers(u) = {} => file[u].tail = <<>>
    /\ \A c \in Writers(u) : file[u].tail = Written(c)
    /\ \A c \in Readers(u) : list[c] = file[u].mails
    /\ \A c \in Updaters(u) : file[u] = EmptyFile /\ AllWhole(list[c])

\* The invariant.
SystemInv ==
    /\ OneChild /\ LoggedIn /\ Addressed /\ Fresh
    /\ \A u \in User : clean[u] => MailboxInv(u)
-----------------------------------------------------------------------------
(* A step of the system is one of a child, or of a client alone. *)

SMTPStep(c) ==
    \/ SMTPAccept(c) \/ HELO(c) \/ DATA(c) \/ Body(c) \/ Write(c)
    \/ SMTPQuit(c) \/ SMTPLost(c) \/ SMTPKilled(c)
    \/ \E u \in Names : MAIL(c, u) \/ RCPT(c, u)

POPStep(c) ==
    \/ POPAccept(c) \/ PASS(c) \/ RSET(c) \/ NullMailbox(c) \/ BrokenPipe(c)
    \/ Truncate(c) \/ Rewrite(c) \/ POPKilled(c)
    \/ \E u \in Names : USER(c, u)
    \/ \E n \in DOMAIN list[c] : DELE(c, n)
=============================================================================
