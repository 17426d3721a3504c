----------------------------- MODULE SMTPServer -----------------------------
(***************************************************************************)
(* One child of smtpmail.c per connection: a straight line from HELO to    *)
(* QUIT, one mail per connection.  A client sends a command and waits for  *)
(* the answer, so a command, its handling and its answer are one step; the *)
(* three write() calls are a step each.                                    *)
(***************************************************************************)
EXTENDS MailFiles

VARIABLES smtp,     \* what the child of a client's connection does next
          rcpt,     \* receiver_username
          mailno    \* the connection's number: names its mail

smtpvars == <<smtp, rcpt, mailno>>

Writing == {"head", "time", "text"}

\* "none": no child; "spin": its loop on recv() does not end; "killed": it was
\* killed between two writes.
SMTPStates == {"none", "helo", "mail", "rcpt", "data", "body", "quit", "spin", "killed"}
              \cup Writing

SMTPTypeOK ==
    /\ smtp \in [Client -> SMTPStates]
    /\ rcpt \in [Client -> User \cup {NoName}]
    /\ mailno \in [Client -> Nat]

SMTPInit ==
    /\ smtp = [c \in Client |-> "none"]
    /\ rcpt = [c \in Client |-> NoName]
    /\ mailno = [c \in Client |-> 0]

At(c, where) == smtp[c] = where
SMTPGoto(c, where) == smtp' = [smtp EXCEPT ![c] = where]

\* The child ends, and its memory with it.
SMTPEnd(c) ==
    /\ SMTPGoto(c, "none")
    /\ rcpt' = [rcpt EXCEPT ![c] = NoName]

\* The mail of c's connection.
MailOf(c) == [from |-> c, no |-> mailno[c]]

\* accept(), fork(), 220.
SMTPAccept(c) ==
    /\ smtp[c] \in {"none", "killed"}
    /\ SMTPGoto(c, "helo")
    /\ rcpt' = [rcpt EXCEPT ![c] = NoName]
    /\ mailno' = [mailno EXCEPT ![c] = @ + 1]
    /\ UNCHANGED files

HELO(c) ==
    /\ At(c, "helo")
    /\ SMTPGoto(c, "mail")
    /\ UNCHANGED <<rcpt, mailno, files>>

\* An address without an @, or whose user is not in user.txt, is answered with 550
\* and ends the child.
MAIL(c, from) ==
    /\ At(c, "mail")
    /\ IF from \in User THEN SMTPGoto(c, "rcpt") /\ UNCHANGED rcpt ELSE SMTPEnd(c)
    /\ UNCHANGED <<mailno, files>>

\* Mutant of RCPT: the receiver is not looked up in user.txt.
RCPTUnchecked(c, to) ==
    /\ At(c, "rcpt")
    /\ SMTPGoto(c, "data")
    /\ rcpt' = [rcpt EXCEPT ![c] = to]
    /\ UNCHANGED <<mailno, files>>

RCPT(c, to) ==
    /\ At(c, "rcpt")
    /\ IF to \in User
       THEN SMTPGoto(c, "data") /\ rcpt' = [rcpt EXCEPT ![c] = to]
       ELSE SMTPEnd(c)
    /\ UNCHANGED <<mailno, files>>

\* 354 is sent, then the mailbox is opened (and made); without the user's directory
\* that fails and the child ends.
DATA(c) ==
    /\ At(c, "data")
    /\ IF rcpt[c] \in Home
       THEN SMTPGoto(c, "body") /\ made' = made \cup {rcpt[c]} /\ UNCHANGED rcpt
       ELSE SMTPEnd(c) /\ UNCHANGED made
    /\ UNCHANGED <<mailno, file, delivered>>

\* Mutant of Body: the header lines are not written.
BodyNoHeader(c) ==
    /\ At(c, "body")
    /\ SMTPGoto(c, "time")
    /\ UNCHANGED <<rcpt, mailno, files>>

\* The line "." has come: the child has the whole mail.
Body(c) ==
    /\ At(c, "body")
    /\ SMTPGoto(c, "head")
    /\ UNCHANGED <<rcpt, mailno, files>>

\* One of the three writes; 250 follows the last.
Write(c) ==
    /\ smtp[c] \in Writing
    /\ file' = [file EXCEPT ![rcpt[c]] =
                   Appended(@, [mail |-> MailOf(c), part |-> smtp[c]])]
    /\ CASE smtp[c] = "head" -> SMTPGoto(c, "time") /\ UNCHANGED delivered
         [] smtp[c] = "time" -> SMTPGoto(c, "text") /\ UNCHANGED delivered
         [] smtp[c] = "text" ->
              /\ SMTPGoto(c, "quit")
              /\ delivered' = [delivered EXCEPT ![rcpt[c]] = @ \cup {MailOf(c)}]
    /\ UNCHANGED <<rcpt, mailno, made>>

\* QUIT after the mail; anywhere else an unexpected command ends the child as well.
SMTPQuit(c) ==
    /\ smtp[c] \in {"helo", "mail", "rcpt", "data", "quit"}
    /\ SMTPEnd(c)
    /\ UNCHANGED <<mailno, files>>

\* The client is gone.  Where HELO and the mail are received only recv() < 0 ends
\* the loop: an orderly end of the connection (0) leaves the child in it for ever.
SMTPLost(c) ==
    /\ \/ smtp[c] \in {"helo", "mail", "rcpt", "data", "body", "quit"} /\ SMTPEnd(c)
       \/ smtp[c] \in {"helo", "body"} /\ SMTPGoto(c, "spin") /\ UNCHANGED rcpt
    /\ UNCHANGED <<mailno, files>>

\* The child is killed between two writes.
SMTPKilled(c) ==
    /\ smtp[c] \in {"time", "text"}
    /\ SMTPGoto(c, "killed")
    /\ UNCHANGED <<rcpt, mailno, files>>
=============================================================================
