----------------------------- MODULE POP3Server -----------------------------
(***************************************************************************)
(* One child of popserver.c per connection.  PASS reads the mailbox into a *)
(* list; DELE marks entries of the list; the mailbox is written back from  *)
(* the list when the child ends - after QUIT, and after a lost connection. *)
(* No command asks whether the client has logged in.                       *)
(*                                                                         *)
(* A mailbox is read in one piece; it is written back by fopen(.., "w"),   *)
(* which truncates it, and by the write() of fclose(): two steps.  STAT,   *)
(* LIST and RETR read the child's own list and are no steps here.          *)
(***************************************************************************)
EXTENDS MailFiles

CONSTANTS Stranger   \* names clients give that are not in user.txt

ASSUME StrangerAssumption == User \cap Stranger = {}

VARIABLES pop,      \* what the child of a client's connection does
          name,     \* username, as the last USER command gave it
          owner,    \* whose mailbox the list was read from (NoName: mailbox is NULL)
          list,     \* mailbox[0 .. numMails - 1]
          marked    \* the numbers of the mails marked for deletion

popvars == <<pop, name, owner, list, marked>>

\* "killed": the child was killed after it had truncated the mailbox.
POPStates == {"none", "ready", "update", "killed"}

POPTypeOK ==
    /\ pop \in [Client -> POPStates]
    /\ name \in [Client -> User \cup Stranger \cup {NoName}]
    /\ owner \in [Client -> User \cup {NoName}]
    /\ list \in [Client -> Seq(Seq(Piece))]
    /\ marked \in [Client -> SUBSET (Nat \ {0})]

POPInit ==
    /\ pop = [c \in Client |-> "none"]
    /\ name = [c \in Client |-> NoName]
    /\ owner = [c \in Client |-> NoName]
    /\ list = [c \in Client |-> <<>>]
    /\ marked = [c \in Client |-> {}]

POPGoto(c, where) == pop' = [pop EXCEPT ![c] = where]

\* The child's memory, gone with the child.
Forget(c) ==
    /\ name' = [name EXCEPT ![c] = NoName]
    /\ owner' = [owner EXCEPT ![c] = NoName]
    /\ list' = [list EXCEPT ![c] = <<>>]
    /\ marked' = [marked EXCEPT ![c] = {}]

\* The child ends and leaves the mailbox as it is.
POPEnd(c) == POPGoto(c, "none") /\ Forget(c)

POPAccept(c) ==
    /\ pop[c] \in {"none", "killed"}
    /\ POPGoto(c, "ready")
    /\ Forget(c)
    /\ UNCHANGED files

\* The name is taken over before user.txt is searched for it, at any time.
USER(c, u) ==
    /\ pop[c] = "ready"
    /\ name' = [name EXCEPT ![c] = u]
    /\ UNCHANGED <<pop, owner, list, marked, files>>

\* The right password: init() reads the mails that are complete.  Without a mailbox
\* the child ends, although it has answered +OK.
PASS(c) ==
    /\ pop[c] = "ready"
    /\ name[c] \in User
    /\ IF name[c] \in made
       THEN /\ owner' = [owner EXCEPT ![c] = name[c]]
            /\ list' = [list EXCEPT ![c] = file[name[c]].mails]
            /\ marked' = [marked EXCEPT ![c] = {}]
            /\ UNCHANGED <<pop, name>>
       ELSE POPEnd(c)
    /\ UNCHANGED files

DELE(c, n) ==
    /\ pop[c] = "ready"
    /\ n \in DOMAIN list[c]
    /\ marked' = [marked EXCEPT ![c] = @ \cup {n}]
    /\ UNCHANGED <<pop, name, owner, list, files>>

RSET(c) ==
    /\ pop[c] = "ready"
    /\ owner[c] # NoName
    /\ marked' = [marked EXCEPT ![c] = {}]
    /\ UNCHANGED <<pop, name, owner, list, files>>

\* RSET and LIST use the array before PASS has allocated it: the child crashes.
NullMailbox(c) ==
    /\ pop[c] = "ready"
    /\ owner[c] = NoName
    /\ POPEnd(c)
    /\ UNCHANGED files

\* mailboxupdate(), first half: the mailbox of the user named last is truncated,
\* or made.  Without a directory for it the child ends.
Truncate(c) ==
    /\ pop[c] = "ready"
    /\ IF name[c] \in Home
       THEN /\ POPGoto(c, "update")
            /\ file' = [file EXCEPT ![name[c]] = EmptyFile]
            /\ made' = made \cup {name[c]}
            /\ UNCHANGED <<name, owner, list, marked>>
       ELSE POPEnd(c) /\ UNCHANGED <<file, made>>
    /\ UNCHANGED delivered

\* Mutant of Rewrite: marked mails are written back as well.
RewriteAll(c) ==
    /\ pop[c] = "update"
    /\ \E f \in Overlaid(list[c], file[name[c]]) :
          file' = [file EXCEPT ![name[c]] = f]
    /\ POPEnd(c)
    /\ UNCHANGED <<made, delivered>>

\* mailboxupdate(), second half: the mails that are not marked are written.
Rewrite(c) ==
    /\ pop[c] = "update"
    /\ \E f \in Overlaid(Kept(list[c], marked[c]), file[name[c]]) :
          file' = [file EXCEPT ![name[c]] = f]
    /\ POPEnd(c)
    /\ UNCHANGED <<made, delivered>>

\* Mutant of QUIT: nothing is done when nothing is marked.
QUITOnlyMarked(c) == marked[c] # {} /\ Truncate(c)

\* Mutant of POPLost: the end of the connection is not noticed.
POPLostIgnored(c) == Truncate(c) /\ FALSE

\* QUIT, a lost connection, and - since main() tests n, which nothing ever
\* sets - possibly an unknown command, all end the child with mailboxupdate().
QUIT(c) == Truncate(c)
POPLost(c) == Truncate(c)
Unknown(c) == Truncate(c)

\* The client goes while it is sent a mail (RETR): SIGPIPE ends the child.
BrokenPipe(c) ==
    /\ pop[c] = "ready"
    /\ DOMAIN list[c] \ marked[c] # {}
    /\ POPEnd(c)
    /\ UNCHANGED files

\* The child is killed after truncating the mailbox.
POPKilled(c) ==
    /\ pop[c] = "update"
    /\ POPGoto(c, "killed")
    /\ UNCHANGED <<name, owner, list, marked, files>>
=============================================================================
