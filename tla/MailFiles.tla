----------------------------- MODULE MailFiles ------------------------------
(***************************************************************************)
(* The mailbox files <user>/mymailbox that the children of smtpmail.c and  *)
(* popserver.c share without any lock.  The text of a mail is three        *)
(* pieces, as the SMTP server writes them: the header lines, the           *)
(* "Received:" line, and the body with its last line ".".                  *)
(*                                                                         *)
(* Only a line "." ends a mail, so a file is the mails that such lines     *)
(* end, and what follows the last of them.  That is how popserver.c reads  *)
(* it, and a mail it writes back has the text it was read with.            *)
(***************************************************************************)
EXTENDS MailLists

CONSTANTS User,     \* names listed in user.txt
          Home,     \* users for whom there is a directory
          Client,   \* client processes
          NoName    \* the empty name

ASSUME HomeAssumption == Home \subseteq User /\ NoName \notin User

VARIABLES file,        \* the text of every user's mailbox
          made,        \* the users whose mailbox file exists
          delivered    \* history: the mails written to a mailbox and accepted

files == <<file, made, delivered>>

\* The n-th connection of a client carries at most one mail.
Mail == [from : Client, no : Nat]
Parts == {"head", "time", "text"}
Piece == [mail : Mail, part : Parts]
File == [mails : Seq(Seq(Piece)), tail : Seq(Piece)]

EmptyFile == [mails |-> <<>>, tail |-> <<>>]

\* A mail in one piece, and the mail a stored text is about.
Whole(m) == << [mail |-> m, part |-> "head"], [mail |-> m, part |-> "time"],
               [mail |-> m, part |-> "text"] >>

FilesInit ==
    /\ file = [u \in User |-> EmptyFile]
    /\ made = {}
    /\ delivered = [u \in User |-> {}]

\* One write() to a descriptor opened with O_APPEND.
Appended(f, p) ==
    IF p.part = "text"
    THEN [mails |-> Append(f.mails, Append(f.tail, p)), tail |-> <<>>]
    ELSE [f EXCEPT !.tail = Append(@, p)]

\* A list from its k-th element on.
From(l, k) == SubSeq(l, k, Len(l))

\* What may remain of a text whose first bytes are overwritten: a text cut inside
\* of a piece keeps nothing of that piece, except that the body of a mail still
\* ends with its last line.
Remains(f) ==
    { [f EXCEPT !.mails = From(@, k)] : k \in 1..(Len(f.mails) + 1) }
    \cup (UNION { { [f EXCEPT !.mails = << From(@[k], j) >> \o From(@, k + 1)] : j \in 2..3 } :
                    k \in DOMAIN f.mails })
    \cup { [mails |-> <<>>, tail |-> From(f.tail, j)] : j \in 1..(Len(f.tail) + 1) }

\* The mails ms written at the beginning of a file that was truncated before, and
\* to which others may have written since.
Overlaid(ms, f) ==
    IF ms = <<>> THEN {f}
    ELSE { [mails |-> IF r.mails = <<>> THEN ms ELSE ms \o r.mails, tail |-> r.tail] :
             r \in Remains(f) }
=============================================================================
