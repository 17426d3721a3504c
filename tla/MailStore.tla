------------------------------ MODULE MailStore -----------------------------
(***************************************************************************)
(* What SMTP and POP3 promise about a mailbox: an accepted mail is in it   *)
(* once, in order of arrival, and leaves it only if a reader has marked it *)
(* for deletion.  The promise about a mailbox ends when clean becomes      *)
(* FALSE; it never begins again.                                           *)
(***************************************************************************)
EXTENDS MailLists

CONSTANTS User, Mail

VARIABLES box,      \* the mails in every user's mailbox
          marks,    \* the positions marked for deletion
          past,     \* the mails that were ever in the mailbox
          clean     \* is the promise still in force?

storevars == <<box, marks, past, clean>>

StoreInit ==
    /\ box = [u \in User |-> <<>>]
    /\ marks = [u \in User |-> {}]
    /\ past = [u \in User |-> {}]
    /\ clean = [u \in User |-> TRUE]

\* A mail that was never there before arrives, while nobody reads.
Arrive(u) ==
    \E m \in past'[u] \ past[u] :
        /\ m \in Mail
        /\ box'[u] = Append(box[u], m)
        /\ past'[u] = past[u] \cup {m}
        /\ marks[u] = {} /\ marks'[u] = {}

Mark(u) ==
    \E n \in DOMAIN box[u] :
        /\ marks'[u] = marks[u] \cup {n}
        /\ UNCHANGED <<box[u], past[u]>>

Unmark(u) ==
    /\ marks'[u] = {}
    /\ UNCHANGED <<box[u], past[u]>>

\* What is marked goes, and nothing else.
Expunge(u) ==
    /\ box'[u] = Kept(box[u], marks[u])
    /\ marks'[u] = {}
    /\ UNCHANGED past[u]

StoreStep(u) ==
    \/ ~ clean'[u]
    \/ /\ clean[u]
       /\ \/ Arrive(u) \/ Mark(u) \/ Unmark(u) \/ Expunge(u)
          \/ UNCHANGED <<box[u], marks[u], past[u]>>

StoreNext == \A u \in User : StoreStep(u) /\ (clean'[u] => clean[u])

StoreSpec == StoreInit /\ [][StoreNext]_storevars
=============================================================================
