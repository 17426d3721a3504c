----------------------------- MODULE MailLists ------------------------------
(***************************************************************************)
(* Deletion from a list by number, as mailboxupdate() in popserver.c does  *)
(* it: the marked positions are skipped, the others are written in order.  *)
(***************************************************************************)
EXTENDS Naturals, Sequences, FiniteSets

\* e goes through the positions U in increasing order.
Increasing(e, U) ==
    /\ e \in [1..Cardinality(U) -> U]
    /\ \A i, j \in 1..Cardinality(U) : i < j => e[i] < e[j]

\* The elements of list l at positions outside of M, in order.
Kept(l, M) ==
    LET U == DOMAIN l \ M
        e == CHOOSE e \in [1..Cardinality(U) -> U] : Increasing(e, U)
    IN  [i \in 1..Cardinality(U) |-> l[e[i]]]
=============================================================================
