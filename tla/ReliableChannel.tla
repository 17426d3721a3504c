--------------------------- MODULE ReliableChannel ---------------------------
(***************************************************************************)
(* What the MTP library promises its users: the messages handed to         *)
(* m_sendto reach the peer's m_recvfrom in order, each once, with at most  *)
(* Capacity of them under way.  Message n of a stream is its n-th.         *)
(***************************************************************************)
EXTENDS Naturals, Sequences

CONSTANTS Stream,      \* one per direction of a connection
          Capacity     \* a send buffer and a receive buffer

VARIABLES taken,       \* how many messages the sender's user has handed over
          received,    \* what the receiver's user has read
          open         \* FALSE once the receiver's socket has been reclaimed

chan == <<taken, received, open>>

ChanInit ==
    /\ taken = [s \in Stream |-> 0]
    /\ received = [s \in Stream |-> <<>>]
    /\ open = [s \in Stream |-> TRUE]

Take(s) ==
    /\ open[s] => taken[s] - Len(received[s]) < Capacity
    /\ taken' = [taken EXCEPT ![s] = @ + 1]
    /\ UNCHANGED <<received, open>>

Deliver(s) ==
    /\ open[s]
    /\ Len(received[s]) < taken[s]
    /\ received' = [received EXCEPT ![s] = Append(@, Len(@) + 1)]
    /\ UNCHANGED <<taken, open>>

Shut(s) ==
    /\ open[s]
    /\ open' = [open EXCEPT ![s] = FALSE]
    /\ UNCHANGED <<taken, received>>

ChanNext == \E s \in Stream : Take(s) \/ Deliver(s) \/ Shut(s)

ChanSpec == ChanInit /\ [][ChanNext]_chan
=============================================================================
