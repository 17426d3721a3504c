------------------------------- MODULE MCMTP -------------------------------
(* Two sockets bound to each other; one direction carries the messages. *)
EXTENDS MTPInv, TLC

CONSTANTS a, b

MCSock == {a, b}
MCPeer == (a :> b) @@ (b :> a)
OneWay == (a :> 4) @@ (b :> 0)
Few == (a :> 2) @@ (b :> 0)
BothWays == (a :> 2) @@ (b :> 1)

\* Liveness needs it and safety does not: the frame before the expected one is not
\* in the receive window, which jumps, so that it is acknowledged again.  It holds
\* of the code's 5 slots and 15 numbers; it would not of 3 and 5, or of 4 and 7.
FrameBefore(t) == IF t = 1 THEN MaxSeq - 1 ELSE t - 1

ASSUME WindowAssumption ==
    \A t \in Frame, j \in Slot : WindowVal(t)[j] # FrameBefore(t)
=============================================================================
