----------------------------- MODULE MCMTPSetup -----------------------------
(* A few user processes sharing a small table. *)
EXTENDS MTPSetup, TLC

CONSTANTS u, v, w

Right == { Dest }
\* Right address and wrong port, wrong address and right port, both wrong.
AnyTo == [ip : {"dest", "else"}, port : {"dest", "else"}]
NoTo == {}
Users == {u, v}
Crowd == {u, v, w}
Alike == Permutations(Crowd)
=============================================================================
