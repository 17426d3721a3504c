---------------------------- MODULE MCMailSystem ----------------------------
(* Two users, one of them without a directory, and a few clients. *)
EXTENDS MailInv, TLC

CONSTANTS x, y, z, alice, bob, eve

OneEach == [c \in Client |-> 1]
TwoEach == [c \in Client |-> 2]
MoreX == [c \in Client |-> IF c = x THEN 2 ELSE 1]
ThreeX == [c \in Client |-> IF c = x THEN 3 ELSE 1]
Alike == Permutations({x, y})
=============================================================================
