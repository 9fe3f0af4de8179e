---------------------------- MODULE MCWriteGroup ----------------------------
(* A small instance of WriteGroup.  One writer submits twice, so that a new *)
(* slot of its follows a released one, with either value of sync; two other *)
(* writers, one of each value, queue up behind it.                          *)
EXTENDS WriteGroup

CONSTANTS w1, w2

Budget == [w \in Writers |-> IF w = w1 THEN 2 ELSE 1]
SyncChoices == [w \in Writers |-> IF w = w1 THEN BOOLEAN ELSE {w = w2}]
=============================================================================
