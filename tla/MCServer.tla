------------------------------ MODULE MCServer ------------------------------
(***************************************************************************)
(* Server with times scaled down: an attempt of 2 ticks, a retry budget of *)
(* 4, a write timeout of 4 and a shutdown budget of 7 stand for the code's *)
(* 10 s, 10 s, 15 s and 30 s; waits of 1 and 2 for its 1 s, 2 s and 4 s.   *)
(***************************************************************************)
EXTENDS Server

CONSTANTS r1, r2, p1

OneTick == [p \in Paths |-> 1]
=============================================================================
