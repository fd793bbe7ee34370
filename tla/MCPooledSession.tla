---------------------------- MODULE MCPooledSession ----------------------------
(* Instances of PooledSession for TLC. *)
EXTENDS PooledSession, TLC
SomeLimits == {-1, 0, 1, 3, 4}
===============================================================================
