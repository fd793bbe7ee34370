---------------------------- MODULE MCQueryBreaker ----------------------------
(* Instances of QueryBreaker for TLC. *)
EXTENDS QueryBreaker, TLC
===============================================================================
