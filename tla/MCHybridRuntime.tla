---------------------------- MODULE MCHybridRuntime ----------------------------
(* Instances of HybridRuntime for TLC. *)
EXTENDS HybridRuntime, TLC
===============================================================================
