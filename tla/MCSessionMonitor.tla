--------------------------- MODULE MCSessionMonitor ---------------------------
(* Instances of SessionMonitor for TLC. *)
EXTENDS SessionMonitor, TLC
===============================================================================
