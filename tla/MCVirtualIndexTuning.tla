------------------------- MODULE MCVirtualIndexTuning -------------------------
(* Instances of VirtualIndexTuning for TLC. *)
EXTENDS VirtualIndexTuning, TLC
===============================================================================
