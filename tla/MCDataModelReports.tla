-------------------------- MODULE MCDataModelReports --------------------------
(* Instances of DataModelReports for TLC. *)
EXTENDS DataModelReports, TLC
===============================================================================
