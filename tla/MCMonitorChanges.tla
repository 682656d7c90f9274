-------------------------- MODULE MCMonitorChanges --------------------------
(***************************************************************************)
(* Small instances of MonitorChanges for TLC.                              *)
(***************************************************************************)
EXTENDS MonitorChanges

\* The two outcomes of boost's arithmetic on not_a_date_time.
NadtVeryOld == 1000
NadtInFuture == -1000
=============================================================================
