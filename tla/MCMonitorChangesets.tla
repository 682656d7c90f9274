------------------------ MODULE MCMonitorChangesets ------------------------
(***************************************************************************)
(* Small instances of MonitorChangesets for TLC.  c is open in every file  *)
(* that speaks of it until it is closed in the last; d comes and goes and  *)
(* is outside of the priority area at first; e always is; the file in      *)
(* Quiet only has an open changeset, made long before.                     *)
(***************************************************************************)
EXTENDS MonitorChangesets

CONSTANTS c, d, e, Quiet

NadtVeryOld == 1000
NadtInFuture == -1000

InFile(s) ==
  IF s \in Quiet THEN <<ChangeSet(c, Stamp(Start), NotADateTime, TRUE)>>
  ELSE << ChangeSet(d, Stamp(Start), Stamp(s), s > Start + 1),
          ChangeSet(e, Stamp(Start), Stamp(Start), FALSE),
          ChangeSet(c, Stamp(s), NotADateTime, TRUE) >>

SmallContent == [s \in Files |-> InFile(s)]
=============================================================================
