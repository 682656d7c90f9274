--------------------------- MODULE ChangesetFile ---------------------------
(***************************************************************************)
(* A changeset file once it is parsed: ChangeSetFile.  Of a changeset are  *)
(* kept its identifier, when it was created and closed (an open one has no *)
(* closed_at), and whether its bounding box meets the priority area.       *)
(***************************************************************************)
EXTENDS Integers, Sequences

CONSTANT NotADateTime   \* boost's not_a_date_time

ChangeSet(id, created_at, closed_at, inside) ==
  [id |-> id, created_at |-> created_at, closed_at |-> closed_at, inside |-> inside]

ClosedTimes(changes) ==
  {changes[i].closed_at : i \in DOMAIN changes} \ {NotADateTime}

\* A list of changesets.
IsChangesetFile(changes) ==
  /\ changes \in Seq({changes[i] : i \in DOMAIN changes})
  /\ \A i \in DOMAIN changes :
       /\ changes[i].created_at \in Int \cup {NotADateTime}
       /\ changes[i].closed_at \in Int \cup {NotADateTime}
       /\ changes[i].inside \in BOOLEAN

\* on_start_element: the latest closed_at of the file.
LastClosedAt(changes) ==
  IF ClosedTimes(changes) = {} THEN NotADateTime
  ELSE CHOOSE t \in ClosedTimes(changes) : \A u \in ClosedTimes(changes) : u <= t

\* The timestamp of a task: when nothing in the file is closed, that of the
\* creation of its last changeset, however long ago that was.
TimestampOf(changes) ==
  IF LastClosedAt(changes) # NotADateTime THEN LastClosedAt(changes)
  ELSE IF changes # <<>> THEN changes[Len(changes)].created_at
  ELSE NotADateTime

-----------------------------------------------------------------------------
(***************************************************************************)
(* areaFilter erases from the list it walks: changes.erase(it--), then     *)
(* it++.  A std::list is a ring with end() between its last and its first  *)
(* entry: from the first entry, it-- steps to end(), and it++ from there   *)
(* to the entry that is now the first.  An iterator is an index, end() 0.  *)
(***************************************************************************)
NextOf(list, it) == IF it = Len(list) THEN 0 ELSE it + 1

Erase(list, it) == SubSeq(list, 1, it - 1) \o SubSeq(list, it + 1, Len(list))

\* Mutant of FilterStep: erase(it) without the step back, so that it++ skips the
\* entry that took the place of the erased one.
FilterStepForward(s) ==
  IF s.it = 0 THEN s
  ELSE IF s.list[s.it].inside THEN [s EXCEPT !.it = NextOf(s.list, s.it)]
  ELSE LET left == Erase(s.list, s.it)
       IN  [list |-> left, it |-> IF s.it >= Len(left) THEN 0 ELSE s.it + 1]

\* One turn of the loop, from the list and the iterator.
FilterStep(s) ==
  IF s.it = 0 THEN s
  ELSE IF s.list[s.it].inside THEN [s EXCEPT !.it = NextOf(s.list, s.it)]
  ELSE LET left == Erase(s.list, s.it)
       IN  [list |-> left, it |-> NextOf(left, s.it - 1)]

\* What areaFilter leaves of the list, when there is a priority area.
AreaFilter(changes) ==
  LET turn[k \in 0 .. Len(changes)] ==
        IF k = 0 THEN [list |-> changes, it |-> NextOf(changes, 0)]
        ELSE FilterStep(turn[k - 1])
  IN  turn[Len(changes)].list

\* The changesets of the list that meet the area, in their order.
MeetTheArea(changes) ==
  LET kept[k \in 0 .. Len(changes)] ==
        IF k = 0 THEN <<>>
        ELSE IF changes[k].inside THEN Append(kept[k - 1], changes[k]) ELSE kept[k - 1]
  IN  kept[Len(changes)]

\* The reference: the filter keeps every changeset that meets the area, and only
\* those, in their order, whatever entry of the list goes first.
KeepsInside(changes) == AreaFilter(changes) = MeetTheArea(changes)
=============================================================================
