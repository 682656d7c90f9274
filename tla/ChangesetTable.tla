--------------------------- MODULE ChangesetTable ---------------------------
(***************************************************************************)
(* The table of changesets, and the two monitors that write it.            *)
(*                                                                         *)
(* The changesets monitor stores what a replication file says of a         *)
(* changeset (editor, hashtags, bounding box: meta), the OsmChange monitor *)
(* the features it added and modified (statistics).  A row is inserted by  *)
(* whichever comes first and completed by the other; they run in threads   *)
(* of their own, and each can be started again on an earlier file.         *)
(*                                                                         *)
(* One tag is counted; a number of features that is not stored is 0.  The  *)
(* position of a monitor is a matter of the modules of the monitors: here  *)
(* a monitor applies the files one by one, as it does once caught up.      *)
(***************************************************************************)
EXTENDS Integers, Sequences, FiniteSetsExt

CONSTANTS
  Changesets,   \* identifiers
  MaxUploads,   \* bound: uploads, all changesets together
  MaxEdits,     \* bound: later edits of the tags of a changeset
  MaxFiles,     \* bound: files of each feed
  MaxRestarts   \* bound: restarts, both monitors together

ASSUME BoundsAssumption ==
  MaxUploads \in Nat /\ MaxEdits \in Nat /\ MaxFiles \in Nat /\ MaxRestarts \in Nat

VARIABLES
  world,         \* OSM: the changesets
  newStates,     \* changesets the next changeset file speaks of
  newUploads,    \* features of each changeset the next change file has
  changesetFeed, \* published changeset files: a set of states each
  changeFeed,    \* published change files: the features of each changeset
  table,         \* the rows
  changesetPos, changePos,  \* files each monitor has applied
  restarts

feeds == <<changesetFeed, changeFeed>>
mapper == <<world, newStates, newUploads>>
program == <<table, changesetPos, changePos, restarts>>
vars == <<mapper, feeds, program>>

Kinds == {"added", "modified"}
NoFeatures == [kind \in Kinds |-> 0]

\* A row: closed_at is not set, or the time the changeset was created or closed at,
\* or that of an object of a change file.
NoRow == [ stored |-> FALSE, meta |-> 0, closed_at |-> "null", features |-> NoFeatures ]

-----------------------------------------------------------------------------
(* The statements.                                                         *)

\* Mutant of StoreChangeset: the whole row is written again.
StoreChangesetAnew(row, c) ==
  [ stored |-> TRUE, meta |-> c.meta, features |-> NoFeatures,
    closed_at |-> IF c.open THEN "created" ELSE "closed" ]

\* Mutant of StoreChangeset: ON CONFLICT DO NOTHING.
StoreChangesetOnce(row, c) ==
  IF row.stored THEN row
  ELSE [ stored |-> TRUE, meta |-> c.meta, features |-> NoFeatures,
         closed_at |-> IF c.open THEN "created" ELSE "closed" ]

\* QueryStats::applyChange(ChangeSet): an insert that sets closed_at, to created_at
\* when the changeset is still open; on conflict only the other fields.
StoreChangeset(row, c) ==
  IF row.stored
    THEN [row EXCEPT !.meta = c.meta]
    ELSE [ stored |-> TRUE, meta |-> c.meta, features |-> NoFeatures,
           closed_at |-> IF c.open THEN "created" ELSE "closed" ]

\* Mutant of StoreFeatures: the features are added to those of the row.
StoreFeaturesAdded(row, f) ==
  [row EXCEPT !.stored = TRUE, !.closed_at = "object",
              !.features = [kind \in Kinds |-> @[kind] + f[kind]]]

\* QueryStats::applyChange(ChangeStats): the features replace those of the row, a
\* kind without any is set to null, and closed_at is that of an object.
StoreFeatures(row, f) ==
  [row EXCEPT !.stored = TRUE, !.closed_at = "object", !.features = f]

\* The statements of a changeset file, one for each changeset in it.
ApplyChangesets(rows, file) ==
  [c \in Changesets |->
     IF \E s \in file : s.id = c
       THEN StoreChangeset(rows[c], CHOOSE s \in file : s.id = c)
       ELSE rows[c]]

\* Mutant of ApplyFeatures: a changeset without features is written too.
ApplyAllFeatures(rows, file) ==
  [c \in Changesets |-> StoreFeatures(rows[c], file[c])]

\* The statements of a change file: collectStats sums the features by changeset, and
\* a changeset without any is skipped.
ApplyFeatures(rows, file) ==
  [c \in Changesets |->
     IF file[c] = NoFeatures THEN rows[c] ELSE StoreFeatures(rows[c], file[c])]

-----------------------------------------------------------------------------
(* OSM and its two feeds.                                                  *)

Uploads == MapThenSumSet(LAMBDA c : world[c].uploads, Changesets)

\* A mapper opens a changeset, closes it, or edits its tags afterwards.
OpenChangeset(c) ==
  /\ world[c].meta = 0
  /\ world' = [world EXCEPT ![c].meta = 1, ![c].open = TRUE]
  /\ newStates' = newStates \cup {c}
  /\ UNCHANGED <<newUploads, feeds, program>>

CloseChangeset(c) ==
  /\ world[c].open
  /\ world' = [world EXCEPT ![c].open = FALSE]
  /\ newStates' = newStates \cup {c}
  /\ UNCHANGED <<newUploads, feeds, program>>

EditChangeset(c) ==
  /\ world[c].meta \in 1 .. MaxEdits
  /\ world' = [world EXCEPT ![c].meta = @ + 1]
  /\ newStates' = newStates \cup {c}
  /\ UNCHANGED <<newUploads, feeds, program>>

\* An upload adds, or modifies, one feature.
Upload(c, kind) ==
  /\ world[c].open
  /\ Uploads < MaxUploads
  /\ world' = [world EXCEPT ![c].uploads = @ + 1, ![c].features[kind] = @ + 1]
  /\ newUploads' = [newUploads EXCEPT ![c][kind] = @ + 1]
  /\ UNCHANGED <<newStates, feeds, program>>

\* What the parser keeps of a changeset in a file.
StateOf(c) == [id |-> c, meta |-> world[c].meta, open |-> world[c].open]

PublishChangesets ==
  /\ newStates # {} /\ Len(changesetFeed) < MaxFiles
  /\ changesetFeed' = Append(changesetFeed, {StateOf(c) : c \in newStates})
  /\ newStates' = {}
  /\ UNCHANGED <<world, newUploads, changeFeed, program>>

NoUploads == [c \in Changesets |-> NoFeatures]

PublishChanges ==
  /\ newUploads # NoUploads /\ Len(changeFeed) < MaxFiles
  /\ changeFeed' = Append(changeFeed, newUploads)
  /\ newUploads' = NoUploads
  /\ UNCHANGED <<world, newStates, changesetFeed, program>>

-----------------------------------------------------------------------------
(* The two monitors: each a transaction for a file, in either order.       *)

MonitorChangesets ==
  /\ changesetPos < Len(changesetFeed)
  /\ table' = ApplyChangesets(table, changesetFeed[changesetPos + 1])
  /\ changesetPos' = changesetPos + 1
  /\ UNCHANGED <<mapper, feeds, changePos, restarts>>

MonitorChanges ==
  /\ changePos < Len(changeFeed)
  /\ table' = ApplyFeatures(table, changeFeed[changePos + 1])
  /\ changePos' = changePos + 1
  /\ UNCHANGED <<mapper, feeds, changesetPos, restarts>>

\* The program is started again: each monitor on a file it has applied, or the next.
Restart ==
  /\ restarts < MaxRestarts
  /\ restarts' = restarts + 1
  /\ changesetPos' \in 0 .. changesetPos
  /\ changePos' \in 0 .. changePos
  /\ UNCHANGED <<mapper, feeds, table>>

-----------------------------------------------------------------------------
Init ==
  /\ world = [c \in Changesets |->
                [meta |-> 0, open |-> FALSE, uploads |-> 0, features |-> NoFeatures]]
  /\ newStates = {} /\ newUploads = NoUploads
  /\ changesetFeed = <<>> /\ changeFeed = <<>>
  /\ table = [c \in Changesets |-> NoRow]
  /\ changesetPos = 0 /\ changePos = 0 /\ restarts = 0

Next ==
  \/ \E c \in Changesets :
       \/ OpenChangeset(c) \/ CloseChangeset(c) \/ EditChangeset(c)
       \/ \E kind \in Kinds : Upload(c, kind)
  \/ PublishChangesets \/ PublishChanges
  \/ MonitorChangesets \/ MonitorChanges \/ Restart

Spec == Init /\ [][Next]_vars

-----------------------------------------------------------------------------
TypeOK ==
  /\ \A c \in Changesets :
       /\ table[c].meta \in 0 .. world[c].meta
       /\ table[c].closed_at \in {"null", "created", "closed", "object"}
       /\ \A kind \in Kinds : table[c].features[kind] \in 0 .. world[c].features[kind]
       /\ ~table[c].stored => table[c] = NoRow
  /\ changesetPos \in 0 .. Len(changesetFeed)
  /\ changePos \in 0 .. Len(changeFeed)

\* The files of a feed up to n that speak of c, and the last of them.
ChangesetFiles(c, n) == {i \in 1 .. n : \E s \in changesetFeed[i] : s.id = c}
ChangeFiles(c, n) == {i \in 1 .. n : changeFeed[i][c] # NoFeatures}
LastOf(files) == CHOOSE i \in files : \A j \in files : j <= i

\* When the changesets monitor has applied every file, every changeset has what the
\* last file that speaks of it says, whatever the other monitor did to the row before,
\* between or after, and however often files were applied again.
MetaInStep ==
  changesetPos = Len(changesetFeed) =>
    \A c \in Changesets :
      LET files == ChangesetFiles(c, changesetPos)
      IN  files # {} =>
            \E s \in changesetFeed[LastOf(files)] :
              s.id = c /\ table[c].stored /\ table[c].meta = s.meta

\* When the OsmChange monitor has applied every file, the features of a changeset are
\* those of the last file with a part of it: neither lost to the other monitor, nor
\* counted twice by a file that is applied again.
FeaturesOfLastFile ==
  changePos = Len(changeFeed) =>
    \A c \in Changesets :
      LET files == ChangeFiles(c, changePos)
      IN  table[c].features
            = IF files = {} THEN NoFeatures ELSE changeFeed[LastOf(files)][c]

\* closed_at is that of the changeset only where no change file has a part of it, and
\* then of its first state: an open changeset never gets another one.
ClosedAt ==
  changesetPos = Len(changesetFeed) /\ changePos = Len(changeFeed) =>
    \A c \in Changesets :
      LET states == ChangesetFiles(c, changesetPos)
          first == CHOOSE i \in states : \A j \in states : i <= j
      IN  IF ChangeFiles(c, changePos) # {} THEN table[c].closed_at = "object"
          ELSE states # {} =>
                 \E s \in changesetFeed[first] :
                   s.id = c /\ table[c].closed_at = IF s.open THEN "created" ELSE "closed"

=============================================================================
