------------------------ MODULE ChangesetTableProofs ------------------------
(***************************************************************************)
(* The table of changesets, for any changesets, uploads, files and         *)
(* restarts: what a row holds is what the last, or the first, file of a    *)
(* feed says, whatever the two monitors do in between.                     *)
(***************************************************************************)
EXTENDS ChangesetTable, TLAPS

Features == [Kinds -> Nat]
State == [id : Changesets, meta : Nat, open : BOOLEAN]
Times == {"null", "created", "closed", "object"}
Row == [stored : BOOLEAN, meta : Nat, closed_at : Times, features : Features]
InOSM == [meta : Nat, open : BOOLEAN, uploads : Nat, features : Features]

MapperTyped ==
  /\ world \in [Changesets -> InOSM]
  /\ newStates \subseteq Changesets
  /\ newUploads \in [Changesets -> Features]

FeedsTyped ==
  /\ changesetFeed \in Seq(SUBSET State)
  /\ changeFeed \in Seq([Changesets -> Features])

ProgramTyped ==
  /\ table \in [Changesets -> Row]
  /\ \A c \in Changesets : ~table[c].stored => table[c] = NoRow
  /\ changesetPos \in 0 .. Len(changesetFeed)
  /\ changePos \in 0 .. Len(changeFeed)

Typed == MapperTyped /\ FeedsTyped /\ ProgramTyped

\* A file of a feed has a part of changeset c.
Speaks(i, c) == \E s \in changesetFeed[i] : s.id = c
Says(i, c) == changeFeed[i][c] # NoFeatures

\* What both monitors leave alone: the feeds, which only grow.
FeedsGrow ==
  /\ Len(changesetFeed) <= Len(changesetFeed')
  /\ \A i \in 1 .. Len(changesetFeed) : changesetFeed'[i] = changesetFeed[i]
  /\ Len(changeFeed) <= Len(changeFeed')
  /\ \A i \in 1 .. Len(changeFeed) : changeFeed'[i] = changeFeed[i]

-----------------------------------------------------------------------------
(* The statements.                                                         *)

LEMMA NoFeaturesTyped == NoFeatures \in Features /\ NoRow \in Row
BY DEF NoFeatures, Features, NoRow, Row, Times

LEMMA ChangesetRow ==
  ASSUME NEW row \in Row, ~row.stored => row = NoRow, NEW s \in State
  PROVE  LET new == StoreChangeset(row, s)
         IN  /\ new \in Row /\ new.stored /\ new.meta = s.meta
             /\ new.features = row.features
             /\ new.closed_at = IF row.stored THEN row.closed_at
                                ELSE IF s.open THEN "created" ELSE "closed"
<1>1. CASE row.stored
  BY <1>1 DEF StoreChangeset, Row, State
<1>2. CASE ~row.stored
  BY <1>2, NoFeaturesTyped DEF StoreChangeset, Row, State, NoRow, Times
<1> QED
  BY <1>1, <1>2

LEMMA FeaturesRow ==
  ASSUME NEW row \in Row, NEW f \in Features
  PROVE  LET new == StoreFeatures(row, f)
         IN  /\ new \in Row /\ new.stored /\ new.meta = row.meta
             /\ new.features = f /\ new.closed_at = "object"
BY DEF StoreFeatures, Row, Times

\* A row after a changeset file: that of one of the states it has, or as before.
LEMMA AfterChangesets ==
  ASSUME Typed, MonitorChangesets, NEW c \in Changesets
  PROVE  /\ changesetPos + 1 \in 1 .. Len(changesetFeed)
         /\ changesetPos' = changesetPos + 1
         /\ table' \in [Changesets -> Row]
         /\ \/ \E s \in changesetFeed[changesetPos + 1] :
                 /\ s \in State /\ s.id = c
                 /\ table'[c] = StoreChangeset(table[c], s)
            \/ ~Speaks(changesetPos + 1, c) /\ table'[c] = table[c]
<1> DEFINE file == changesetFeed[changesetPos + 1]
<1>1. changesetPos + 1 \in 1 .. Len(changesetFeed) /\ changesetPos' = changesetPos + 1
  BY DEF Typed, FeedsTyped, ProgramTyped, MonitorChangesets
<1>2. file \subseteq State
  BY <1>1 DEF Typed, FeedsTyped
<1> HIDE DEF file
<1>3. ASSUME NEW d \in Changesets, \E s \in file : s.id = d
      PROVE  (CHOOSE s \in file : s.id = d) \in file /\ (CHOOSE s \in file : s.id = d).id = d
  BY <1>3
<1>4. \A d \in Changesets : (\E s \in file : s.id = d) =>
        StoreChangeset(table[d], CHOOSE s \in file : s.id = d) \in Row
  BY <1>2, <1>3, ChangesetRow DEF Typed, ProgramTyped
<1>5. table' = [d \in Changesets |->
        IF \E s \in file : s.id = d
          THEN StoreChangeset(table[d], CHOOSE s \in file : s.id = d) ELSE table[d]]
  BY DEF MonitorChangesets, ApplyChangesets, file
<1>6. table' \in [Changesets -> Row]
  BY <1>4, <1>5 DEF Typed, ProgramTyped
<1>7. CASE \E s \in file : s.id = c
  BY <1>1, <1>2, <1>3, <1>5, <1>6, <1>7 DEF file
<1>8. CASE ~\E s \in file : s.id = c
  BY <1>1, <1>5, <1>6, <1>8 DEF file, Speaks
<1> QED
  BY <1>7, <1>8

\* A row after a change file.
LEMMA AfterFeatures ==
  ASSUME Typed, MonitorChanges, NEW c \in Changesets
  PROVE  /\ changePos + 1 \in 1 .. Len(changeFeed)
         /\ changePos' = changePos + 1
         /\ changeFeed[changePos + 1][c] \in Features
         /\ table' \in [Changesets -> Row]
         /\ table'[c] = IF Says(changePos + 1, c)
                          THEN StoreFeatures(table[c], changeFeed[changePos + 1][c])
                          ELSE table[c]
<1> DEFINE file == changeFeed[changePos + 1]
<1>1. changePos + 1 \in 1 .. Len(changeFeed) /\ changePos' = changePos + 1
  BY DEF Typed, FeedsTyped, ProgramTyped, MonitorChanges
<1>2. file \in [Changesets -> Features]
  BY <1>1 DEF Typed, FeedsTyped
<1>3. table' = [d \in Changesets |->
        IF file[d] = NoFeatures THEN table[d] ELSE StoreFeatures(table[d], file[d])]
  BY DEF MonitorChanges, ApplyFeatures
<1> HIDE DEF file
<1>4. \A d \in Changesets : StoreFeatures(table[d], file[d]) \in Row
  BY <1>2, FeaturesRow DEF Typed, ProgramTyped
<1>5. table' \in [Changesets -> Row]
  BY <1>3, <1>4 DEF Typed, ProgramTyped
<1> QED
  BY <1>1, <1>2, <1>3, <1>5 DEF file, Says

-----------------------------------------------------------------------------
(* Types, and what a step may change.                                      *)

LEMMA InitTyped == Init => Typed
BY NoFeaturesTyped
   DEF Init, Typed, MapperTyped, FeedsTyped, ProgramTyped, InOSM, NoUploads, NoRow

\* The mapper's steps and the publication leave the program alone, and the program
\* OSM and its feeds.
LEMMA WhoChanges ==
  ASSUME [Next]_vars
  PROVE  \/ UNCHANGED program
         \/ UNCHANGED <<mapper, feeds>> /\ (MonitorChangesets \/ MonitorChanges \/ Restart)
<1>1. ASSUME NEW c \in Changesets,
             \/ OpenChangeset(c) \/ CloseChangeset(c) \/ EditChangeset(c)
             \/ \E kind \in Kinds : Upload(c, kind)
      PROVE  UNCHANGED program
  BY <1>1 DEF OpenChangeset, CloseChangeset, EditChangeset, Upload
<1>2. PublishChangesets \/ PublishChanges => UNCHANGED program
  BY DEF PublishChangesets, PublishChanges
<1>3. MonitorChangesets \/ MonitorChanges \/ Restart => UNCHANGED <<mapper, feeds>>
  BY DEF MonitorChangesets, MonitorChanges, Restart
<1>4. UNCHANGED vars => UNCHANGED program
  BY DEF vars
<1> QED
  BY <1>1, <1>2, <1>3, <1>4 DEF Next

\* What a mapper may set of a changeset.
WithOpen(w, o) == [w EXCEPT !.open = o]
WithMeta(w, m) == [w EXCEPT !.meta = m]
WithUploads(w, u, f) == [w EXCEPT !.uploads = u, !.features = f]

LEMMA SetOpen ==
  \A w \in InOSM, o \in BOOLEAN :
    LET t == WithOpen(w, o)
    IN  t \in InOSM /\ t.meta = w.meta /\ t.features = w.features
BY DEF WithOpen, InOSM

LEMMA SetMeta ==
  \A w \in InOSM, m \in Nat :
    LET t == WithMeta(w, m)
    IN  t \in InOSM /\ t.meta = m /\ t.features = w.features
BY DEF WithMeta, InOSM

LEMMA SetUploads ==
  \A w \in InOSM, u \in Nat, f \in Features :
    LET t == WithUploads(w, u, f)
    IN  t \in InOSM /\ t.meta = w.meta /\ t.features = f
BY DEF WithUploads, InOSM

\* One step of OSM: a changeset, and what is to be published of it.
LEMMA MapperKeeps ==
  ASSUME MapperTyped, FeedsTyped, [Next]_vars
  PROVE  /\ MapperTyped'
         /\ \A c \in Changesets :
              /\ world[c].meta <= world'[c].meta
              /\ \A kind \in Kinds :
                   /\ world[c].features[kind] <= world'[c].features[kind]
                   /\ newUploads[c][kind] <= world[c].features[kind] =>
                        newUploads'[c][kind] <= world'[c].features[kind]
<1>0. /\ world \in [Changesets -> InOSM] /\ newStates \subseteq Changesets
      /\ newUploads \in [Changesets -> Features]
  BY DEF MapperTyped
<1>a. /\ \A c \in Changesets : world[c].meta \in Nat /\ world[c].features \in Features
      /\ \A f \in Features, kind \in Kinds : f[kind] \in Nat
  BY <1>0 DEF InOSM, Features
<1>1. ASSUME UNCHANGED mapper
      PROVE  MapperTyped' /\ world' = world /\ newUploads' = newUploads
  BY <1>0, <1>1 DEF mapper, MapperTyped
<1>2. ASSUME NEW c \in Changesets, NEW t \in InOSM,
             world[c].meta <= t.meta, t.features = world[c].features,
             world' = [world EXCEPT ![c] = t],
             newStates' \subseteq Changesets, newUploads' = newUploads
      PROVE  /\ MapperTyped'
             /\ \A d \in Changesets : /\ world[d].meta <= world'[d].meta
                                      /\ world'[d].features = world[d].features
  BY <1>0, <1>a, <1>2 DEF MapperTyped
<1>3. ASSUME NEW c \in Changesets, OpenChangeset(c) \/ CloseChangeset(c) \/ EditChangeset(c)
      PROVE  \E t \in InOSM :
               /\ world[c].meta <= t.meta /\ t.features = world[c].features
               /\ world' = [world EXCEPT ![c] = t]
               /\ newStates' \subseteq Changesets /\ newUploads' = newUploads
  <2> DEFINE w == world[c]
  <2>1. w \in InOSM /\ w.meta \in Nat
    BY <1>0 DEF InOSM
  <2>2. CASE OpenChangeset(c)
    <3> DEFINE t == WithOpen(WithMeta(w, 1), TRUE)
    <3>1. t \in InOSM /\ t.meta = 1 /\ t.features = w.features
      <4>1. 1 \in Nat /\ TRUE \in BOOLEAN
        OBVIOUS
      <4>2. WithMeta(w, 1) \in InOSM /\ WithMeta(w, 1).meta = 1
            /\ WithMeta(w, 1).features = w.features
        BY <2>1, <4>1, SetMeta, Zenon
      <4> QED
        BY <4>1, <4>2, SetOpen, Zenon
    <3>2. world' = [world EXCEPT ![c] = t]
      BY <1>0, <2>2 DEF OpenChangeset, WithOpen, WithMeta
    <3>3. newStates' \subseteq Changesets /\ newUploads' = newUploads
      BY <1>0, <2>2 DEF OpenChangeset
    <3> HIDE DEF t
    <3>4. world[c].meta <= t.meta
      BY <2>2, <3>1 DEF OpenChangeset
    <3> QED
      BY <3>1, <3>2, <3>3, <3>4, Zenon
  <2>3. CASE CloseChangeset(c)
    <3> DEFINE t == WithOpen(w, FALSE)
    <3>1. t \in InOSM /\ t.meta = w.meta /\ t.features = w.features
      BY <2>1, SetOpen
    <3>2. world' = [world EXCEPT ![c] = t]
      BY <2>3 DEF CloseChangeset, WithOpen
    <3>3. newStates' \subseteq Changesets /\ newUploads' = newUploads
      BY <1>0, <2>3 DEF CloseChangeset
    <3> HIDE DEF t
    <3>4. world[c].meta <= t.meta
      BY <2>1, <3>1
    <3> QED
      BY <3>1, <3>2, <3>3, <3>4, Zenon
  <2>4. CASE EditChangeset(c)
    <3> DEFINE more == w.meta + 1
               t == WithMeta(w, more)
    <3>0. more \in Nat /\ w.meta <= more
      BY <2>1
    <3>1. t \in InOSM /\ t.meta = more /\ t.features = w.features
      BY <2>1, <3>0, SetMeta, Zenon
    <3>2. world' = [world EXCEPT ![c] = t]
      BY <2>4 DEF EditChangeset, WithMeta
    <3>3. newStates' \subseteq Changesets /\ newUploads' = newUploads
      BY <1>0, <2>4 DEF EditChangeset
    <3> HIDE DEF t
    <3>4. world[c].meta <= t.meta
      BY <3>0, <3>1
    <3> QED
      BY <3>1, <3>2, <3>3, <3>4, Zenon
  <2> QED
    BY <1>3, <2>2, <2>3, <2>4
<1>4. ASSUME NEW c \in Changesets, NEW kind \in Kinds, Upload(c, kind)
      PROVE  /\ MapperTyped'
             /\ \A d \in Changesets :
                  /\ world'[d].meta = world[d].meta
                  /\ \A k \in Kinds :
                       /\ world[d].features[k] <= world'[d].features[k]
                       /\ newUploads[d][k] <= world[d].features[k] =>
                            newUploads'[d][k] <= world'[d].features[k]
  <2> DEFINE More(f) == [f EXCEPT ![kind] = @ + 1]
             w == world[c]
             t == WithUploads(w, w.uploads + 1, More(w.features))
  <2>1. \A f \in Features :
          /\ More(f) \in Features
          /\ \A k \in Kinds : More(f)[k] = IF k = kind THEN f[k] + 1 ELSE f[k]
    BY DEF Features
  <2>2. w \in InOSM /\ w.features \in Features /\ w.uploads \in Nat
    BY <1>0 DEF InOSM
  <2>3. /\ world' = [world EXCEPT ![c] = t]
        /\ newUploads' = [newUploads EXCEPT ![c] = More(newUploads[c])]
        /\ newStates' = newStates
    <3>1. world' = [world EXCEPT ![c] =
            [[w EXCEPT !.uploads = w.uploads + 1] EXCEPT !.features[kind] = @ + 1]]
      BY <1>0, <1>4 DEF Upload
    <3>2. [[w EXCEPT !.uploads = w.uploads + 1] EXCEPT !.features[kind] = @ + 1]
            = WithUploads(w, w.uploads + 1, More(w.features))
      BY <2>2 DEF InOSM, WithUploads
    <3> QED
      BY <1>4, <3>1, <3>2 DEF Upload
  <2> HIDE DEF More
  <2>4. t \in InOSM /\ t.meta = w.meta /\ t.features = More(w.features)
    <3>1. w.uploads + 1 \in Nat /\ More(w.features) \in Features
      BY <2>1, <2>2
    <3> QED
      BY <2>2, <3>1, SetUploads, Zenon
  <2> HIDE DEF t
  <2>5. world' \in [Changesets -> InOSM] /\ newUploads' \in [Changesets -> Features]
    BY <1>0, <2>1, <2>3, <2>4
  <2>6. /\ world'[c].meta = world[c].meta
        /\ world'[c].features = More(world[c].features)
        /\ newUploads'[c] = More(newUploads[c])
    BY <1>0, <2>3, <2>4
  <2>7. \A d \in Changesets \ {c} : world'[d] = world[d] /\ newUploads'[d] = newUploads[d]
    BY <1>0, <2>3
  <2>8. ASSUME NEW d \in Changesets
        PROVE  /\ world'[d].meta = world[d].meta
               /\ \A k \in Kinds :
                    /\ world[d].features[k] <= world'[d].features[k]
                    /\ newUploads[d][k] <= world[d].features[k] =>
                         newUploads'[d][k] <= world'[d].features[k]
    <3>1. CASE d = c
      BY <1>0, <1>a, <2>1, <2>6, <3>1
    <3>2. CASE d # c
      BY <1>0, <1>a, <2>7, <3>2
    <3> QED
      BY <3>1, <3>2
  <2> QED
    BY <1>0, <2>3, <2>5, <2>8 DEF MapperTyped
<1>5. ASSUME PublishChangesets
      PROVE  MapperTyped' /\ world' = world /\ newUploads' = newUploads
  BY <1>0, <1>5 DEF PublishChangesets, MapperTyped
<1>6. ASSUME PublishChanges
      PROVE  /\ MapperTyped' /\ world' = world
             /\ \A c \in Changesets, kind \in Kinds : newUploads'[c][kind] = 0
  BY <1>0, <1>6, NoFeaturesTyped DEF PublishChanges, MapperTyped, NoUploads, NoFeatures
<1>7. MonitorChangesets \/ MonitorChanges \/ Restart \/ UNCHANGED vars => UNCHANGED mapper
  BY DEF MonitorChangesets, MonitorChanges, Restart, vars
<1> QED
  <2>1. CASE UNCHANGED mapper
    BY <1>a, <1>1, <2>1
  <2>2. ASSUME NEW c \in Changesets, OpenChangeset(c) \/ CloseChangeset(c) \/ EditChangeset(c)
        PROVE  /\ MapperTyped'
               /\ newUploads' = newUploads
               /\ \A d \in Changesets : /\ world[d].meta <= world'[d].meta
                                        /\ world'[d].features = world[d].features
    BY <2>2, <1>2, <1>3
  <2>3. CASE \E c \in Changesets : OpenChangeset(c) \/ CloseChangeset(c) \/ EditChangeset(c)
    BY <1>a, <2>2, <2>3
  <2>4. CASE \E c \in Changesets, kind \in Kinds : Upload(c, kind)
    BY <1>a, <1>4, <2>4
  <2>5. CASE PublishChangesets
    BY <1>a, <1>5, <2>5
  <2>6. CASE PublishChanges
    BY <1>a, <1>6, <2>6
  <2> QED
    BY <1>7, <2>1, <2>3, <2>4, <2>5, <2>6 DEF Next

LEMMA FeedsKeep ==
  ASSUME MapperTyped, FeedsTyped, [Next]_vars
  PROVE  FeedsTyped' /\ FeedsGrow
<1>1. CASE PublishChangesets
  <2> DEFINE file == {StateOf(c) : c \in newStates}
  <2>1. \A c \in newStates : world[c].meta \in Nat /\ world[c].open \in BOOLEAN
    BY DEF MapperTyped, InOSM
  <2>2. file \in SUBSET State
    BY <2>1 DEF MapperTyped, State, StateOf
  <2>3. changesetFeed' = Append(changesetFeed, file) /\ changeFeed' = changeFeed
    BY <1>1 DEF PublishChangesets
  <2> HIDE DEF file
  <2> QED
    BY <2>2, <2>3 DEF FeedsTyped, FeedsGrow
<1>2. CASE PublishChanges
  <2>1. /\ changeFeed' = Append(changeFeed, newUploads) /\ changesetFeed' = changesetFeed
        /\ newUploads \in [Changesets -> Features]
    BY <1>2 DEF PublishChanges, MapperTyped
  <2> QED
    BY <2>1 DEF FeedsTyped, FeedsGrow
<1>3. CASE UNCHANGED feeds
  BY <1>3 DEF feeds, FeedsTyped, FeedsGrow
<1>4. ASSUME NEW c \in Changesets,
             \/ OpenChangeset(c) \/ CloseChangeset(c) \/ EditChangeset(c)
             \/ \E kind \in Kinds : Upload(c, kind)
      PROVE  UNCHANGED feeds
  BY <1>4 DEF OpenChangeset, CloseChangeset, EditChangeset, Upload
<1>5. MonitorChangesets \/ MonitorChanges \/ Restart \/ UNCHANGED vars => UNCHANGED feeds
  BY DEF MonitorChangesets, MonitorChanges, Restart, vars
<1> QED
  BY <1>1, <1>2, <1>3, <1>4, <1>5 DEF Next

LEMMA StepTyped == Typed /\ [Next]_vars => Typed'
<1> SUFFICES ASSUME Typed, [Next]_vars PROVE Typed'
  OBVIOUS
<1>0. MapperTyped /\ FeedsTyped /\ ProgramTyped
  BY DEF Typed
<1>1. MapperTyped' /\ FeedsTyped' /\ FeedsGrow
  BY <1>0, MapperKeeps, FeedsKeep
<1>2. Len(changesetFeed) \in Nat /\ Len(changeFeed) \in Nat
      /\ Len(changesetFeed') \in Nat /\ Len(changeFeed') \in Nat
  BY <1>0, <1>1 DEF FeedsTyped
<1>3. CASE UNCHANGED program
  BY <1>0, <1>1, <1>2, <1>3 DEF program, Typed, ProgramTyped, FeedsGrow
<1>4. CASE UNCHANGED <<mapper, feeds>> /\ MonitorChangesets
  <2>1. changesetPos' \in 0 .. Len(changesetFeed) /\ changePos' = changePos
    BY <1>0, <1>4 DEF MonitorChangesets, ProgramTyped
  <2>2. ASSUME NEW c \in Changesets
        PROVE  table' \in [Changesets -> Row] /\ (~table'[c].stored => table'[c] = NoRow)
    <3>1. table[c] \in Row /\ (~table[c].stored => table[c] = NoRow)
      BY <1>0 DEF ProgramTyped
    <3> QED
      BY <1>4, <3>1, AfterChangesets, ChangesetRow
  <2>3. table' \in [Changesets -> Row]
    BY <1>0, <1>4, <2>2 DEF MonitorChangesets, ApplyChangesets
  <2> QED
    BY <1>0, <1>2, <1>4, <2>1, <2>2, <2>3 DEF feeds, ProgramTyped, FeedsGrow, Typed, mapper, MapperTyped, FeedsTyped
<1>5. CASE UNCHANGED <<mapper, feeds>> /\ MonitorChanges
  <2>1. changePos' \in 0 .. Len(changeFeed) /\ changesetPos' = changesetPos
    BY <1>0, <1>5 DEF MonitorChanges, ProgramTyped
  <2>2. ASSUME NEW c \in Changesets
        PROVE  table' \in [Changesets -> Row] /\ (~table'[c].stored => table'[c] = NoRow)
    <3>1. table[c] \in Row /\ (~table[c].stored => table[c] = NoRow)
      BY <1>0 DEF ProgramTyped
    <3> QED
      BY <1>5, <3>1, AfterFeatures, FeaturesRow
  <2>3. table' \in [Changesets -> Row]
    BY <1>0, <1>5, <2>2 DEF MonitorChanges, ApplyFeatures
  <2> QED
    BY <1>0, <1>1, <1>5, <2>1, <2>2, <2>3 DEF feeds, ProgramTyped, Typed
<1>6. CASE UNCHANGED <<mapper, feeds>> /\ Restart
  BY <1>0, <1>1, <1>6 DEF feeds, ProgramTyped, Typed, Restart
<1> QED
  BY <1>1, <1>3, <1>4, <1>5, <1>6, WhoChanges DEF Typed

-----------------------------------------------------------------------------
(* The rows against the files.                                             *)

\* The bounds of positions and lengths, and the files that are there already.
LEMMA FilesStay ==
  ASSUME Typed, [Next]_vars
  PROVE  /\ Typed'
         /\ Len(changesetFeed) \in Nat /\ Len(changesetFeed') \in Nat
         /\ Len(changesetFeed) <= Len(changesetFeed')
         /\ changesetPos \in 0 .. Len(changesetFeed)
         /\ \A i \in 1 .. Len(changesetFeed) : changesetFeed'[i] = changesetFeed[i]
         /\ Len(changeFeed) \in Nat /\ Len(changeFeed') \in Nat
         /\ Len(changeFeed) <= Len(changeFeed')
         /\ changePos \in 0 .. Len(changeFeed)
         /\ \A i \in 1 .. Len(changeFeed) : changeFeed'[i] = changeFeed[i]
BY StepTyped, FeedsKeep DEF Typed, FeedsTyped, ProgramTyped, FeedsGrow

\* What a row has of the changesets feed: the meta of a file.
MetaFrom(i, c) ==
  \E s \in changesetFeed[i] : s.id = c /\ table[c].stored /\ table[c].meta = s.meta

\* If a file up to the position speaks of a changeset, the row has what a file says
\* that none of them comes after; it may be one applied before the last restart.
MetaInv ==
  \A c \in Changesets, k \in 1 .. changesetPos : Speaks(k, c) =>
    \E i \in k .. Len(changesetFeed) :
      MetaFrom(i, c) /\ \A j \in 1 .. changesetPos : Speaks(j, c) => j <= i

\* The features are those of a file that none up to the position comes after.
FeaturesInv ==
  \A c \in Changesets :
    \/ /\ table[c].features = NoFeatures
       /\ \A k \in 1 .. changePos : ~Says(k, c)
    \/ \E i \in 1 .. Len(changeFeed) :
         /\ Says(i, c) /\ table[c].features = changeFeed[i][c]
         /\ \A k \in 1 .. changePos : Says(k, c) => k <= i

LEMMA InitRows == Init => MetaInv /\ FeaturesInv
BY DEF Init, MetaInv, FeaturesInv, NoRow

LEMMA StepMeta == Typed /\ MetaInv /\ [Next]_vars => MetaInv'
<1> SUFFICES ASSUME Typed, MetaInv, [Next]_vars,
                    NEW c \in Changesets, NEW k \in 1 .. changesetPos', Speaks(k, c)'
             PROVE  \E i \in k .. Len(changesetFeed') :
                      /\ MetaFrom(i, c)'
                      /\ \A j \in 1 .. changesetPos' : Speaks(j, c)' => j <= i
  BY DEF MetaInv
<1>1. CASE UNCHANGED program
  <2>1. changesetPos' = changesetPos /\ table' = table
    BY <1>1 DEF program
  <2>2. \A j \in 1 .. changesetPos : Speaks(j, c)' <=> Speaks(j, c)
    BY FilesStay DEF Speaks
  <2>3. PICK i \in k .. Len(changesetFeed) :
          MetaFrom(i, c) /\ \A j \in 1 .. changesetPos : Speaks(j, c) => j <= i
    BY <2>1, <2>2 DEF MetaInv
  <2>4. MetaFrom(i, c)' /\ i \in k .. Len(changesetFeed')
    BY <2>1, <2>3, FilesStay DEF MetaFrom
  <2> QED
    BY <2>1, <2>2, <2>3, <2>4
<1>2. CASE UNCHANGED <<mapper, feeds>> /\ MonitorChangesets
  <2>1. changesetFeed' = changesetFeed /\ (\A j : Speaks(j, c)' <=> Speaks(j, c))
    BY <1>2 DEF feeds, Speaks
  <2>2. changesetPos' = changesetPos + 1 /\ changesetPos + 1 \in 1 .. Len(changesetFeed)
    BY <1>2, AfterChangesets
  <2>3. CASE \E s \in changesetFeed[changesetPos + 1] :
               s \in State /\ s.id = c /\ table'[c] = StoreChangeset(table[c], s)
    <3> PICK n \in 1 .. Len(changesetFeed) : n = changesetPos + 1
      BY <2>2
    <3>1. PICK s \in changesetFeed[n] :
            s \in State /\ s.id = c /\ table'[c] = StoreChangeset(table[c], s)
      BY <2>3
    <3>2. table'[c].stored /\ table'[c].meta = s.meta
      BY <3>1, ChangesetRow DEF Typed, ProgramTyped
    <3>3. MetaFrom(n, c)'
      BY <2>1, <3>1, <3>2 DEF MetaFrom
    <3>4. n \in k .. Len(changesetFeed') /\ \A j \in 1 .. changesetPos' : j <= n
      BY <2>1, <2>2, FilesStay
    <3> QED
      BY <3>3, <3>4
  <2>4. CASE ~Speaks(changesetPos + 1, c) /\ table'[c] = table[c]
    <3>1. k \in 1 .. changesetPos
      BY <2>1, <2>2, <2>4, FilesStay
    <3>2. PICK i \in k .. Len(changesetFeed) :
            MetaFrom(i, c) /\ \A j \in 1 .. changesetPos : Speaks(j, c) => j <= i
      BY <2>1, <3>1 DEF MetaInv
    <3>3. MetaFrom(i, c)'
      BY <2>1, <2>4, <3>2 DEF MetaFrom
    <3> QED
      BY <2>1, <2>2, <2>4, <3>2, <3>3, FilesStay
  <2> QED
    BY <1>2, <2>3, <2>4, AfterChangesets
<1>3. CASE UNCHANGED <<mapper, feeds>> /\ (MonitorChanges \/ Restart)
  <2>1. changesetFeed' = changesetFeed /\ (\A j : Speaks(j, c)' <=> Speaks(j, c))
    BY <1>3 DEF feeds, Speaks
  <2>2. changesetPos' \in 0 .. changesetPos
    BY <1>3, FilesStay DEF MonitorChanges, Restart
  <2>3. k \in 1 .. changesetPos /\ (\A j \in 1 .. changesetPos' : j \in 1 .. changesetPos)
    BY <2>2, FilesStay
  <2>4. PICK i \in k .. Len(changesetFeed) :
          MetaFrom(i, c) /\ \A j \in 1 .. changesetPos : Speaks(j, c) => j <= i
    BY <2>1, <2>3 DEF MetaInv
  <2>5. table[c].stored => table'[c].stored /\ table'[c].meta = table[c].meta
    <3>1. CASE MonitorChanges
      <4>1. table[c] \in Row
        BY DEF Typed, ProgramTyped
      <4>2. CASE Says(changePos + 1, c)
        BY <3>1, <4>1, <4>2, AfterFeatures, FeaturesRow
      <4>3. CASE ~Says(changePos + 1, c)
        BY <3>1, <4>3, AfterFeatures
      <4> QED
        BY <4>2, <4>3
    <3>2. CASE Restart
      BY <3>2 DEF Restart
    <3> QED
      BY <1>3, <3>1, <3>2
  <2>6. MetaFrom(i, c)'
    BY <2>1, <2>4, <2>5 DEF MetaFrom
  <2> QED
    BY <2>1, <2>3, <2>4, <2>6
<1> QED
  BY <1>1, <1>2, <1>3, WhoChanges

LEMMA StepFeatures == Typed /\ FeaturesInv /\ [Next]_vars => FeaturesInv'
<1> DEFINE None(c) == /\ table[c].features = NoFeatures
                      /\ \A k \in 1 .. changePos : ~Says(k, c)
           Of(i, c) == /\ Says(i, c) /\ table[c].features = changeFeed[i][c]
                       /\ \A k \in 1 .. changePos : Says(k, c) => k <= i
<1> SUFFICES ASSUME Typed, FeaturesInv, [Next]_vars, NEW c \in Changesets
             PROVE  None(c)' \/ \E i \in 1 .. Len(changeFeed') : Of(i, c)'
  BY DEF FeaturesInv
<1>0. None(c) \/ \E i \in 1 .. Len(changeFeed) : Of(i, c)
  BY DEF FeaturesInv
<1>1. ASSUME table'[c].features = table[c].features, changePos' \in 0 .. changePos
      PROVE  None(c)' \/ \E i \in 1 .. Len(changeFeed') : Of(i, c)'
  <2>1. \A k \in 1 .. changePos' : k \in 1 .. changePos /\ k \in 1 .. Len(changeFeed)
    BY <1>1, FilesStay
  <2>2. \A k \in 1 .. Len(changeFeed) : Says(k, c)' <=> Says(k, c)
    BY FilesStay DEF Says
  <2>3. CASE None(c)
    BY <1>1, <2>1, <2>2, <2>3
  <2>4. ASSUME NEW i \in 1 .. Len(changeFeed), Of(i, c) PROVE Of(i, c)'
    BY <1>1, <2>1, <2>2, <2>4, FilesStay
  <2>5. ASSUME NEW i \in 1 .. Len(changeFeed), Of(i, c)
        PROVE  \E j \in 1 .. Len(changeFeed') : Of(j, c)'
    <3>1. i \in 1 .. Len(changeFeed')
      BY FilesStay
    <3>2. Of(i, c)'
      BY <2>4, <2>5
    <3> HIDE DEF Of
    <3> QED
      BY <3>1, <3>2
  <2> HIDE DEF None, Of
  <2> QED
    BY <1>0, <2>3, <2>5
<1>2. CASE UNCHANGED program
  BY <1>1, <1>2, FilesStay DEF program
<1>3. CASE MonitorChangesets \/ Restart
  <2>1. table'[c].features = table[c].features
    BY <1>3, AfterChangesets, ChangesetRow DEF Restart, Typed, ProgramTyped
  <2> QED
    BY <1>1, <1>3, <2>1, FilesStay DEF MonitorChangesets, Restart
<1>4. CASE UNCHANGED <<mapper, feeds>> /\ MonitorChanges
  <2>1. changeFeed' = changeFeed /\ (\A j : Says(j, c)' <=> Says(j, c))
    BY <1>4 DEF feeds, Says
  <2>2. changePos' = changePos + 1 /\ changePos + 1 \in 1 .. Len(changeFeed)
    BY <1>4, AfterFeatures
  <2>3. CASE Says(changePos + 1, c)
    <3>1. table'[c].features = changeFeed[changePos + 1][c]
      BY <1>4, <2>3, AfterFeatures, FeaturesRow DEF Typed, ProgramTyped
    <3> PICK n \in 1 .. Len(changeFeed) : n = changePos + 1
      BY <2>2
    <3>2. Of(n, c)'
      BY <2>1, <2>2, <2>3, <3>1, FilesStay
    <3> QED
      BY <2>1, <3>2
  <2>4. CASE ~Says(changePos + 1, c)
    <3>1. table'[c] = table[c]
      BY <1>4, <2>4, AfterFeatures
    <3>2. CASE None(c)
      BY <2>1, <2>2, <2>4, <3>1, <3>2, FilesStay
    <3>3. ASSUME NEW i \in 1 .. Len(changeFeed), Of(i, c) PROVE Of(i, c)'
      BY <2>1, <2>2, <2>4, <3>1, <3>3, FilesStay
    <3> QED
      BY <1>0, <2>1, <3>2, <3>3
  <2> QED
    BY <2>3, <2>4
<1> QED
  BY <1>2, <1>3, <1>4, WhoChanges

-----------------------------------------------------------------------------
(* closed_at.                                                              *)

\* The row has what the first file that speaks of a changeset says.
ClosedBy(i, c) ==
  /\ \E s \in changesetFeed[i] :
       s.id = c /\ table[c].closed_at = IF s.open THEN "created" ELSE "closed"
  /\ \A j \in 1 .. Len(changesetFeed) : Speaks(j, c) => i <= j

\* closed_at is that of an object where, and only where, a change file has been
\* written to the row, and else that of the first state.
ClosedInv ==
  \A c \in Changesets :
    /\ table[c].closed_at = "object" => \E i \in 1 .. Len(changeFeed) : Says(i, c)
    /\ \A k \in 1 .. changePos : Says(k, c) => table[c].closed_at = "object"
    /\ \A k \in 1 .. changesetPos : Speaks(k, c) => table[c].stored
    /\ table[c].stored /\ table[c].closed_at # "object" =>
         \E i \in 1 .. Len(changesetFeed) : ClosedBy(i, c)

LEMMA InitClosed == Init => ClosedInv
BY DEF Init, ClosedInv, NoRow

LEMMA StepClosed == Typed /\ ClosedInv /\ [Next]_vars => ClosedInv'
<1> DEFINE A(c) == table[c].closed_at = "object" => \E i \in 1 .. Len(changeFeed) : Says(i, c)
           B(c) == \A k \in 1 .. changePos : Says(k, c) => table[c].closed_at = "object"
           C(c) == \A k \in 1 .. changesetPos : Speaks(k, c) => table[c].stored
           D(c) == table[c].stored /\ table[c].closed_at # "object" =>
                     \E i \in 1 .. Len(changesetFeed) : ClosedBy(i, c)
<1> SUFFICES ASSUME Typed, ClosedInv, [Next]_vars, NEW c \in Changesets
             PROVE  A(c)' /\ B(c)' /\ C(c)' /\ D(c)'
  BY DEF ClosedInv
<1>0. A(c) /\ B(c) /\ C(c) /\ D(c)
  BY DEF ClosedInv
<1>r. table[c] \in Row /\ (~table[c].stored => table[c] = NoRow)
  BY DEF Typed, ProgramTyped
<1>a. /\ \A k \in 1 .. Len(changeFeed) : Says(k, c)' <=> Says(k, c)
      /\ \A k \in 1 .. Len(changesetFeed) : Speaks(k, c)' <=> Speaks(k, c)
  BY FilesStay DEF Says, Speaks
<1>1. ASSUME table'[c].stored = table[c].stored, table'[c].closed_at = table[c].closed_at
      PROVE  /\ A(c)' /\ D(c)'
             /\ changePos' \in 0 .. changePos => B(c)'
             /\ changesetPos' \in 0 .. changesetPos => C(c)'
  <2>1. A(c)'
    BY <1>0, <1>a, <1>1, FilesStay
  <2>2. ASSUME NEW i \in 1 .. Len(changesetFeed), ClosedBy(i, c) PROVE ClosedBy(i, c)'
    <3>1. \A j \in 1 .. Len(changesetFeed') : j <= Len(changesetFeed) \/ i <= j
      BY FilesStay
    <3>2. changesetFeed'[i] = changesetFeed[i]
      BY FilesStay
    <3>3. \A j \in 1 .. Len(changesetFeed') : Speaks(j, c)' => i <= j
      BY <1>a, <2>2, <3>1, FilesStay DEF ClosedBy
    <3> QED
      BY <1>1, <2>2, <3>2, <3>3 DEF ClosedBy
  <2>3. D(c)'
    BY <1>0, <1>1, <2>2, FilesStay
  <2>4. changePos' \in 0 .. changePos => B(c)'
    BY <1>0, <1>a, <1>1, FilesStay
  <2>5. changesetPos' \in 0 .. changesetPos => C(c)'
    BY <1>0, <1>a, <1>1, FilesStay
  <2> QED
    BY <2>1, <2>3, <2>4, <2>5
<1>2. CASE UNCHANGED program
  BY <1>1, <1>2, FilesStay DEF program
<1>3. CASE Restart
  BY <1>1, <1>3, FilesStay DEF Restart
<1>4. CASE UNCHANGED <<mapper, feeds>> /\ MonitorChangesets
  <2>1. changesetFeed' = changesetFeed /\ changeFeed' = changeFeed /\ changePos' = changePos
    BY <1>4 DEF feeds, MonitorChangesets
  <2>2. changesetPos' = changesetPos + 1 /\ changesetPos + 1 \in 1 .. Len(changesetFeed)
    BY <1>4, AfterChangesets
  <2>3. CASE ~Speaks(changesetPos + 1, c) /\ table'[c] = table[c]
    <3>1. C(c)'
      BY <1>0, <1>a, <2>1, <2>2, <2>3, FilesStay
    <3> QED
      BY <1>1, <2>1, <2>3, <3>1, FilesStay
  <2>4. ASSUME NEW s \in changesetFeed[changesetPos + 1],
               s \in State, s.id = c, table'[c] = StoreChangeset(table[c], s)
        PROVE  A(c)' /\ B(c)' /\ C(c)' /\ D(c)'
    <3>1. /\ table'[c].stored
          /\ table'[c].closed_at = IF table[c].stored THEN table[c].closed_at
                                   ELSE IF s.open THEN "created" ELSE "closed"
      BY <1>r, <2>4, ChangesetRow
    <3>2. C(c)'
      BY <3>1
    <3>3. CASE table[c].stored
      BY <1>1, <1>r, <2>1, <3>1, <3>2, <3>3, FilesStay DEF Row
    <3>4. CASE ~table[c].stored
      <4> PICK n \in 1 .. Len(changesetFeed) : n = changesetPos + 1
        BY <2>2
      <4>1. table'[c].closed_at = IF s.open THEN "created" ELSE "closed"
        BY <3>1, <3>4
      <4>2. table[c].closed_at # "object" /\ table'[c].closed_at # "object"
        BY <1>r, <3>4, <4>1 DEF NoRow
      <4>3. A(c)' /\ B(c)'
        BY <1>0, <1>a, <2>1, <4>2, FilesStay
      <4>4. \A j \in 1 .. Len(changesetFeed) : Speaks(j, c) => n <= j
        BY <1>0, <3>4, FilesStay
      <4>5. ClosedBy(n, c)'
        BY <1>a, <2>1, <2>4, <4>1, <4>4 DEF ClosedBy
      <4> QED
        BY <2>1, <3>2, <4>3, <4>5
    <3> QED
      BY <3>3, <3>4
  <2> QED
    BY <1>4, <2>3, <2>4, AfterChangesets
<1>5. CASE UNCHANGED <<mapper, feeds>> /\ MonitorChanges
  <2>1. changesetFeed' = changesetFeed /\ changeFeed' = changeFeed
        /\ changesetPos' = changesetPos
    BY <1>5 DEF feeds, MonitorChanges
  <2>2. changePos' = changePos + 1 /\ changePos + 1 \in 1 .. Len(changeFeed)
    BY <1>5, AfterFeatures
  <2>3. CASE Says(changePos + 1, c)
    <3>1. table'[c].stored /\ table'[c].closed_at = "object"
      BY <1>5, <1>r, <2>3, AfterFeatures, FeaturesRow
    <3>2. \E i \in 1 .. Len(changeFeed) : Says(i, c)'
      BY <1>a, <2>2, <2>3
    <3> QED
      BY <2>1, <3>1, <3>2
  <2>4. CASE ~Says(changePos + 1, c)
    <3>1. table'[c] = table[c]
      BY <1>5, <2>4, AfterFeatures
    <3>2. B(c)'
      BY <1>0, <1>a, <2>1, <2>2, <2>4, <3>1, FilesStay
    <3> QED
      BY <1>1, <2>1, <3>1, <3>2, FilesStay
  <2> QED
    BY <2>3, <2>4
<1> QED
  BY <1>2, <1>3, <1>4, <1>5, WhoChanges

-----------------------------------------------------------------------------
(* Type correctness: nothing counts for more than there is in OSM.         *)

Under(f, c) == \A kind \in Kinds : f[kind] <= world[c].features[kind]

Bounded ==
  /\ \A c \in Changesets : Under(newUploads[c], c) /\ Under(table[c].features, c)
  /\ \A c \in Changesets : table[c].meta <= world[c].meta
  /\ \A i \in 1 .. Len(changeFeed), c \in Changesets : Under(changeFeed[i][c], c)
  /\ \A i \in 1 .. Len(changesetFeed) :
       \A s \in changesetFeed[i] : s.meta <= world[s.id].meta

LEMMA InitBounded == Init => Bounded
BY DEF Init, Bounded, Under, NoUploads, NoFeatures, NoRow

LEMMA StepBounded == Typed /\ Bounded /\ [Next]_vars => Bounded'
<1> SUFFICES ASSUME Typed, Bounded, [Next]_vars PROVE Bounded'
  OBVIOUS
<1>0. /\ Typed' /\ MapperTyped /\ FeedsTyped /\ MapperTyped' /\ FeedsTyped'
      /\ table \in [Changesets -> Row] /\ table' \in [Changesets -> Row]
  BY StepTyped DEF Typed, ProgramTyped
<1>a. /\ \A c \in Changesets : /\ world[c].meta \in Nat /\ world'[c].meta \in Nat
                               /\ world[c].features \in Features
                               /\ world'[c].features \in Features
                               /\ newUploads[c] \in Features
      /\ \A f \in Features, kind \in Kinds : f[kind] \in Nat
      /\ \A c \in Changesets : table[c].features \in Features /\ table[c].meta \in Nat
  BY <1>0 DEF MapperTyped, InOSM, Features, Row
<1>1. ASSUME NEW c \in Changesets, NEW f \in Features, Under(f, c)
      PROVE  \A kind \in Kinds : f[kind] <= world'[c].features[kind]
  <2> SUFFICES ASSUME NEW kind \in Kinds PROVE f[kind] <= world'[c].features[kind]
    OBVIOUS
  <2>1. f[kind] <= world[c].features[kind]
        /\ world[c].features[kind] <= world'[c].features[kind]
    BY <1>0, <1>1, MapperKeeps DEF Under
  <2>2. f[kind] \in Nat /\ world[c].features[kind] \in Nat /\ world'[c].features[kind] \in Nat
    BY <1>a
  <2> QED
    BY <2>1, <2>2
<1>2. ASSUME NEW c \in Changesets, NEW m \in Nat, m <= world[c].meta
      PROVE  m <= world'[c].meta
  <2>1. world[c].meta <= world'[c].meta
    BY <1>0, MapperKeeps
  <2> QED
    BY <1>a, <1>2, <2>1
<1>3. \A c \in Changesets : Under(newUploads[c], c)'
  BY <1>0, MapperKeeps DEF Bounded, Under
<1>4. ASSUME NEW i \in 1 .. Len(changeFeed'), NEW c \in Changesets
      PROVE  Under(changeFeed[i][c], c)'
  <2>1. CASE i \in 1 .. Len(changeFeed)
    <3>1. changeFeed'[i] = changeFeed[i] /\ changeFeed[i][c] \in Features
      BY <1>0, <2>1, FilesStay DEF FeedsTyped
    <3> QED
      BY <1>1, <2>1, <3>1 DEF Bounded, Under
  <2>2. CASE i \notin 1 .. Len(changeFeed)
    <3>1. PublishChanges
      <4>1. ~PublishChanges => changeFeed' = changeFeed
        BY DEF Next, vars, feeds, OpenChangeset, CloseChangeset, EditChangeset, Upload,
               PublishChangesets, MonitorChangesets, MonitorChanges, Restart
      <4> QED
        BY <2>2, <4>1
    <3>2. changeFeed' = Append(changeFeed, newUploads) /\ world' = world
      BY <3>1 DEF PublishChanges
    <3>3. changeFeed'[i] = newUploads
      BY <1>0, <2>2, <3>2 DEF FeedsTyped
    <3> QED
      BY <3>2, <3>3 DEF Bounded, Under
  <2> QED
    BY <2>1, <2>2
<1>5. ASSUME NEW i \in 1 .. Len(changesetFeed'), NEW s \in changesetFeed'[i]
      PROVE  s.meta <= world'[s.id].meta
  <2>1. CASE i \in 1 .. Len(changesetFeed)
    <3>1. s \in changesetFeed[i] /\ s \in State
      BY <1>0, <2>1, FilesStay DEF FeedsTyped
    <3>2. s.id \in Changesets /\ s.meta \in Nat /\ s.meta <= world[s.id].meta
      BY <2>1, <3>1 DEF Bounded, State
    <3> QED
      BY <1>2, <3>2
  <2>2. CASE i \notin 1 .. Len(changesetFeed)
    <3>1. PublishChangesets
      <4>1. ~PublishChangesets => changesetFeed' = changesetFeed
        BY DEF Next, vars, feeds, OpenChangeset, CloseChangeset, EditChangeset, Upload,
               PublishChanges, MonitorChangesets, MonitorChanges, Restart
      <4> QED
        BY <2>2, <4>1
    <3> DEFINE file == {StateOf(c) : c \in newStates}
    <3>2. changesetFeed' = Append(changesetFeed, file) /\ world' = world
      BY <3>1 DEF PublishChangesets
    <3>3. \A t \in file : t.meta = world[t.id].meta /\ t.id \in Changesets
      BY <1>0 DEF StateOf, MapperTyped
    <3> HIDE DEF file
    <3>4. changesetFeed'[i] = file
      BY <1>0, <2>2, <3>2 DEF FeedsTyped
    <3> QED
      BY <1>a, <3>2, <3>3, <3>4
  <2> QED
    BY <2>1, <2>2
<1>6. ASSUME NEW c \in Changesets
      PROVE  Under(table[c].features, c)' /\ table'[c].meta <= world'[c].meta
  <2>1. Under(table[c].features, c) /\ table[c].meta <= world[c].meta
    BY DEF Bounded
  <2>2. ASSUME table'[c].features = table[c].features
        PROVE  Under(table[c].features, c)'
    BY <1>a, <1>1, <2>1, <2>2 DEF Under
  <2>3. ASSUME table'[c].meta = table[c].meta
        PROVE  table'[c].meta <= world'[c].meta
    BY <1>a, <1>2, <2>1, <2>3
  <2>4. CASE UNCHANGED program \/ Restart
    BY <2>2, <2>3, <2>4 DEF program, Restart
  <2>r. table[c] \in Row /\ (~table[c].stored => table[c] = NoRow)
    BY DEF Typed, ProgramTyped
  <2>5. CASE MonitorChangesets
    <3>1. CASE table'[c] = table[c]
      BY <2>2, <2>3, <3>1
    <3>2. ASSUME NEW s \in changesetFeed[changesetPos + 1],
                 s \in State, s.id = c, table'[c] = StoreChangeset(table[c], s)
          PROVE  Under(table[c].features, c)' /\ table'[c].meta <= world'[c].meta
      <4>1. table'[c].features = table[c].features /\ table'[c].meta = s.meta
        BY <2>r, <3>2, ChangesetRow
      <4>2. s.meta \in Nat /\ s.meta <= world[c].meta
        BY <2>5, <3>2, AfterChangesets DEF Bounded, State
      <4> QED
        BY <1>2, <2>2, <4>1, <4>2
    <3> QED
      BY <2>5, <3>1, <3>2, AfterChangesets
  <2>6. CASE MonitorChanges
    <3>1. CASE ~Says(changePos + 1, c)
      BY <2>2, <2>3, <2>6, <3>1, AfterFeatures
    <3>2. CASE Says(changePos + 1, c)
      <4> DEFINE f == changeFeed[changePos + 1][c]
      <4>1. f \in Features /\ table'[c] = StoreFeatures(table[c], f)
            /\ changePos + 1 \in 1 .. Len(changeFeed)
        BY <2>6, <3>2, AfterFeatures
      <4>2. Under(f, c)
        BY <4>1 DEF Bounded
      <4> HIDE DEF f
      <4>3. table'[c].features = f /\ table'[c].meta = table[c].meta
        BY <2>r, <4>1, FeaturesRow
      <4> QED
        BY <1>1, <2>3, <4>1, <4>2, <4>3 DEF Under
    <3> QED
      BY <3>1, <3>2
  <2> QED
    BY <2>4, <2>5, <2>6, WhoChanges
<1> QED
  BY <1>3, <1>4, <1>5, <1>6 DEF Bounded

-----------------------------------------------------------------------------
(* The theorems.                                                           *)

LEMMA LastIsLast ==
  ASSUME NEW files \in SUBSET Nat, NEW i \in files, \A j \in files : j <= i
  PROVE  LastOf(files) = i
<1>1. \A n \in files : (\A j \in files : j <= n) => n = i
  OBVIOUS
<1> QED
  BY <1>1 DEF LastOf

\* Nothing is stored or counted that is not in OSM, and positions stay in the feeds.
THEOREM TypeCorrect == Spec => []TypeOK
<1>1. ASSUME Typed, Bounded PROVE TypeOK
  <2>1. ASSUME NEW c \in Changesets
        PROVE  /\ table[c].meta \in 0 .. world[c].meta
               /\ table[c].closed_at \in Times
               /\ \A kind \in Kinds : table[c].features[kind] \in 0 .. world[c].features[kind]
    <3>1. table[c] \in Row /\ world[c] \in InOSM
      BY <1>1 DEF Typed, ProgramTyped, MapperTyped
    <3>2. /\ table[c].meta \in Nat /\ world[c].meta \in Nat /\ table[c].closed_at \in Times
          /\ table[c].features \in Features /\ world[c].features \in Features
      BY <3>1 DEF Row, InOSM
    <3> QED
      BY <1>1, <3>2 DEF Bounded, Under, Features
  <2> QED
    BY <1>1, <2>1 DEF TypeOK, Typed, ProgramTyped, Times
<1> QED
  BY <1>1, InitTyped, StepTyped, InitBounded, StepBounded, PTL DEF Spec

\* The meta of a changeset is that of the last file that speaks of it, whatever the
\* OsmChange monitor writes to its row and however often files are applied again.
THEOREM MetaTheorem == Spec => []MetaInStep
<1>1. ASSUME Typed, MetaInv PROVE MetaInStep
  <2> SUFFICES ASSUME changesetPos = Len(changesetFeed), NEW c \in Changesets,
                      ChangesetFiles(c, changesetPos) # {}
               PROVE  \E s \in changesetFeed[LastOf(ChangesetFiles(c, changesetPos))] :
                        s.id = c /\ table[c].stored /\ table[c].meta = s.meta
    BY DEF MetaInStep
  <2> DEFINE files == ChangesetFiles(c, changesetPos)
  <2>1. \A j : j \in files <=> j \in 1 .. changesetPos /\ Speaks(j, c)
    BY DEF ChangesetFiles, Speaks
  <2>2. changesetPos \in Nat
    BY <1>1 DEF Typed, ProgramTyped, FeedsTyped
  <2> HIDE DEF files
  <2>3. PICK k \in 1 .. changesetPos : Speaks(k, c)
    BY <2>1 DEF files
  <2>4. PICK i \in k .. Len(changesetFeed) :
          MetaFrom(i, c) /\ \A j \in 1 .. changesetPos : Speaks(j, c) => j <= i
    BY <1>1, <2>3 DEF MetaInv
  <2>5. i \in files
    BY <2>1, <2>2, <2>3, <2>4 DEF MetaFrom, Speaks
  <2>6. LastOf(files) = i
    <3>1. files \in SUBSET Nat
      BY <2>1, <2>2
    <3> QED
      BY <2>1, <2>4, <2>5, <3>1, LastIsLast
  <2> QED
    BY <2>4, <2>6 DEF MetaFrom, files
<1> QED
  BY <1>1, InitTyped, StepTyped, InitRows, StepMeta, PTL DEF Spec

\* The features of a changeset are those of the last change file with a part of it.
THEOREM FeaturesTheorem == Spec => []FeaturesOfLastFile
<1>1. ASSUME Typed, FeaturesInv PROVE FeaturesOfLastFile
  <2> SUFFICES ASSUME changePos = Len(changeFeed), NEW c \in Changesets
               PROVE  LET files == ChangeFiles(c, changePos)
                      IN  table[c].features
                            = IF files = {} THEN NoFeatures ELSE changeFeed[LastOf(files)][c]
    BY DEF FeaturesOfLastFile
  <2> DEFINE files == ChangeFiles(c, changePos)
  <2>1. \A j : j \in files <=> j \in 1 .. changePos /\ Says(j, c)
    BY DEF ChangeFiles, Says
  <2>2. changePos \in Nat
    BY <1>1 DEF Typed, ProgramTyped, FeedsTyped
  <2> HIDE DEF files
  <2>3. CASE files = {}
    BY <1>1, <2>1, <2>3 DEF FeaturesInv, files
  <2>4. CASE files # {}
    <3>1. PICK i \in 1 .. Len(changeFeed) :
            /\ Says(i, c) /\ table[c].features = changeFeed[i][c]
            /\ \A k \in 1 .. changePos : Says(k, c) => k <= i
      BY <1>1, <2>1, <2>4 DEF FeaturesInv
    <3>2. i \in files /\ files \in SUBSET Nat /\ \A j \in files : j <= i
      BY <2>1, <2>2, <3>1
    <3>3. LastOf(files) = i
      BY <3>2, LastIsLast
    <3> QED
      BY <2>4, <3>1, <3>3 DEF files
  <2> QED
    BY <2>3, <2>4
<1> QED
  BY <1>1, InitTyped, StepTyped, InitRows, StepFeatures, PTL DEF Spec

\* closed_at is that of an object of a change file, or that of the first state.
THEOREM ClosedTheorem == Spec => []ClosedAt
<1>1. ASSUME Typed, ClosedInv PROVE ClosedAt
  <2> DEFINE First(states) == CHOOSE i \in states : \A j \in states : i <= j
  <2> SUFFICES ASSUME changesetPos = Len(changesetFeed), changePos = Len(changeFeed),
                      NEW c \in Changesets
               PROVE  LET states == ChangesetFiles(c, changesetPos)
                      IN  IF ChangeFiles(c, changePos) # {} THEN table[c].closed_at = "object"
                          ELSE states # {} =>
                            \E s \in changesetFeed[First(states)] :
                              s.id = c /\ table[c].closed_at =
                                            IF s.open THEN "created" ELSE "closed"
    BY DEF ClosedAt
  <2> DEFINE states == ChangesetFiles(c, changesetPos)
  <2>1. \A j : j \in states <=> j \in 1 .. changesetPos /\ Speaks(j, c)
    BY DEF ChangesetFiles, Speaks
  <2>2. \A j : j \in ChangeFiles(c, changePos) <=> j \in 1 .. changePos /\ Says(j, c)
    BY DEF ChangeFiles, Says
  <2>3. CASE ChangeFiles(c, changePos) # {}
    BY <1>1, <2>2, <2>3 DEF ClosedInv
  <2>4. CASE ChangeFiles(c, changePos) = {} /\ states # {}
    <3> HIDE DEF states
    <3>1. table[c].stored /\ table[c].closed_at # "object"
      BY <1>1, <2>1, <2>2, <2>4 DEF ClosedInv
    <3>2. PICK i \in 1 .. Len(changesetFeed) : ClosedBy(i, c)
      BY <1>1, <3>1 DEF ClosedInv
    <3>3. i \in states /\ \A j \in states : i <= j /\ j \in Nat
      BY <2>1, <3>2 DEF ClosedBy, Speaks
    <3>4. \A n \in states : (\A j \in states : n <= j) => n = i
      BY <3>3
    <3>5. First(states) = i
      BY <3>3, <3>4
    <3> QED
      BY <2>4, <3>2, <3>5 DEF ClosedBy, states
  <2> QED
    BY <2>3, <2>4
<1> QED
  BY <1>1, InitTyped, StepTyped, InitClosed, StepClosed, PTL DEF Spec
=============================================================================
