----------------------------- MODULE Validation -----------------------------
(***************************************************************************)
(* The table of validation: what the checks have to say of the tags and    *)
(* the shape of nodes and ways.  The bootstrap fills it once; after that   *)
(* each worker of a round checks the objects its file changes, and the     *)
(* ways whose nodes it moves, and makes statements that insert, renew and  *)
(* delete rows.  A row is known by identifier, status and source: the      *)
(* identifiers of nodes and ways are not told apart, and source is empty   *)
(* for a node.                                                             *)
(*                                                                         *)
(* A tag is a key and a value.  The priority area is the whole world, and  *)
(* the tables of raw data are kept: a way is closed, and its tags and      *)
(* version are read from them when only its nodes move.                    *)
(***************************************************************************)
EXTENDS Integers, SequencesExt

CONSTANTS
  NodeIds, WayIds,  \* identifiers: they may be the same
  NodeTags, WayTags,  \* the tags a node, a way may have
  BadTags,          \* tags with an empty value, or a key with a space, a quote or
                    \* an underscore in front
  BuildingTests,    \* what config/validate/building.yaml asks for
  FilesAtOnce,      \* files of a round
  MaxFiles,         \* bound: files of the feed
  MaxEdits,         \* bound: edits of all files
  MaxRestarts       \* bound: restarts of the program

ASSUME RoundAssumption == FilesAtOnce \in Nat \ {0}
ASSUME BoundsAssumption ==
  MaxFiles \in Nat /\ MaxEdits \in Nat /\ MaxRestarts \in Nat

VARIABLES
  world,     \* OSM itself
  open,      \* edits of the file being made
  feed,      \* files published
  stored,    \* tags and versions of the ways, in the raw tables
  rows,      \* the table of validation: the version of each row, 0 for no row
  position,  \* files whose round was committed
  hung,      \* a worker never comes to its end
  restarts

vars == <<world, open, feed, stored, rows, position, hung, restarts>>

-----------------------------------------------------------------------------
(* The checks.                                                             *)

\* Tests of a type without a file of its own: yamls[type] makes an empty one.
NoTests ==
  [ badvalue |-> FALSE, incomplete |-> FALSE, badgeom |-> FALSE,
    valid |-> <<>>, required |-> {} ]

TestsOf(type) == IF type = "building" THEN BuildingTests ELSE NoTests

Keys(tags) == {t.key : t \in tags}

\* Semantic::checkTag.
CheckTag(t) == t \in BadTags

\* Semantic::isValidTag; a key without values in the file may have any.
IsValidTag(t, valid) ==
  t.key \in DOMAIN valid /\ (valid[t.key] = {} \/ t.value \in valid[t.key])

\* Semantic::isRequiredTag, counted.
Incomplete(tags, tests) ==
  tests.incomplete /\
    Cardinality({t \in tags : t.key \in tests.required}) # Cardinality(tests.required)

\* Semantic::checkNode, of a node that has tags: checkTag looks at each tag, whatever
\* the configuration.
CheckNode(tags, type) ==
  LET tests == TestsOf(type)
      bad == \E t \in tags :
               \/ CheckTag(t)
               \/ tests.badvalue /\ ~IsValidTag(t, tests.valid)
  IN  IF type \notin Keys(tags) THEN {}
      ELSE {s \in {"badvalue", "incomplete"} :
              (s = "badvalue" /\ bad) \/ (s = "incomplete" /\ Incomplete(tags, tests))}

\* Semantic::checkWay; an empty list of valid tags checks nothing.
CheckTagsOfWay(tags, type) ==
  LET tests == TestsOf(type)
      bad == \E t \in tags :
               \/ CheckTag(t)
               \/ tests.valid # <<>> /\ ~IsValidTag(t, tests.valid)
  IN  IF tests.badvalue /\ tags = {} THEN {"notags"}
      ELSE IF type \notin Keys(tags) THEN {}
      ELSE {s \in {"badvalue", "incomplete"} :
              \/ s = "badvalue" /\ tests.badvalue /\ bad
              \/ s = "incomplete" /\ Incomplete(tags, tests)}

\* Geospatial::checkWay: only a closed LINE is looked at.  The bootstrap makes one of
\* each polygon it reads; buildGeometries has cleared it when a change is checked.
CheckShapeOfWay(tags, type, hasLine, square) ==
  {s \in {"badgeom"} :
     type \in Keys(tags) /\ TestsOf(type).badgeom /\ hasLine /\ ~square}

\* DefaultValidation::checkWay.
CheckWay(tags, type, hasLine, square) ==
  IF tags = {} /\ TestsOf(type).badvalue THEN {"notags"}
  ELSE CheckTagsOfWay(tags, type) \cup CheckShapeOfWay(tags, type, hasLine, square)

-----------------------------------------------------------------------------
(* The table.                                                              *)

Statuses == {"notags", "incomplete", "badvalue", "badgeom"}
Sources == {"building", ""}

RowKeys == [id : NodeIds \cup WayIds, status : Statuses, source : Sources]

\* What a check says: ValidateStatus.
Check(id, source, version, status) ==
  [id |-> id, source |-> source, version |-> version, status |-> status]

\* QueryValidate::applyChange: a row there is renewed by a newer version only.
Upserted(k, version, c) ==
  IF k.status \in c.status /\ k.source = c.source /\ version < c.version
    THEN c.version ELSE version

\* The rows deleted after a check that found something: badvalue whatever the source,
\* badgeom for a way.
Deleted(k, c) ==
  /\ k.status \notin c.status
  /\ \/ k.status = "badvalue"
     \/ k.status = "badgeom" /\ k.source = "building" /\ c.source = "building"

\* Mutant of ApplyCheck: what is no longer found is not deleted.
ApplyCheckOnly(table, c) ==
  [k \in RowKeys |-> IF k.id # c.id \/ c.status = {} THEN table[k]
                     ELSE Upserted(k, table[k], c)]

\* QueryValidate::ways and nodes, one check: a clean one makes no statement.
ApplyCheck(table, c) ==
  [k \in RowKeys |-> IF k.id # c.id \/ c.status = {} THEN table[k]
                     ELSE IF Deleted(k, c) THEN 0
                     ELSE Upserted(k, table[k], c)]

\* A vector of statements, one after the other.
ApplyChecks(table, checks) ==
  LET applied[i \in 0 .. Len(checks)] ==
        IF i = 0 THEN table ELSE ApplyCheck(applied[i - 1], checks[i])
  IN  applied[Len(checks)]

\* Mutant of DeleteAll: only the rows of ways.
DeleteAllOfWays(table, ids) ==
  [k \in RowKeys |-> IF k.id \in ids /\ k.source = "building" THEN 0 ELSE table[k]]

\* QueryValidate::updateValidation(removals).
DeleteAll(table, ids) == [k \in RowKeys |-> IF k.id \in ids THEN 0 ELSE table[k]]

-----------------------------------------------------------------------------
(* threadOsmChange, the branch of the validation.                          *)

NodeTests == <<"building", "natural", "place", "waterway">>

ChecksOfNode(c) ==
  LET check(type) == Check(c.id, "", c.version, CheckNode(c.tags, type))
  IN  IF c.action = "remove" THEN <<>>
      ELSE FlattenSeq([i \in DOMAIN NodeTests |->
             IF NodeTests[i] \in Keys(c.tags) THEN <<check(NodeTests[i])>> ELSE <<>>])

\* A removed way is checked as well and is clean; a way that only moves has the
\* version and the tags of the raw tables.
CheckOfWay(c, tables) ==
  LET now == IF c.action = "move" THEN tables[c.id] ELSE c
  IN  Check(c.id, "building", now.version,
            IF c.action = "remove" THEN {} ELSE CheckWay(now.tags, "building", FALSE, TRUE))

\* The ways that move come after the changes of the file; one that the file removes,
\* or that is not in the tables, does not.
WayChecks(file, tables) ==
  LET ways == {c \in ToSet(file.changes) : c.kind = "way"}
      direct == {c \in ways : c.action # "move"}
      moved == {c \in ways \ direct :
                  /\ tables[c.id].version > 0
                  /\ \A d \in direct : ~(d.id = c.id /\ d.action = "remove")}
      checks(changes) == FlattenSeq([i \in DOMAIN file.changes |->
        LET c == file.changes[i] IN IF c \in changes THEN <<CheckOfWay(c, tables)>> ELSE <<>>])
  IN  checks(direct) \o checks(moved)

NodeChecks(file) ==
  FlattenSeq([i \in DOMAIN file.changes |->
    LET c == file.changes[i] IN IF c.kind = "node" THEN ChecksOfNode(c) ELSE <<>>])

Clean(checks) == {c.id : c \in {d \in ToSet(checks) : d.status = {}}}

Finds(checks) == \E c \in ToSet(checks) : c.status # {}

Removed(file) == {c.id : c \in {d \in ToSet(file.changes) : d.action = "remove"}}

(***************************************************************************)
(* The two loops push the statements of the checks to the end of the       *)
(* vector of statements they run along.  They do nothing when it is empty; *)
(* they end after one turn for each statement when the checks find         *)
(* nothing; else the behaviour is undefined: the loop never ends (the end  *)
(* goes away at least as fast as it comes closer), or it happens to end,   *)
(* with the same statements any number of times.                           *)
(***************************************************************************)
Validated(table, file, tables, times) ==
  LET ways == WayChecks(file, tables)
      nodes == NodeChecks(file)
      Times(checks) == FlattenSeq([i \in 1 .. times |-> checks])
      statements == Times(ways) \o Times(nodes)
  IN  IF ~file.written THEN DeleteAll(table, Removed(file))
      ELSE DeleteAll(ApplyChecks(table, statements),
                     Clean(ways \o nodes) \cup Removed(file))

\* A loop that may never end.
MayHang(file, tables) ==
  file.written /\ Finds(WayChecks(file, tables) \o NodeChecks(file))

-----------------------------------------------------------------------------
(* OSM and its feed.                                                       *)

Change(kind, id, action, version, tags) ==
  [kind |-> kind, id |-> id, action |-> action, version |-> version, tags |-> tags]

Edits == FlattenSeq([i \in DOMAIN feed |-> feed[i].changes])

Room == Len(feed) < MaxFiles /\ Len(Edits) + Len(open) < MaxEdits

program == <<stored, rows, position, hung, restarts>>

EditNode(n, tags) ==
  LET v == world.nodes[n].version + 1
  IN  /\ Room
      /\ world' = [world EXCEPT !.nodes[n] = [version |-> v, there |-> TRUE, tags |-> tags]]
      /\ open' = Append(open, Change("node", n, "modify", v, tags))
      /\ UNCHANGED <<feed, program>>

DropNode(n) ==
  LET v == world.nodes[n].version + 1
  IN  /\ Room
      /\ world.nodes[n].there
      /\ world' = [world EXCEPT !.nodes[n] = [version |-> v, there |-> FALSE, tags |-> {}]]
      /\ open' = Append(open, Change("node", n, "remove", v, {}))
      /\ UNCHANGED <<feed, program>>

EditWay(w, tags) ==
  LET v == world.ways[w].version + 1
  IN  /\ Room
      /\ world' = [world EXCEPT !.ways[w] =
                     [@ EXCEPT !.version = v, !.there = TRUE, !.tags = tags]]
      /\ open' = Append(open, Change("way", w, "modify", v, tags))
      /\ UNCHANGED <<feed, program>>

DropWay(w) ==
  LET v == world.ways[w].version + 1
  IN  /\ Room
      /\ world.ways[w].there
      /\ world' = [world EXCEPT !.ways[w] =
                     [@ EXCEPT !.version = v, !.there = FALSE, !.tags = {}]]
      /\ open' = Append(open, Change("way", w, "remove", v, {}))
      /\ UNCHANGED <<feed, program>>

\* The nodes of a way move, which may change its shape.
MoveWay(w) ==
  /\ Room
  /\ world.ways[w].there
  /\ \E square \in BOOLEAN : world' = [world EXCEPT !.ways[w].square = square]
  /\ open' = Append(open, Change("way", w, "move", 0, {}))
  /\ UNCHANGED <<feed, program>>

\* written: the file makes statements for the raw tables or the statistics.  A node
\* and a remove always do; a way does not when its geometry cannot be built.
Publish ==
  /\ open # <<>>
  /\ \E written \in BOOLEAN :
       /\ \/ written
          \/ \A c \in ToSet(open) : c.kind = "way" /\ c.action = "modify"
       /\ feed' = Append(feed, [changes |-> open, written |-> written])
  /\ open' = <<>>
  /\ UNCHANGED <<world, program>>

-----------------------------------------------------------------------------
(* The program.                                                            *)

\* The raw tables after a file: RawStore says when a way is stored.
StoredAfter(tables, file) ==
  LET store(t, c) ==
        IF c.kind # "way" \/ c.action = "move" THEN t
        ELSE IF c.action = "remove" THEN [t EXCEPT ![c.id] = [version |-> 0, tags |-> {}]]
        ELSE IF t[c.id].version <= c.version
          THEN [t EXCEPT ![c.id] = [version |-> c.version, tags |-> c.tags]]
        ELSE t
      after[i \in 0 .. Len(file.changes)] ==
        IF i = 0 THEN tables ELSE store(after[i - 1], file.changes[i])
  IN  after[Len(file.changes)]

\* The first k files after the position, validated against the raw tables as they were
\* before the round, and stored.
ValidatedUpTo(k, times) ==
  LET after[i \in 0 .. k] ==
        IF i = 0 THEN rows ELSE Validated(after[i - 1], feed[position + i], stored, times)
  IN  after[k]

StoredUpTo(k) ==
  LET after[i \in 0 .. k] ==
        IF i = 0 THEN stored ELSE StoredAfter(after[i - 1], feed[position + i])
  IN  after[k]

\* A round: each worker has read the raw tables as they were before it.
Round(k) ==
  /\ ~hung
  /\ position + k <= Len(feed)
  /\ \E times \in 1 .. 2 : rows' = ValidatedUpTo(k, times)
  /\ stored' = StoredUpTo(k)
  /\ position' = position + k
  /\ UNCHANGED <<world, open, feed, hung, restarts>>

\* One of the workers never ends, and the round with it.
Hang(k) ==
  /\ ~hung
  /\ position + k <= Len(feed)
  /\ \E i \in 1 .. k : MayHang(feed[position + i], stored)
  /\ hung' = TRUE
  /\ UNCHANGED <<world, open, feed, stored, rows, position, restarts>>

\* The program is started again, on the file it was at or an earlier one.
Restart ==
  /\ restarts < MaxRestarts
  /\ restarts' = restarts + 1
  /\ \E p \in 0 .. position : position' = p
  /\ hung' = FALSE
  /\ UNCHANGED <<world, open, feed, stored, rows>>

-----------------------------------------------------------------------------
\* The rows of the bootstrap: every way, then every node.
Bootstrapped(w) ==
  LET wayCheck(i) == Check(i, "building", w.ways[i].version,
                           CheckWay(w.ways[i].tags, "building", TRUE, w.ways[i].square))
      checked(k) ==
        IF k.source = "building"
          THEN /\ k.id \in WayIds /\ w.ways[k.id].there
               /\ k.status \in wayCheck(k.id).status
          ELSE /\ k.id \in NodeIds /\ w.nodes[k.id].there
               /\ \E type \in ToSet(NodeTests) : k.status \in CheckNode(w.nodes[k.id].tags, type)
  IN  [k \in RowKeys |-> IF checked(k) THEN 1 ELSE 0]

\* Nothing is there, or everything is, with the same tags.
Init ==
  /\ \E there, square \in BOOLEAN, tags \in NodeTags \cap WayTags :
       LET v == IF there THEN 1 ELSE 0
           t == IF there THEN tags ELSE {}
       IN  world =
             [ nodes |-> [n \in NodeIds |-> [version |-> v, there |-> there, tags |-> t]],
               ways |-> [w \in WayIds |->
                 [version |-> v, there |-> there, tags |-> t, square |-> square]] ]
  /\ open = <<>> /\ feed = <<>> /\ position = 0 /\ hung = FALSE /\ restarts = 0
  /\ stored = [w \in WayIds |-> [version |-> world.ways[w].version, tags |-> world.ways[w].tags]]
  /\ rows = Bootstrapped(world)

Next ==
  \/ \E n \in NodeIds : DropNode(n) \/ \E tags \in NodeTags : EditNode(n, tags)
  \/ \E w \in WayIds : DropWay(w) \/ MoveWay(w) \/ \E tags \in WayTags : EditWay(w, tags)
  \/ Publish
  \/ \E k \in 1 .. FilesAtOnce : Round(k) \/ Hang(k)
  \/ Restart

Spec == Init /\ [][Next]_vars

-----------------------------------------------------------------------------
\* The program has taken every edit there is.
InStep == ~hung /\ open = <<>> /\ position = Len(feed)

\* The changes of an object in the feed.
Changes(kind, id) == {c \in ToSet(Edits) : c.kind = kind /\ c.id = id}

\* What may part the rows of an object from the object, for good: a file whose changes
\* made no statement was not validated; a node and a way of the same identifier delete
\* each other's rows; a file holds two versions of the object, and the clean one
\* deletes the rows of the other.
NotValidated == \E i \in DOMAIN feed : ~feed[i].written

Twice(kind, id) ==
  \E i \in DOMAIN feed : \E j, k \in DOMAIN feed[i].changes :
    /\ j # k
    /\ feed[i].changes[j].kind = kind /\ feed[i].changes[j].id = id
    /\ feed[i].changes[k].kind = kind /\ feed[i].changes[k].id = id

Untouched(kind, id) == Changes(kind, id) = {}

RowsOf(id, source) ==
  {k.status : k \in {x \in RowKeys : x.id = id /\ x.source = source /\ rows[x] > 0}}

\* Every way OSM has is listed with what its tags are found to be, at its version, and
\* nothing else but a lack of tags it has overcome; a way without findings, or no longer
\* there, has no row at all.  This holds in rounds of several files, after restarts,
\* and however often the statements of a file are repeated, but for the causes above
\* and a way that is edited while its nodes move, which may be checked with the tags it
\* had.  badgeom is what the bootstrap has found, until the first change of the way.
MovedAndEdited(w) ==
  /\ \E c \in Changes("way", w) : c.action = "move"
  /\ \E c \in Changes("way", w) : c.action # "move"

WaysAgree ==
  InStep /\ ~NotValidated =>
    \A w \in WayIds :
      ~Untouched("node", w) \/ Twice("way", w) \/ MovedAndEdited(w) \/
      LET way == world.ways[w]
          found == IF way.there THEN CheckWay(way.tags, "building", FALSE, TRUE) ELSE {}
          listed == RowsOf(w, "building")
      IN  IF Untouched("way", w)
            THEN listed = IF way.there THEN CheckWay(way.tags, "building", TRUE, way.square)
                          ELSE {}
          ELSE /\ found \subseteq listed
               /\ listed \subseteq found \cup {"incomplete", "notags"}
               /\ found = {} => listed = {}
               /\ \A k \in RowKeys :
                    k.id = w /\ k.source = "building" /\ k.status \in found =>
                      rows[k] = way.version

\* A node is listed with what the check of each of its keys finds, unless one of them
\* finds nothing: then it has no row.  A node that loses all keys that are checked
\* keeps its rows, until it is deleted.
NodesAgree ==
  InStep /\ ~NotValidated =>
    \A n \in NodeIds :
      ~Untouched("way", n) \/ Untouched("node", n) \/ Twice("node", n) \/
      LET node == world.nodes[n]
          types == Keys(node.tags) \cap ToSet(NodeTests)
          found == {CheckNode(node.tags, type) : type \in types}
          listed == RowsOf(n, "")
      IN  IF ~node.there \/ {} \in found THEN listed = {}
          ELSE types # {} =>
            /\ UNION found \subseteq listed
            /\ listed \subseteq (UNION found) \cup {"incomplete"}
            /\ \A k \in RowKeys :
                 k.id = n /\ k.source = "" /\ k.status \in UNION found =>
                   rows[k] = node.version
=============================================================================
