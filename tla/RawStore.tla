------------------------------ MODULE RawStore ------------------------------
(***************************************************************************)
(* The raw OSM tables: nodes, ways_poly and ways_line.  The workers of a   *)
(* round each take a file, complete the geometry of its ways from the      *)
(* tables AS THEY ARE BEFORE THE ROUND (QueryRaw::buildGeometries), and    *)
(* turn its changes into statements (QueryRaw::applyChange); the monitor   *)
(* then runs the statements of all of them, in order, in one transaction.  *)
(*                                                                         *)
(* The priority area is the whole world (poly is empty).  A location is a  *)
(* value of Locs, a geometry the sequence of the locations of its points,  *)
(* and a row that is not there has version 0 (OSM versions start at 1).    *)
(***************************************************************************)
EXTENDS Integers, SequencesExt

CONSTANTS
  Nodes, Ways,   \* identifiers
  Locs, NoLoc,   \* locations of nodes, and none
  Refs,          \* reference lists mappers give to ways
  FilesAtOnce,   \* files of a round: 2*concurrency, 1 once caught up
  RefsOnDelete,  \* what a <delete> lists of a way's references: a subset of
                 \* {"none", "all"}; the test data has both
  MaxFiles,      \* bound: files of the feed
  MaxEdits,      \* bound: edits of a file
  MaxRestarts    \* bound: restarts of the program

ASSUME EntitiesAssumption == IsFiniteSet(Nodes) /\ IsFiniteSet(Ways)
ASSUME RefsAssumption == Refs \subseteq Seq(Nodes) \ {<<>>}
ASSUME LocsAssumption == Locs # {} /\ NoLoc \notin Locs
ASSUME RoundAssumption == FilesAtOnce \in Nat \ {0}
ASSUME DeleteAssumption == RefsOnDelete \subseteq {"none", "all"}
ASSUME BoundsAssumption ==
  MaxFiles \in Nat /\ MaxEdits \in Nat /\ MaxRestarts \in Nat

VARIABLES
  world,     \* OSM itself: its nodes and ways
  open,      \* edits of the file being made: its nodes, its ways
  feed,      \* files published
  osm,       \* the tables, as committed
  position,  \* files whose round was committed
  taken,     \* files of the running round
  batch,     \* statements of the round still to run, change by change
  txn,       \* the tables as the running transaction sees them
  restarts

program == <<osm, position, taken, batch, txn, restarts>>
vars == <<world, open, feed, osm, position, taken, batch, txn, restarts>>

Tables == {"ways_poly", "ways_line"}
Other(table) == CHOOSE t \in Tables : t # table

NoNode == [version |-> 0, loc |-> NoLoc]
NoWay == [version |-> 0, refs |-> <<>>, geom |-> <<>>]

-----------------------------------------------------------------------------
(* Changes, as OsmChangeFile::readXML makes them.                          *)

NodeChange(n, action, version, loc) ==
  [kind |-> "node", id |-> n, action |-> action, version |-> version, loc |-> loc]

WayChange(w, action, version, refs) ==
  [kind |-> "way", id |-> w, action |-> action, version |-> version, refs |-> refs]

\* OsmWay::isClosed, which also chooses the table.
Closed(refs) == Len(refs) > 3 /\ refs[1] = Last(refs)

TableOf(refs) == IF Closed(refs) THEN "ways_poly" ELSE "ways_line"

-----------------------------------------------------------------------------
(* QueryRaw::buildGeometries, for one file, on the tables db.              *)

Of(file, kind, actions) ==
  {c \in ToSet(file) : c.kind = kind /\ c.action \in actions}

\* nodecache as the parser leaves it: the last location the file gives a node
\* (a deleted node has none).
NodeCache(file) ==
  LET given == Of(file, "node", {"create", "modify"})
      last(n) == CHOOSE c \in given :
                   c.id = n /\ \A d \in given : d.id = n => d.version <= c.version
  IN  [n \in {c.id : c \in given} |-> last(n).loc]

\* getWaysByNodesRefs: the ways that refer to ALL of the nodes (refs @> '{...}');
\* the lines are not looked up when no polygon is found.
WaysByNodesRefs(db, nodes) ==
  LET found(table) == {w \in Ways : /\ db.ways[table][w].version > 0
                                    /\ nodes \subseteq ToSet(db.ways[table][w].refs)}
      change(table, w) == WayChange(w, "modify_geom", db.ways[table][w].version,
                                    db.ways[table][w].refs)
  IN  IF found("ways_poly") = {} THEN {}
      ELSE UNION {{change(table, w) : w \in found(table)} : table \in Tables}

\* The change appended for the ways a modified node moves.
Indirect(file, db) ==
  LET modified == {c.id : c \in Of(file, "node", {"modify"})}
      removed == {c.id : c \in Of(file, "way", {"remove"})}
  IN  IF modified = {} THEN <<>>
      ELSE SetToSeq({c \in WaysByNodesRefs(db, modified) : c.id \notin removed})

\* Nodes whose location has to come from the tables.
Referenced(file, db) ==
  (UNION {ToSet(c.refs) : c \in Of(file, "way", {"create", "modify"})
                                \cup ToSet(Indirect(file, db))})
    \ DOMAIN NodeCache(file)

Found(file, db) == {n \in Referenced(file, db) : db.nodes[n].version > 0}

\* Early return: none of the nodes asked for is in the table.
GaveUp(file, db) == Referenced(file, db) # {} /\ Found(file, db) = {}

\* nodecache when the geometries are built.
KnownNodes(file, db) ==
  LET cache == NodeCache(file)
  IN  [n \in DOMAIN cache \cup Found(file, db) |->
         IF n \in DOMAIN cache THEN cache[n] ELSE db.nodes[n].loc]

(***************************************************************************)
(* A way is only written when its geometry has as many points as it has    *)
(* references: every node known, and not a ring too short to be closed.    *)
(***************************************************************************)
Complete(refs, known) ==
  /\ refs # <<>>
  /\ ToSet(refs) \subseteq DOMAIN known
  /\ Closed(refs) \/ refs[1] # Last(refs)

Geometry(refs, known) == [i \in DOMAIN refs |-> known[refs[i]]]

IsWritten(c, known, gaveUp) ==
  \/ c.kind = "node"
  \/ c.action = "remove"
  \/ ~gaveUp /\ Complete(c.refs, known)

Statement(c, known) ==
  [ c |-> c,
    geom |-> IF c.kind = "way" /\ c.action # "remove" THEN Geometry(c.refs, known) ELSE <<>> ]

\* The statements of a file: one change after the other, then the ways changed
\* indirectly; a way that cannot be completed has none.
Statements(file, db) ==
  LET known == KnownNodes(file, db)
      gaveUp == GaveUp(file, db)
      all == file \o Indirect(file, db)
      sofar[i \in 0 .. Len(all)] ==
        IF i = 0 THEN <<>>
        ELSE IF IsWritten(all[i], known, gaveUp)
          THEN Append(sofar[i - 1], Statement(all[i], known))
          ELSE sofar[i - 1]
  IN  sofar[Len(all)]

-----------------------------------------------------------------------------
(* QueryRaw::applyChange, as the database runs it.                         *)

\* applyChange(OsmNode), create and modify.
StoreNode(db, c) ==
  IF db.nodes[c.id].version < c.version
    THEN [db EXCEPT !.nodes[c.id] = [version |-> c.version, loc |-> c.loc]]
    ELSE db

RemoveNode(db, c) == [db EXCEPT !.nodes[c.id] = NoNode]

\* Mutant of StoreWay: every way is written to the lines.
StoreWayIntoLines(db, c, geom) ==
  [db EXCEPT !.ways["ways_line"][c.id] =
     [version |-> c.version, refs |-> c.refs, geom |-> geom]]

\* Mutant of StoreWay: the two names of the DELETE are swapped.
StoreWayDropsOwn(db, c, geom) ==
  [db EXCEPT !.ways[TableOf(c.refs)][c.id] = NoWay]

\* Mutant of StoreWay: the row of the other table is left.
StoreWayKeepsOther(db, c, geom) ==
  LET table == TableOf(c.refs)
      row == [version |-> c.version, refs |-> c.refs, geom |-> geom]
  IN  [db EXCEPT !.ways[table][c.id] = IF @.version <= c.version THEN row ELSE @]

\* applyChange(OsmWay), create and modify: upsert into the table of its shape,
\* and delete from the other one (whether or not the upsert found a newer row).
StoreWay(db, c, geom) ==
  LET table == TableOf(c.refs)
      row == [version |-> c.version, refs |-> c.refs, geom |-> geom]
  IN  [db EXCEPT !.ways[table][c.id] = IF @.version <= c.version THEN row ELSE @,
                 !.ways[Other(table)][c.id] = NoWay]

\* applyChange(OsmWay), modify_geom: update the geometry in the table of the
\* shape the references had when they were read, and delete from the other.
MoveWay(db, c, geom) ==
  LET table == TableOf(c.refs)
  IN  [db EXCEPT !.ways[table][c.id] =
                   IF @.version > 0 THEN [@ EXCEPT !.geom = geom] ELSE @,
                 !.ways[Other(table)][c.id] = NoWay]

\* applyChange(OsmWay), remove: from the table of the references of the change.
RemoveWay(db, c) == [db EXCEPT !.ways[TableOf(c.refs)][c.id] = NoWay]

Apply(db, s) ==
  CASE s.c.kind = "node" /\ s.c.action # "remove" -> StoreNode(db, s.c)
    [] s.c.kind = "node" /\ s.c.action = "remove" -> RemoveNode(db, s.c)
    [] s.c.kind = "way" /\ s.c.action = "remove" -> RemoveWay(db, s.c)
    [] s.c.kind = "way" /\ s.c.action = "modify_geom" -> MoveWay(db, s.c, s.geom)
    [] OTHER -> StoreWay(db, s.c, s.geom)

-----------------------------------------------------------------------------
(* OSM and its feed.                                                       *)

NothingOpen == \A kind \in DOMAIN open : open[kind] = <<>>

EditsOpen == FoldFunction(LAMBDA edits, n : n + Len(edits), 0, open)

Room == Len(feed) < MaxFiles /\ EditsOpen < MaxEdits

Action(version) == IF version = 0 THEN "create" ELSE "modify"

EditNode(n, loc) ==
  LET v == world.nodes[n].version
  IN  /\ Room
      /\ world' = [world EXCEPT !.nodes[n] =
                     [version |-> v + 1, there |-> TRUE, loc |-> loc]]
      /\ open' = [open EXCEPT !.nodes = Append(@, NodeChange(n, Action(v), v + 1, loc))]
      /\ UNCHANGED <<feed, program>>

DropNode(n) ==
  LET v == world.nodes[n].version
  IN  /\ Room
      /\ world.nodes[n].there
      /\ \A w \in Ways : world.ways[w].there => n \notin ToSet(world.ways[w].refs)
      /\ world' = [world EXCEPT !.nodes[n] = [version |-> v + 1, there |-> FALSE, loc |-> @.loc]]
      /\ open' = [open EXCEPT !.nodes = Append(@, NodeChange(n, "remove", v + 1, NoLoc))]
      /\ UNCHANGED <<feed, program>>

EditWay(w, refs) ==
  LET v == world.ways[w].version
  IN  /\ Room
      /\ \A n \in ToSet(refs) : world.nodes[n].there
      /\ world' = [world EXCEPT !.ways[w] =
                     [version |-> v + 1, there |-> TRUE, refs |-> refs]]
      /\ open' = [open EXCEPT !.ways = Append(@, WayChange(w, Action(v), v + 1, refs))]
      /\ UNCHANGED <<feed, program>>

DropWay(w) ==
  LET v == world.ways[w].version
  IN  /\ Room
      /\ world.ways[w].there
      /\ world' = [world EXCEPT !.ways[w] = [version |-> v + 1, there |-> FALSE, refs |-> @.refs]]
      /\ \E listed \in RefsOnDelete :
           open' = [open EXCEPT !.ways = Append(@, WayChange(w, "remove", v + 1,
                      IF listed = "all" THEN world.ways[w].refs ELSE <<>>))]
      /\ UNCHANGED <<feed, program>>

\* A replication file lists its nodes before its ways.
Publish ==
  /\ ~NothingOpen
  /\ feed' = Append(feed, open.nodes \o open.ways)
  /\ open' = [nodes |-> <<>>, ways |-> <<>>]
  /\ UNCHANGED <<world, program>>

-----------------------------------------------------------------------------
(* The program.                                                            *)

\* Between rounds.
Idle == taken = 0

\* Mutant of Workers: every worker's statements are put before those of the
\* files that come earlier.
WorkersReversed(k) ==
  FlattenSeq([i \in 1 .. k |-> Statements(feed[position + k + 1 - i], osm)])

\* The statements of the k workers of a round: each has read the tables before
\* any statement of the round runs.
Workers(k) == FlattenSeq([i \in 1 .. k |-> Statements(feed[position + i], osm)])

BeginRound(k) ==
  /\ Idle
  /\ position + k <= Len(feed)
  /\ taken' = k
  /\ batch' = Workers(k)
  /\ UNCHANGED <<world, open, feed, osm, position, txn, restarts>>

Exec ==
  /\ batch # <<>>
  /\ txn' = Apply(txn, Head(batch))
  /\ batch' = Tail(batch)
  /\ UNCHANGED <<world, open, feed, osm, position, taken, restarts>>

Commit ==
  /\ ~Idle
  /\ batch = <<>>
  /\ osm' = txn
  /\ position' = position + taken
  /\ taken' = 0
  /\ UNCHANGED <<world, open, feed, batch, txn, restarts>>

\* The program ends at any point and the running transaction is rolled back; it
\* is started again on a file of the lost round or before it, so that files are
\* applied again.
Restart ==
  /\ restarts < MaxRestarts
  /\ restarts' = restarts + 1
  /\ \E p \in 0 .. position : position' = p
  /\ taken' = 0 /\ batch' = <<>> /\ txn' = osm
  /\ UNCHANGED <<world, open, feed, osm>>

-----------------------------------------------------------------------------
\* The tables as an import of the world leaves them.
Imported(w) ==
  [ nodes |-> [n \in Nodes |-> IF w.nodes[n].there
                 THEN [version |-> w.nodes[n].version, loc |-> w.nodes[n].loc]
                 ELSE NoNode],
    ways |-> [table \in Tables |-> [x \in Ways |->
                LET way == w.ways[x]
                IN  IF way.there /\ TableOf(way.refs) = table
                      THEN [ version |-> way.version, refs |-> way.refs,
                             geom |-> [i \in DOMAIN way.refs |->
                                         w.nodes[way.refs[i]].loc] ]
                      ELSE NoWay]] ]

\* An empty world, one of nodes only, and one where every way has the shape r.
FirstNode(there, loc) == [version |-> IF there THEN 1 ELSE 0, there |-> there, loc |-> loc]
FirstWay(there, refs) == [version |-> IF there THEN 1 ELSE 0, there |-> there, refs |-> refs]

Init ==
  /\ \E loc \in Locs, made \in BOOLEAN, mapped \in BOOLEAN, r \in Refs :
       /\ mapped => made
       /\ world = [ nodes |-> [n \in Nodes |-> FirstNode(made, loc)],
                    ways |-> [w \in Ways |-> FirstWay(mapped, r)] ]
  /\ open = [nodes |-> <<>>, ways |-> <<>>] /\ feed = <<>>
  /\ osm = Imported(world) /\ txn = osm
  /\ position = 0 /\ taken = 0 /\ batch = <<>> /\ restarts = 0

Next ==
  \/ \E n \in Nodes : DropNode(n) \/ \E loc \in Locs : EditNode(n, loc)
  \/ \E w \in Ways : DropWay(w) \/ \E r \in Refs : EditWay(w, r)
  \/ Publish
  \/ \E k \in 1 .. FilesAtOnce : BeginRound(k)
  \/ Exec \/ Commit \/ Restart

Spec == Init /\ [][Next]_vars

-----------------------------------------------------------------------------
NodeRows == [version : Nat, loc : Locs \cup {NoLoc}]
WayRows == [version : Nat, refs : Seq(Nodes), geom : Seq(Locs)]
Databases == [nodes : [Nodes -> NodeRows], ways : [Tables -> [Ways -> WayRows]]]

\* Type invariant of the tables: a stored node has a location, and a stored way
\* is in the table its references belong to, whatever the batch made of it.
TypeOK ==
  /\ osm \in Databases /\ txn \in Databases
  /\ position + taken \in 0 .. Len(feed)
  /\ \A n \in Nodes : osm.nodes[n].version > 0 => osm.nodes[n].loc \in Locs
  /\ \A table \in Tables, w \in Ways :
       osm.ways[table][w].version > 0 => TableOf(osm.ways[table][w].refs) = table

\* A way is never in both tables at once, whatever is applied, in rounds of any
\* size, again and again, or with stale references.
NoDuplicateWay ==
  \A w \in Ways : \E table \in Tables : osm.ways[table][w].version = 0

\* The program is idle and has taken every edit there is.
InStep == Idle /\ NothingOpen /\ position = Len(feed)

\* Whenever the program has taken every file, the nodes are those of OSM, however
\* often files were applied again and however many at once.
NodesInStep ==
  InStep => \A n \in Nodes :
    LET node == world.nodes[n]
    IN  osm.nodes[n] = IF node.there THEN [version |-> node.version, loc |-> node.loc]
                       ELSE NoNode

\* The versions at which a way is stored.
Stored(w) ==
  {osm.ways[table][w].version : table \in Tables} \ {0}

\* What is in the files of the feed, in any order.
Edits == UNION {ToSet(feed[i]) : i \in DOMAIN feed}

\* The ways in which a way may be lost, or a lost one come back, whatever the rounds:
\* a file moves nodes while another, or the same, writes ways; a way is written on nodes
\* that an earlier file, maybe of its own round, makes; a ring is deleted without its
\* references; a file is applied again whose way has lost nodes since, so that the
\* change of its shape is skipped and its old shape stays; a way ends where it begins,
\* and is too short for a ring.
MovedWhileWritten ==
  /\ \E c \in Edits : c.kind = "node" /\ c.action = "modify"
  /\ \E c \in Edits : c.kind = "way" /\ c.action # "remove"

OnNewNodes ==
  \E i, j \in DOMAIN feed : i < j /\
    \E made \in ToSet(feed[i]), c \in ToSet(feed[j]) :
      /\ made.kind = "node" /\ made.action = "create"
      /\ c.kind = "way" /\ made.id \in ToSet(c.refs)

BareDelete ==
  \E c \in Edits : c.kind = "way" /\ c.action = "remove" /\ c.refs = <<>>

OnGoneNodes ==
  restarts > 0 /\
    \E gone, c \in Edits :
      /\ gone.kind = "node" /\ gone.action = "remove"
      /\ c.kind = "way" /\ c.action # "remove" /\ gone.id \in ToSet(c.refs)

ShortRing ==
  \E c \in Edits :
    /\ c.kind = "way" /\ c.action # "remove"
    /\ c.refs[1] = Last(c.refs) /\ ~Closed(c.refs)

\* In rounds of any size and after restarts on any file the ways are those of OSM, at
\* their versions, but for these five causes: statements made from tables that other
\* statements of the round change first do no other harm.
WaysLostForCause ==
  /\ InStep
  /\ ~MovedWhileWritten /\ ~OnNewNodes /\ ~BareDelete /\ ~OnGoneNodes /\ ~ShortRing
  =>
    \A w \in Ways :
      Stored(w) = IF world.ways[w].there THEN {world.ways[w].version} ELSE {}

\* As long as files are taken one by one, rings stay rings, none is too short to be
\* one, a <delete> lists the references, and no file is applied again whose ways have
\* lost nodes since, every way of OSM is stored, at its version, once the program has
\* taken every file; and no other way is.  Each of the conditions is needed: see the
\* README.
WaysInStep ==
  InStep /\ ~OnGoneNodes => \A w \in Ways :
    Stored(w) = IF world.ways[w].there THEN {world.ways[w].version} ELSE {}

\* What the code says of the ways it rebuilds (queryraw.cc:663): "all Ways that have
\* at least one reference to one of the modified Nodes": a stored way lies where its
\* nodes are.
MovedWaysFollow ==
  InStep => \A w \in Ways :
    Stored(w) = {world.ways[w].version} =>
      \E table \in Tables :
        osm.ways[table][w].geom
          = [i \in DOMAIN world.ways[w].refs |-> world.nodes[world.ways[w].refs[i]].loc]
=============================================================================
