---------------------------- MODULE RawRelations ----------------------------
(***************************************************************************)
(* The table relations, on top of the raw tables of RawStore: a relation   *)
(* is written with the geometry its ways have in the file or in the tables *)
(* before the round, and written again, geometry only, when a node of one  *)
(* of its ways moves.  The geometry itself is put together by              *)
(* RelationGeometry.                                                       *)
(*                                                                         *)
(* The variables are those of RawStore; world, open, osm and txn have one  *)
(* more field, relations.  A relation keeps its tag type: it is in         *)
(* Multipolygons (isMultiPolygon) or not.  A relation and a way never have *)
(* the same identifier as a node, which in OSM they may; all it would do   *)
(* is make getRelationsByWaysRefs find a relation too many.                *)
(***************************************************************************)
EXTENDS RawStore, RelationGeometry

CONSTANTS
  Relations,      \* identifiers
  Multipolygons,  \* those tagged multipolygon or boundary
  MemberLists     \* lists of members mappers give to relations

ASSUME RelationsAssumption == Multipolygons \subseteq Relations
ASSUME MembersAssumption ==
  \A members \in MemberLists : \A i \in DOMAIN members :
    /\ members[i].type \in {"node", "way"} /\ members[i].role \in {"inner", "outer"}
    /\ members[i].ref \in (IF members[i].type = "node" THEN Nodes ELSE Ways)

NoRelation == [version |-> 0, members |-> <<>>, geom |-> <<>>]

RelationChange(r, action, version, members) ==
  [kind |-> "relation", id |-> r, action |-> action, version |-> version,
   members |-> members]

-----------------------------------------------------------------------------
(* Members as the table has them.  Underpass writes the types "node" and   *)
(* "way" (buildMembersQuery), the import "n" and "w" (setup/db/raw.lua),   *)
(* and Underpass reads back everything but "n" and "r" as a way.           *)

Retyped(members, name) ==
  [i \in DOMAIN members |-> [members[i] EXCEPT !.type = name[@]]]

ImportedTypes == [node |-> "n", way |-> "w"]

WrittenTypes == [node |-> "node", way |-> "way"]

\* Mutant of ReadTypes: the names Underpass writes are known, those of the import not.
ReadTypesInFull == [n |-> "way", w |-> "way", node |-> "node", way |-> "way"]

ReadTypes == [n |-> "node", w |-> "way", node |-> "way", way |-> "way"]

TrueTypes == [n |-> "node", w |-> "way", node |-> "node", way |-> "way"]

-----------------------------------------------------------------------------
(* QueryRaw::buildGeometries, for one file, on the tables db.              *)

IsRelation(c) == c.kind = "relation"
IsOther(c) == c.kind # "relation"

WithoutRelations(file) == SelectSeq(file, IsOther)

\* getRelationsByWaysRefs, for the ways a node of the file moves, less the relations
\* the file itself changes in any way.
IndirectRelations(file, db) ==
  LET moved == {c.id : c \in ToSet(Indirect(WithoutRelations(file), db))}
      own == {c.id : c \in {d \in ToSet(file) : IsRelation(d)}}
      found == {r \in Relations \ own :
                  /\ db.relations[r].version > 0
                  /\ \E m \in ToSet(db.relations[r].members) : m.ref \in moved}
      change(r) == RelationChange(r, "modify_geom", db.relations[r].version,
                                  Retyped(db.relations[r].members, ReadTypes))
  IN  SetToSeq({change(r) : r \in found})

RelationChanges(file, db) == SelectSeq(file, IsRelation) \o IndirectRelations(file, db)

\* The points of a way that are known, for a way that may not be complete.
Drawn(refs, known) ==
  LET Known(n) == n \in DOMAIN known
  IN  Geometry(SelectSeq(refs, Known), known)

\* waycache: a way of the file, or one it moves, has the line of its last open version
\* and the polygon of its last closed one, and the references of the first.
OwnWay(versions, known) ==
  LET IsRing(c) == Closed(c.refs)
      IsPath(c) == ~Closed(c.refs)
      ofLast(cs) == IF cs = <<>> THEN <<>> ELSE Drawn(Last(cs).refs, known)
  IN  [ line |-> ofLast(SelectSeq(versions, IsPath)),
        poly |-> ofLast(SelectSeq(versions, IsRing)),
        closed |-> Closed(versions[1].refs) ]

\* Mutant of StoredWay: only the lines are asked for.
StoredLine(db, w) ==
  [line |-> db.ways["ways_line"][w].geom, poly |-> <<>>, closed |-> FALSE]

\* getWaysByIds: a way of the tables, without its references.
StoredWay(db, w) ==
  [ line |-> db.ways["ways_line"][w].geom, poly |-> db.ways["ways_poly"][w].geom,
    closed |-> FALSE ]

WayCache(file, db) ==
  LET plain == WithoutRelations(file)
      known == KnownNodes(plain, db)
      WritesWay(c) == c.kind = "way" /\ c.action # "remove"
      written == SelectSeq(plain, WritesWay) \o Indirect(plain, db)
      own == {c.id : c \in ToSet(written)}
      members == {m \in UNION {ToSet(c.members) : c \in ToSet(RelationChanges(file, db))} :
                    m.type = "way"}
      stored == {w \in {m.ref : m \in members} \cap Ways :
                   \E table \in Tables : db.ways[table][w].version > 0}
      VersionsOf(w) == LET IsVersion(c) == c.id = w IN SelectSeq(written, IsVersion)
  IN  [w \in own \cup stored |->
         IF w \in own THEN OwnWay(VersionsOf(w), known) ELSE StoredWay(db, w)]

\* The statements: removes, and the relations with a geometry.  Each relation is put
\* together from the cache as the one before it has left it; after the early return
\* of buildGeometries none is.
RelationStatements(file, db) ==
  LET changes == RelationChanges(file, db)
      multi(c) == c.id \in Multipolygons
      skipped(c) == c.action = "remove" \/ GaveUp(WithoutRelations(file), db)
      cache[i \in 0 .. Len(changes)] ==
        IF i = 0 THEN WayCache(file, db)
        ELSE IF skipped(changes[i]) THEN cache[i - 1]
        ELSE CacheAfter(cache[i - 1], changes[i].members, multi(changes[i]))
      geometry(i) ==
        IF skipped(changes[i]) THEN <<>>
        ELSE RelationGeometryOf(cache[i - 1], changes[i].members, multi(changes[i]))
      Written(s) == s.c.action = "remove" \/ s.geom # <<>>
  IN  SelectSeq([i \in DOMAIN changes |-> [c |-> changes[i], geom |-> geometry(i)]], Written)

\* The table relations has statements of its own, so where they stand among the
\* others of the file does not matter.
AllStatements(file, db) ==
  Statements(WithoutRelations(file), db) \o RelationStatements(file, db)

-----------------------------------------------------------------------------
(* QueryRaw::applyChange(OsmRelation), as the database runs it.            *)

StoreRelation(db, c, geom) ==
  IF db.relations[c.id].version <= c.version
    THEN [db EXCEPT !.relations[c.id] =
            [ version |-> c.version, members |-> Retyped(c.members, WrittenTypes),
              geom |-> geom ]]
    ELSE db

MoveRelation(db, c, geom) ==
  IF db.relations[c.id].version > 0
    THEN [db EXCEPT !.relations[c.id].geom = geom]
    ELSE db

RemoveRelation(db, c) == [db EXCEPT !.relations[c.id] = NoRelation]

ApplyAny(db, s) ==
  IF ~IsRelation(s.c) THEN Apply(db, s)
  ELSE CASE s.c.action = "remove" -> RemoveRelation(db, s.c)
         [] s.c.action = "modify_geom" -> MoveRelation(db, s.c, s.geom)
         [] OTHER -> StoreRelation(db, s.c, s.geom)

-----------------------------------------------------------------------------
(* OSM and its feed.                                                       *)

MemberIds(type) ==
  {m.ref : m \in {k \in UNION {ToSet(world.relations[r].members) :
                                 r \in {x \in Relations : world.relations[x].there}} :
                    k.type = type}}

EditRelation(r, members) ==
  LET v == world.relations[r].version
  IN  /\ Room
      /\ \A m \in ToSet(members) :
           IF m.type = "node" THEN world.nodes[m.ref].there ELSE world.ways[m.ref].there
      /\ world' = [world EXCEPT !.relations[r] =
                     [version |-> v + 1, there |-> TRUE, members |-> members]]
      /\ open' = [open EXCEPT !.relations =
                    Append(@, RelationChange(r, Action(v), v + 1, members))]
      /\ UNCHANGED <<feed, program>>

DropRelation(r) ==
  LET v == world.relations[r].version
  IN  /\ Room
      /\ world.relations[r].there
      /\ world' = [world EXCEPT !.relations[r].version = v + 1,
                                !.relations[r].there = FALSE]
      /\ open' = [open EXCEPT !.relations =
                    Append(@, RelationChange(r, "remove", v + 1, <<>>))]
      /\ UNCHANGED <<feed, program>>

NoEdits == [nodes |-> <<>>, ways |-> <<>>, relations |-> <<>>]

\* Relations come last in a file.
PublishAll ==
  /\ ~NothingOpen
  /\ feed' = Append(feed, open.nodes \o open.ways \o open.relations)
  /\ open' = NoEdits
  /\ UNCHANGED <<world, program>>

-----------------------------------------------------------------------------
(* The program.                                                            *)

AllWorkers(k) ==
  FlattenSeq([i \in 1 .. k |-> AllStatements(feed[position + i], osm)])

BeginRoundOfAll(k) ==
  /\ Idle
  /\ position + k <= Len(feed)
  /\ taken' = k
  /\ batch' = AllWorkers(k)
  /\ UNCHANGED <<world, open, feed, osm, position, txn, restarts>>

ExecAny ==
  /\ batch # <<>>
  /\ txn' = ApplyAny(txn, Head(batch))
  /\ batch' = Tail(batch)
  /\ UNCHANGED <<world, open, feed, osm, position, taken, restarts>>

-----------------------------------------------------------------------------
\* The ways as the world has them, as a cache of ways.
WaysOfWorld(w) ==
  [x \in {y \in Ways : w.ways[y].there} |->
     LET refs == w.ways[x].refs
         points == [i \in DOMAIN refs |-> w.nodes[refs[i]].loc]
     IN  IF Closed(refs) THEN RingWay(points) ELSE LineWay(points)]

GeometryInWorld(w, r) ==
  RelationGeometryOf(WaysOfWorld(w), w.relations[r].members, r \in Multipolygons)

\* The table as an import of the world leaves it.
ImportedRelations(w) ==
  [r \in Relations |->
     IF w.relations[r].there
       THEN [ version |-> w.relations[r].version,
              members |-> Retyped(w.relations[r].members, ImportedTypes),
              geom |-> GeometryInWorld(w, r) ]
       ELSE NoRelation]

\* A world of nodes only, or one where every way has the shape s and every relation
\* the members m.
InitAll ==
  /\ \E loc \in Locs, mapped \in BOOLEAN, s \in Refs, m \in MemberLists :
       /\ mapped \/ <<s, m>> = CHOOSE x \in Refs \X MemberLists : TRUE
       /\ world =
            [ nodes |-> [n \in Nodes |-> FirstNode(TRUE, loc)],
              ways |-> [w \in Ways |-> FirstWay(mapped, s)],
              relations |-> [r \in Relations |->
                [version |-> IF mapped THEN 1 ELSE 0, there |-> mapped, members |-> m]] ]
  /\ open = NoEdits /\ feed = <<>>
  /\ osm = Imported(world) @@ [relations |-> ImportedRelations(world)] /\ txn = osm
  /\ position = 0 /\ taken = 0 /\ batch = <<>> /\ restarts = 0

NextAll ==
  \/ \E n \in Nodes : \/ n \notin MemberIds("node") /\ DropNode(n)
                      \/ \E loc \in Locs : EditNode(n, loc)
  \/ \E w \in Ways : \/ w \notin MemberIds("way") /\ DropWay(w)
                     \/ \E s \in Refs : EditWay(w, s)
  \/ \E r \in Relations : DropRelation(r) \/ \E m \in MemberLists : EditRelation(r, m)
  \/ PublishAll
  \/ \E k \in 1 .. FilesAtOnce : BeginRoundOfAll(k)
  \/ ExecAny \/ Commit \/ Restart

SpecAll == InitAll /\ [][NextAll]_vars

-----------------------------------------------------------------------------
\* Relations of a file are put together from one cache.  The first multilinestring makes
\* a ring a line there, and the next one, or its next version, leaves the ring out.
IsString(c) == IsRelation(c) /\ c.id \notin Multipolygons

RingSpent(r) ==
  /\ r \notin Multipolygons
  /\ \E file \in ToSet(feed) :
       \/ \E i, j \in DOMAIN file : i # j /\ IsString(file[i]) /\ IsString(file[j])
       \/ /\ \E c \in ToSet(file) : c.kind = "node"
          /\ Relations \ Multipolygons # {r}

\* As long as files are taken one by one, rings stay rings, every relation has a way, and
\* no file is applied again whose ways have lost nodes since, every relation of OSM is
\* stored, at its version and with its members, once the program has taken every file,
\* however often it was started again on an earlier one; and no other is.  A multilinestring
\* with a ring that another has spent is not written.
RelationsInStep ==
  InStep /\ ~OnGoneNodes => \A r \in Relations :
    LET row == osm.relations[r]
    IN  RingSpent(r) \/
        IF world.relations[r].there
          THEN /\ row.version = world.relations[r].version
               /\ Retyped(row.members, TrueTypes) = world.relations[r].members
          ELSE row = NoRelation

\* Then a relation has the geometry its members have, although its row was written from
\* tables that the round changed, but for two causes more: a way was redrawn, which alone
\* never touches the relations it is in; or a member that is a node was written by
\* Underpass, and read back as a way.
WayRedrawn == \E c \in Edits : c.kind = "way" /\ c.action = "modify"

MisreadMembers(r) == \E m \in ToSet(osm.relations[r].members) : m.type = "node"

RelationsFollow ==
  InStep /\ ~OnGoneNodes /\ ~WayRedrawn =>
    \A r \in {x \in Relations : world.relations[x].there} :
      \/ MisreadMembers(r) \/ RingSpent(r)
      \/ osm.relations[r].geom = GeometryInWorld(world, r)
=============================================================================
