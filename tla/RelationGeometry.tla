-------------------------- MODULE RelationGeometry --------------------------
(***************************************************************************)
(* OsmChangeFile::buildRelationGeometry: the geometry of a relation, put   *)
(* together from the ways of the cache of its file.                        *)
(*                                                                         *)
(* A way of the cache has a line and a polygon, sequences of locations of  *)
(* which one is empty, and whether its references are closed (they are     *)
(* unknown, so not closed, for a way that comes from the tables).  A       *)
(* member that is a node or a relation is left out before it all starts.   *)
(***************************************************************************)
EXTENDS Integers, SequencesExt

LineWay(points) == [line |-> points, poly |-> <<>>, closed |-> FALSE]
RingWay(points) == [line |-> <<>>, poly |-> points, closed |-> TRUE]

\* The loop over the members: the cache (its ways are turned round in place), the
\* line being joined, the last line, the parts by role, and the two flags.
Start(cache) ==
  [ cache |-> cache, part |-> <<>>, last |-> <<>>, outer |-> <<>>, inner |-> <<>>,
    first |-> TRUE, justClosed |-> FALSE, returned |-> FALSE ]

LinePart(points) == [line |-> points, poly |-> <<>>]
PolyPart(points) == [line |-> <<>>, poly |-> points]

Push(s, role, part) ==
  IF role = "inner" THEN [s EXCEPT !.inner = Append(@, part)]
  ELSE [s EXCEPT !.outer = Append(@, part)]

\* After a part is pushed: the next line starts a new one.  last is cleared too, to
\* be set again before the next member.
Restarted(s) == [s EXCEPT !.part = <<>>, !.first = TRUE, !.justClosed = TRUE]

(***************************************************************************)
(* A line is joined to the one before it by its end: the first of a part   *)
(* is turned when the next member goes on from its front, any other when   *)
(* it ends where the last one does.                                        *)
(***************************************************************************)
Turned(s, line, next) ==
  IF s.first /\ next # <<>>
    THEN \E n \in ToSet(next) : n # <<>> /\ Head(line) \in {Head(n), Last(n)}
    ELSE s.last # <<>> /\ Last(line) = Last(s.last)

\* Mutant of Oriented: lines are joined as they are drawn.
OrientedAsDrawn(s, line, next) == line

Oriented(s, line, next) == IF Turned(s, line, next) THEN Reverse(line) ELSE line

\* The next member does not go on from the end of the line.
Disconnected(line, n) == n = <<>> \/ Last(line) \notin {Head(n), Last(n)}

\* A member that is a line whose references are not closed; next is the line of
\* the next member, as a sequence of at most one.
JoinLine(s, member, multi, next) ==
  LET line == Oriented(s, s.cache[member.ref].line, next)
      joined == s.part \o line
      t == [s EXCEPT !.cache[member.ref].line = line, !.part = joined, !.last = line]
  IN  IF multi /\ Head(joined) = Last(joined)
        THEN Restarted(Push(t, member.role, PolyPart(joined)))
      ELSE IF \E n \in ToSet(next) : Disconnected(line, n)
        THEN Restarted([t EXCEPT !.outer = Append(@, LinePart(joined))])
      ELSE t

\* A line whose references are closed: its polygon is pushed, although it has none.
PushClosedLine(s, member) ==
  [ Push(s, member.role, PolyPart(s.cache[member.ref].poly))
      EXCEPT !.last = s.cache[member.ref].line ]

\* A polygon; for a multilinestring it becomes a line, in the cache as well.
PushPolygon(s, member, multi) ==
  LET way == s.cache[member.ref]
  IN  IF ~multi /\ way.line = <<>> /\ way.poly # <<>>
        THEN Push([s EXCEPT !.cache[member.ref].line = way.poly], member.role,
                  LinePart(way.poly))
      ELSE IF member.role = "inner" \/ way.poly # <<>>
        THEN Push(s, member.role, PolyPart(way.poly))
      ELSE Push(s, member.role, LinePart(way.line))

\* The flags at the end of a turn.
EndTurn(s) == [s EXCEPT !.first = @ /\ s.justClosed, !.justClosed = FALSE]

IsLine(way) == way.line # <<>> /\ way.poly = <<>>

\* One member.  The loop returns at a way that is not in the cache, and at a line
\* that starts a part when the next one is not.
Turn(members, multi, s, i) ==
  LET member == members[i]
      way == s.cache[member.ref]
      missing(j) == j <= Len(members) /\ members[j].ref \notin DOMAIN s.cache
      joins == IsLine(way) /\ ~way.closed
      next == IF i = Len(members) \/ missing(i + 1) THEN <<>>
              ELSE <<s.cache[members[i + 1].ref].line>>
  IN  IF s.returned THEN s
      ELSE IF missing(i) \/ (joins /\ s.first /\ missing(i + 1))
        THEN [s EXCEPT !.returned = TRUE]
      ELSE EndTurn(IF ~IsLine(way) THEN PushPolygon(s, member, multi)
                   ELSE IF joins THEN JoinLine(s, member, multi, next)
                   ELSE PushClosedLine(s, member))

Loop(cache, members, multi) ==
  LET IsWay(m) == m.type = "way"
      ways == SelectSeq(members, IsWay)
      turn[i \in 0 .. Len(ways)] ==
        IF i = 0 THEN Start(cache) ELSE Turn(ways, multi, turn[i - 1], i)
      end == turn[Len(ways)]
  IN  IF end.part = <<>> \/ end.returned THEN end
      ELSE [end EXCEPT !.outer = Append(@, LinePart(end.part))]

(***************************************************************************)
(* The geometry: the rings of a multipolygon, outer before inner (the      *)
(* first is the shell, every other a hole), the lines of a                 *)
(* multilinestring; a part with less than two points is left out.  A       *)
(* relation whose loop returned keeps the empty geometry it came with.     *)
(***************************************************************************)
RelationGeometryOf(cache, members, multi) ==
  LET end == Loop(cache, members, multi)
      parts == end.outer \o end.inner
      geometries == [i \in DOMAIN parts |-> IF multi THEN parts[i].poly ELSE parts[i].line]
      Drawn(points) == Len(points) > 1
  IN  IF end.returned THEN <<>> ELSE SelectSeq(geometries, Drawn)

\* The cache a relation leaves to the next relation of the file.
CacheAfter(cache, members, multi) == Loop(cache, members, multi).cache

-----------------------------------------------------------------------------
(* What it should be.                                                      *)

\* The sides of a sequence of points, whichever way it is drawn.
Sides(points) ==
  {{points[i], points[i + 1]} : i \in 1 .. Len(points) - 1} \ {{p} : p \in ToSet(points)}

SidesOf(geometry) == UNION {Sides(geometry[i]) : i \in DOMAIN geometry}

MemberSides(cache, members) ==
  UNION {Sides(cache[members[i].ref].line) \cup Sides(cache[members[i].ref].poly) :
           i \in {j \in DOMAIN members : members[j].type = "way"}}

AllThere(cache, members) ==
  \A i \in DOMAIN members : members[i].type = "way" => members[i].ref \in DOMAIN cache

\* Joining lines end to end invents no side: whatever the order and the direction
\* the members are drawn in, every side of the geometry is a side of a member.
NothingInvented(cache, members, multi) ==
  AllThere(cache, members) =>
    SidesOf(RelationGeometryOf(cache, members, multi)) \subseteq MemberSides(cache, members)

\* A multilinestring has every side of every member, or none when a member is
\* missing: never a part of them.
NothingLost(cache, members) ==
  LET built == SidesOf(RelationGeometryOf(cache, members, FALSE))
  IN  IF AllThere(cache, members) THEN built = MemberSides(cache, members)
      ELSE built = {}

\* The ways of the cache are changed by the relations that use them, yet a relation
\* is put together the same whatever relation came before it, with one exception: a
\* multilinestring with a ring that an earlier multilinestring has made a line.
BuiltAgain(cache, members, before, multi) ==
  LET rings == {i \in DOMAIN members : cache[members[i].ref].poly # <<>>}
  IN  AllThere(cache, members) /\ (before \/ multi \/ rings = {}) =>
        SidesOf(RelationGeometryOf(CacheAfter(cache, members, before), members, multi))
          = SidesOf(RelationGeometryOf(cache, members, multi))

\* Every ring of a multipolygon is closed.
RingsAreClosed(cache, members) ==
  LET rings == RelationGeometryOf(cache, members, TRUE)
  IN  \A i \in DOMAIN rings : Head(rings[i]) = Last(rings[i])
=============================================================================
