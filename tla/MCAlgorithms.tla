---------------------------- MODULE MCAlgorithms ----------------------------
(***************************************************************************)
(* The algorithms that keep no state, on every input of some small sets:   *)
(* one state for each input.                                               *)
(***************************************************************************)
EXTENDS StartUp, StatsFile, DatabaseURL, RelationGeometry, TLC

VARIABLE input

None == [kind |-> "none"]

-----------------------------------------------------------------------------
(* Relations: three ways between the corners of a triangle, drawn in any   *)
(* direction, one of them perhaps missing.                                 *)

Lines == {<<1, 2>>, <<2, 1>>, <<2, 3>>, <<3, 2>>, <<1, 3>>, <<3, 1>>, <<1, 2, 3>>}
CachedWays == {LineWay(l) : l \in Lines} \cup {RingWay(<<1, 2, 3, 1>>)}
Caches == [{"a", "b", "c"} -> CachedWays] \cup [{"a", "b"} -> CachedWays]

Member(ref, role) == [ref |-> ref, type |-> "way", role |-> role]
MemberLists ==
  { <<Member("a", "outer"), Member("b", "outer"), Member("c", "outer")>>,
    <<Member("a", "outer"), Member("b", "outer"), Member("c", "inner")>>,
    <<Member("a", "outer"), Member("b", "outer")>>, <<Member("a", "outer")>> }

RelationInputs ==
  [kind : {"relation"}, cache : Caches, members : MemberLists, multi : BOOLEAN]

-----------------------------------------------------------------------------
(* Statistics: two nodes, one of them twice, a way and a relation, in two  *)
(* blocks; a node of the way may not be in the file.                       *)

Tag(key, value) == [key |-> key, value |-> value]

Tagged == {Tag("building", "yes"), Tag("name", ""), Tag("created_at", "noon")}

Object(type, id, action, changeset) ==
  [type |-> type, id |-> id, action |-> action, changeset |-> changeset, tags |-> Tagged]

Node(id, loc, action, tags) ==
  [Object("node", id, action, "c") EXCEPT !.tags = tags] @@ [loc |-> loc]

\* The blocks each object goes to, by the block of each.
File(locs, blocks, actions, tags) ==
  LET nodes == << Node("n", locs[1], actions[blocks[1]], tags),
                  Node("n", locs[2], actions[blocks[2]], tags) >>
      way == Object("way", "w", actions[blocks[3]], "d") @@ [refs |-> {"n", "m"}]
      relation == Object("relation", "r", actions[blocks[4]], "c") @@ [members |-> {"w", "v"}]
      Here(b, k, objects) == IF blocks[k] = b THEN objects ELSE <<>>
      block(b) == [ nodes |-> Here(b, 1, <<nodes[1]>>) \o Here(b, 2, <<nodes[2]>>),
                    ways |-> Here(b, 3, <<way>>), relations |-> Here(b, 4, <<relation>>) ]
  IN  <<block(1), block(2)>>

Files ==
  { File(locs, blocks, actions, tags) :
      locs \in {<<0, 0>>, <<0, 1>>, <<1, 0>>, <<1, 1>>},
      blocks \in {b \in [1 .. 4 -> 1 .. 2] : b[1] <= b[2]},
      actions \in {"create", "modify", "remove"} \X {"modify", "remove"},
      tags \in {Tagged, {Tag("created_at", "noon")}, {}} }

StatsInputs ==
  [ kind : {"stats"}, file : Files, poly : {{}, {1}},
    stored : {[m \in {} |-> 0], [m \in {"m"} |-> 0], [m \in {"m"} |-> 1]},
    cachedWays : {{}, {"w"}, {"w", "v"}} ]

\* config/stats/statistics.yaml.
StatsYaml ==
  << Line(0, <<"[key]", ":">>),
     Line(2, <<"way", ":">>), Line(4, <<"-", "*">>),
     Line(2, <<"node", ":">>), Line(4, <<"-", "*">>),
     Line(2, <<"relation", ":">>), Line(4, <<"-", "*">>) >>

ShippedCategories == Categories(Read(StatsYaml))

-----------------------------------------------------------------------------
(* The start.                                                              *)

Value == [f1 |-> 1, f4 |-> 4, f9 |-> 9, t0 |-> 0, t10 |-> 10, t25 |-> 25]
ValueOf(token) == Value[token]

Entry(e) == << Line(2, <<e[1], ":">>), Line(4, <<e[2]>>) >>

ListingOf(entries) ==
  Read(<<Line(0, <<"#", "comment">>), Line(0, <<"minute", ":">>)>>
       \o FlattenSeq([i \in DOMAIN entries |-> Entry(entries[i])])
       \o <<Line(0, <<"changeset", ":">>)>> \o Entry(<<"f4", "t0">>) \o Entry(<<"f9", "t25">>))

Entries == {"f1", "f4", "f9"} \X {"t0", "t10", "t25"}

ListingInputs ==
  [ kind : {"listing"}, entries : (Entries \X Entries) \cup (Entries \X Entries \X Entries),
    start : {-1, 0, 3, 10, 12, 25, 26, 40}, beyond : {-5, 7, 50},
    frequency : {"minutely", "hourly"} ]

\* A password comes with a user, a user and a port with a host.
URLInputs ==
  { u \in [ kind : {"url"}, user : {<<>>, <<"user">>}, passwd : {<<>>, <<"password">>},
            host : {<<>>, <<"host">>}, port : {<<>>, <<"5432">>}, dbname : {<<"name">>} ] :
      /\ u.passwd # <<>> => u.user # <<>>
      /\ u.user # <<>> \/ u.port # <<>> => u.host # <<>> }

Options ==
  { [ timestamp |-> t[1], until |-> t[2], time |-> 12, url |-> url, changeseturl |-> c,
      changesets |-> only, osmchanges |-> other, frequency |-> f, concurrency |-> n,
      bootstrap |-> b, planet |-> p, server |-> s, rawdb |-> p, destdir_base |-> s,
      datadir |-> NotGiven, osmnoboundary |-> NotGiven, oscnoboundary |-> s ] :
    t \in { <<NotGiven, NotGiven>>, <<"now", NotGiven>>, <<"now", "later">>,
            <<"time", NotGiven>>, <<"time", "later">>, <<"time", "bad">>, <<"bad", NotGiven>> },
    url \in {NotGiven, "000/075/000"}, c \in {NotGiven, "005/800/000", "bad"},
    only \in {NotGiven, "yes"}, other \in {NotGiven, "yes"}, f \in {NotGiven, "h", "bad"},
    n \in {NotGiven, "4", "bad"}, b \in {NotGiven, "yes"}, p \in {NotGiven, "given"},
    s \in {NotGiven, "told"} }

Environments ==
  { [ underpass_osm_db_url |-> v, underpass_db_url |-> NotGiven, destdir_base |-> v,
      planet_server |-> v, frequency |-> f, datadir |-> v ] :
    v \in {NotGiven, "environment"}, f \in {NotGiven, "hour"} }

\* config/default.yaml, two words for each of the values.
DefaultYaml ==
  << Line(0, <<"#", "Underpass">>), Line(0, <<"config", ":">>),
     Line(4, <<"-", "underpass_db_url", ":">>), Line(8, <<"-", "host/stats">>),
     Line(4, <<"-", "underpass_osm_db_url", ":">>), Line(8, <<"-", "host/raw">>),
     Line(4, <<"-", "planet_servers", ":">>), Line(8, <<"-", "one">>), Line(8, <<"-", "two">>),
     Line(0, <<>>),
     Line(4, <<"-", "destdir_base", ":">>), Line(8, <<"-", "/data/">>) >>

DefaultTree == Read(DefaultYaml)

StartInputs == [kind : {"start"}, options : Options, env : Environments]

SmallListing == ListingOf(<<<<"f1", "t0">>, <<"f4", "t10">>, <<"f9", "t25">>>>)

-----------------------------------------------------------------------------
Init == input = None

Next ==
  /\ input = None
  /\ \/ input' \in RelationInputs
     \/ input' \in StatsInputs
     \/ input' \in ListingInputs
     \/ input' \in URLInputs
     \/ input' \in StartInputs

Spec == Init /\ [][Next]_input

-----------------------------------------------------------------------------
\* The geometry of a relation: no side is made up and none is lost, rings are closed,
\* and the relations before it in the file make no difference.
RelationBuilt ==
  input.kind = "relation" =>
    /\ NothingInvented(input.cache, input.members, input.multi)
    /\ NothingLost(input.cache, input.members)
    /\ RingsAreClosed(input.cache, input.members)
    /\ \A before \in BOOLEAN : BuiltAgain(input.cache, input.members, before, input.multi)

\* The statistics of a file: what is in the area is not a matter of the order of its
\* blocks, and each tag of it is counted once.
StatsCounted ==
  input.kind = "stats" =>
    LET objects == Objects(input.file)
        priority == AreaFilter(objects, input.poly, input.stored, input.cachedWays)
    IN  /\ PriorityIsInside(objects, input.poly, input.stored, input.cachedWays)
        /\ EveryTagOnce(objects, priority, ShippedCategories, {"c", "d"},
                        {"building", "name", "created_at"})

\* The start of the program: the databases, the monitors, and the file to start at,
\* are those the configuration and the command line tell.
StartsAsTold ==
  /\ input.kind = "start" =>
       \A run \in Run(DefaultTree, input.env, input.options, "8", SmallListing, 30,
                      [file |-> 7, time |-> -5]) :
         /\ MonitorsAsTold(run, input.options)
         /\ ConfiguredAsTold(run, input.options, input.env, DefaultTree)
  /\ input.kind = "url" =>
       ParsedAsSpelled([user |-> input.user, port |-> input.port, host |-> input.host,
                        passwd |-> input.passwd, dbname |-> input.dbname])
  /\ input.kind = "listing" =>
       /\ FindsFile([frequency |-> input.frequency, planet_server |-> "one",
                     datadir |-> "replication/"],
                    ListingOf(input.entries), input.start, [file |-> 7, time |-> input.beyond])
       /\ StateIsRead(input.start, input.beyond)
=============================================================================
