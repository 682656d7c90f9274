----------------------------- MODULE StatsFile -----------------------------
(***************************************************************************)
(* The statistics of a change file: which of its objects are in the        *)
(* priority area (OsmChangeFile::areaFilter), under which categories their *)
(* tags count (StatsConfig), and what is counted for a changeset           *)
(* (collectStats).                                                         *)
(*                                                                         *)
(* A file is a sequence of blocks, each with its nodes, its ways and its   *)
(* relations; the objects of a file are taken in that order.  An area is a *)
(* set of locations, the empty one no area at all.  The length of highways *)
(* and waterways is left out.                                              *)
(***************************************************************************)
EXTENDS Yaml, FiniteSets

Objects(file) ==
  FlattenSeq([i \in DOMAIN file |-> file[i].nodes \o file[i].ways \o file[i].relations])

OfType(objects, type) == {i \in DOMAIN objects : objects[i].type = type}

-----------------------------------------------------------------------------
(* OsmChangeFile::areaFilter.                                              *)

\* nodecache, as the parser leaves it: the last version of each node of the file, next
\* to the nodes that were asked for.
NodeCache(objects, stored) ==
  LET nodes == OfType(objects, "node")
      VersionsOf(n) == {i \in nodes : objects[i].id = n}
      LastOf(n) == CHOOSE i \in VersionsOf(n) : \A j \in VersionsOf(n) : j <= i
  IN  [n \in {objects[i].id : i \in nodes} |-> objects[LastOf(n)].loc] @@ stored

\* Whether an object is inside, by the nodes and the priorities known at its turn.
Inside(s, o, poly) ==
  \/ poly = {}
  \/ o.type = "node" /\ o.loc \in poly
  \/ o.type = "way" /\ \E n \in o.refs \cap DOMAIN s.nodecache : s.nodecache[n] \in poly
  \/ o.type = "relation" /\ \E w \in o.members \cap DOMAIN s.waycache : s.waycache[w]

\* Mutant of FilterObject: the way of the cache does not get its priority.
FilterObjectAlone(s, o, poly) ==
  [s EXCEPT !.priority = Append(@, Inside(s, o, poly)),
            !.nodecache = IF o.type = "node" /\ Inside(s, o, poly)
                            THEN [n \in {o.id} |-> o.loc] @@ @ ELSE @]

\* One object: a node inside, in this version, is put in nodecache; a way leaves its
\* priority with the entry of waycache, where it has one.
FilterObject(s, o, poly) ==
  LET inside == Inside(s, o, poly)
  IN  [ nodecache |-> IF o.type = "node" /\ inside
                        THEN [n \in {o.id} |-> o.loc] @@ s.nodecache ELSE s.nodecache,
        waycache |-> [w \in DOMAIN s.waycache |->
                        IF o.type = "way" /\ o.id = w THEN inside ELSE s.waycache[w]],
        priority |-> Append(s.priority, inside) ]

\* The priority of each object.  waycache has the ways buildGeometries has put there,
\* none of them with a priority yet.
AreaFilter(objects, poly, stored, cachedWays) ==
  LET filter(s, o) == FilterObject(s, o, poly)
      first == [ nodecache |-> NodeCache(objects, stored),
                 waycache |-> [w \in cachedWays |-> FALSE], priority |-> <<>> ]
  IN  FoldLeft(filter, first, objects).priority

-----------------------------------------------------------------------------
(* StatsConfig: the categories of a configuration file, each a name and,   *)
(* for a type of object, the values it takes of each key.                  *)

\* The keys of one type: "*" for all, or a key with its values.
KeysOf(type) ==
  LET IsAny(k) == k.value = "*"
      Taken(k) == IsAny(k) \/ k.children # <<>>
      keys == SelectSeq(type.children, Taken)
      ValuesOf(key) ==
        IF key = "*" THEN {"*"}
        ELSE UNION {{v.value : v \in ToSet(k.children)} : k \in {x \in ToSet(keys) : x.value = key}}
  IN  [key \in {k.value : k \in ToSet(keys)} |-> ValuesOf(key)]

\* StatsConfig::read_yaml.  No type is listed twice in a category.
Categories(root) ==
  LET keys(c, name) == IF KeyAt(c, name) = {} THEN KeysOf(Leaf(name)) ELSE KeysOf(FirstAt(c, name))
      category(c) == [ name |-> c.value, node |-> keys(c, "node"), way |-> keys(c, "way"),
                       relation |-> keys(c, "relation") ]
  IN  [i \in DOMAIN root.children |-> category(root.children[i])]

\* StatsConfig::searchCategory; "*" sorts before every value.
SearchCategory(t, keys) ==
  \E key \in DOMAIN keys :
    key = "*" \/ (key = t.key /\ (keys[key] \cap {"*", t.value} # {}))

\* StatsConfig::search, of the first category that takes the tag.
Search(t, type, categories) ==
  LET takes == {i \in DOMAIN categories : SearchCategory(t, categories[i][type])}
      name == categories[CHOOSE i \in takes : \A j \in takes : i <= j].name
  IN  CASE takes = {} -> <<>>
        [] name = "[key]" -> <<t.key>>
        [] name = "[key:value]" -> <<t.key, t.value>>
        [] OTHER -> <<name>>

\* OsmChangeFile::scanTags, tag by tag.
Hits(o, categories) ==
  {h \in {[tag |-> t, hit |-> Search(t, o.type, categories)] : t \in o.tags} :
     h.tag.value # "" /\ h.hit # <<>>}

\* What collectStats leaves out: an object outside of the area, a way that is removed,
\* a way or a relation without tags, a node or a way tagged created_at alone.  Nothing
\* is counted of what is removed.
Skipped(o, priority) ==
  \/ ~priority \/ o.action = "remove"
  \/ o.type # "node" /\ o.tags = {}
  \/ o.type # "relation" /\ {t.key : t \in o.tags} = {"created_at"}

\* collectStats: the features of a changeset, added or modified, under a category.
CollectStats(objects, priority, categories, changeset, action, hit) ==
  Cardinality(UNION {{[object |-> i, tag |-> h.tag] :
                        h \in {x \in Hits(objects[i], categories) : x.hit = hit}} :
                       i \in {j \in DOMAIN objects :
                                /\ objects[j].changeset = changeset
                                /\ objects[j].action = action
                                /\ ~Skipped(objects[j], priority[j])}})

-----------------------------------------------------------------------------
(* What it should be.                                                      *)

VersionsInside(objects, poly, n) ==
  {i \in OfType(objects, "node") : objects[i].id = n /\ objects[i].loc \in poly}

\* However a file is cut into blocks, a way is in the area if one of its nodes is, where
\* the file leaves it, and only if one of them is in some version.  A relation is only
\* if one of its ways is, and it is if that way comes before it and has an entry.
PriorityIsInside(objects, poly, stored, cachedWays) ==
  LET priority == AreaFilter(objects, poly, stored, cachedWays)
      left == NodeCache(objects, stored)
      ways == OfType(objects, "way")
      wayOf(i, r) == i \in ways /\ objects[i].id \in objects[r].members /\ priority[i]
  IN  poly # {} =>
        /\ \A w \in ways :
             /\ (\E n \in objects[w].refs \cap DOMAIN left : left[n] \in poly) => priority[w]
             /\ priority[w] => \E n \in objects[w].refs :
                                 \/ VersionsInside(objects, poly, n) # {}
                                 \/ n \in DOMAIN stored /\ stored[n] \in poly
        /\ \A r \in OfType(objects, "relation") :
             /\ priority[r] => \E i \in ways : wayOf(i, r)
             /\ \A i \in ways :
                  wayOf(i, r) /\ i < r /\ objects[i].id \in cachedWays => priority[r]

\* With a configuration that has each key as a category, every tag with a value, of
\* every object of the area the file adds or modifies, is counted once: in the
\* changeset of the object, under its key, and nowhere else.
EveryTagOnce(objects, priority, categories, changesets, keys) ==
  \A c \in changesets, action \in {"create", "modify"}, key \in keys :
    CollectStats(objects, priority, categories, c, action, <<key>>)
      = Cardinality({i \in DOMAIN objects :
          /\ priority[i] /\ objects[i].changeset = c /\ objects[i].action = action
          /\ \E t \in objects[i].tags : t.key = key /\ t.value # ""
          /\ objects[i].type = "relation" \/ {t.key : t \in objects[i].tags} # {"created_at"}})
=============================================================================
